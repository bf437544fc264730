---------------------------- MODULE LidarScanProofs ----------------------------
(***************************************************************************)
(* A scan is one turn of the head and the flag tells what stood before the *)
(* robot in it, for every way the reads cut the stream, every turn that    *)
(* follows and every watchdog, retry and spin bound: what the constants    *)
(* give TLC one value of.  Two hypotheses remain.  The point buffer holds  *)
(* a turn (MAX_POINTS is 512, a turn at full speed has 400).  And noise    *)
(* changes bodies of packets, which the checksum covers; a changed header  *)
(* loses a packet unseen, and the theorems do not hold with it.            *)
(*                                                                         *)
(* The argument: the decoder follows the stream (Follows) as long as it    *)
(* has lost nothing, one token moves it on one place (FeedFollows), so do  *)
(* the tokens of a read (PushFollows), and what is lost stays lost until   *)
(* the ring-start of a later turn.                                         *)
(***************************************************************************)
EXTENDS LidarScan, SequenceTheorems, WellFoundedInduction, TLAPS

--------------------------------------------------------------------------------
(* The turns and what is sent of them.                                     *)

Packets(t) == IF t.slow THEN 2 ELSE 3
TokensOf(t, k) == Layout(t)[k] + 3
Starts(t, k) == IF k = 1 THEN 0 ELSE IF k = 2 THEN 4 ELSE 11
TurnLength(t) == IF t.slow THEN 10 ELSE 17
Place(t, k, i) == [of |-> t, packet |-> k, item |-> i]
Token == {x \in [of : Turns, packet : 0 .. 3, item : Nat] : x.packet <= Packets(x.of)}

LEMMA TurnsAreSlowOrNot == \A t \in Turns : t.slow \in BOOLEAN
  BY DEF Turns

LEMMA LayoutIs ==
    ASSUME NEW t \in Turns
    PROVE  /\ Packets(t) \in 2 .. 3
           /\ Layout(t)[1] = 1 /\ TokensOf(t, 1) = 4
           /\ t.slow => /\ Packets(t) = 2 /\ Layout(t)[2] = 3 /\ TokensOf(t, 2) = 6
                        /\ TurnLength(t) = 10 /\ Samples(t) = 4
           /\ ~t.slow => /\ Packets(t) = 3 /\ Layout(t)[2] = 4 /\ Layout(t)[3] = 3
                         /\ TokensOf(t, 2) = 7 /\ TokensOf(t, 3) = 6
                         /\ TurnLength(t) = 17 /\ Samples(t) = 8
           /\ \A k \in 1 .. Packets(t) :
                 /\ Layout(t)[k] \in 1 .. 4 /\ TokensOf(t, k) = Layout(t)[k] + 3
                 /\ TokensOf(t, k) \in 4 .. 7
                 /\ First(t, k) \in 1 .. 6 /\ Starts(t, k) \in {0, 4, 11}
<1>1. CASE t.slow
  <2>1. Layout(t) = <<1, 3>>
    BY <1>1 DEF Layout
  <2> QED
    BY <1>1, <2>1 DEF Packets, TokensOf, TurnLength, Samples, First, Starts
<1>2. CASE ~t.slow
  <2>1. Layout(t) = <<1, 4, 3>>
    BY <1>2 DEF Layout
  <2> QED
    BY <1>2, <2>1 DEF Packets, TokensOf, TurnLength, Samples, First, Starts
<1> QED
  BY <1>1, <1>2

LEMMA PacketIs ==
    ASSUME NEW t \in Turns, NEW k \in 1 .. Packets(t)
    PROVE  /\ Packet(t, k) = [i \in 1 .. TokensOf(t, k) |-> Place(t, k, i)]
           /\ Packet(t, k) \in [1 .. TokensOf(t, k) -> Token]
<1>1. Packet(t, k) = [i \in 1 .. TokensOf(t, k) |-> Place(t, k, i)]
  BY DEF Packet, TokensOf, Place
<1>2. TokensOf(t, k) \in Nat /\ k \in 0 .. 3
  BY LayoutIs
<1>3. \A i \in 1 .. TokensOf(t, k) : Place(t, k, i) \in Token
  BY <1>2 DEF Place, Token
<1> QED
  BY <1>1, <1>3

LEMMA PacketFunctions ==
    ASSUME NEW t \in Turns
    PROVE  /\ Packet(t, 1) = [i \in 1 .. 4 |-> Place(t, 1, i)] /\ Packet(t, 1) \in [1 .. 4 -> Token]
           /\ t.slow =>
                /\ Packet(t, 2) = [i \in 1 .. 6 |-> Place(t, 2, i)] /\ Packet(t, 2) \in [1 .. 6 -> Token]
           /\ ~t.slow =>
                /\ Packet(t, 2) = [i \in 1 .. 7 |-> Place(t, 2, i)] /\ Packet(t, 2) \in [1 .. 7 -> Token]
                /\ Packet(t, 3) = [i \in 1 .. 6 |-> Place(t, 3, i)] /\ Packet(t, 3) \in [1 .. 6 -> Token]
<1>1. 1 \in 1 .. Packets(t) /\ 2 \in 1 .. Packets(t) /\ TokensOf(t, 1) = 4
  BY LayoutIs
<1>2. ~t.slow => 3 \in 1 .. Packets(t) /\ TokensOf(t, 2) = 7 /\ TokensOf(t, 3) = 6
  BY LayoutIs
<1>3. t.slow => TokensOf(t, 2) = 6
  BY LayoutIs
<1>4. /\ Packet(t, 1) = [i \in 1 .. TokensOf(t, 1) |-> Place(t, 1, i)]
      /\ Packet(t, 1) \in [1 .. TokensOf(t, 1) -> Token]
      /\ Packet(t, 2) = [i \in 1 .. TokensOf(t, 2) |-> Place(t, 2, i)]
      /\ Packet(t, 2) \in [1 .. TokensOf(t, 2) -> Token]
  BY <1>1, PacketIs, Zenon
<1>5. ~t.slow => /\ Packet(t, 3) = [i \in 1 .. TokensOf(t, 3) |-> Place(t, 3, i)]
                 /\ Packet(t, 3) \in [1 .. TokensOf(t, 3) -> Token]
  BY <1>2, PacketIs, Zenon
<1> QED
  BY <1>1, <1>2, <1>3, <1>4, <1>5, Zenon

LEMMA Joined ==
    ASSUME NEW S, NEW m \in Nat, NEW n \in Nat, NEW a \in [1 .. m -> S], NEW b \in [1 .. n -> S]
    PROVE  /\ a \o b = [p \in 1 .. m + n |-> IF p <= m THEN a[p] ELSE b[p - m]]
           /\ a \o b \in [1 .. m + n -> S]
<1>1. a \in Seq(S) /\ Len(a) = m /\ b \in Seq(S) /\ Len(b) = n
  OBVIOUS
<1>2. a \o b = [p \in 1 .. m + n |-> IF p <= m THEN a[p] ELSE b[p - m]]
  <2>1. /\ a \o b \in Seq(S) /\ Len(a \o b) = m + n
        /\ \A p \in 1 .. m + n : (a \o b)[p] = IF p <= m THEN a[p] ELSE b[p - m]
    BY <1>1, ConcatProperties
  <2>2. a \o b \in [1 .. m + n -> S]
    BY <2>1, LenProperties
  <2> QED
    BY <2>1, <2>2
<1>3. \A p \in 1 .. m + n : (IF p <= m THEN a[p] ELSE b[p - m]) \in S
  <2> SUFFICES ASSUME NEW p \in 1 .. m + n PROVE (IF p <= m THEN a[p] ELSE b[p - m]) \in S
    OBVIOUS
  <2>1. p <= m => p \in 1 .. m
    OBVIOUS
  <2>2. ~(p <= m) => p - m \in 1 .. n
    OBVIOUS
  <2> QED
    BY <2>1, <2>2
<1> QED
  BY <1>2, <1>3, Zenon

LEMMA AsSequence ==
    ASSUME NEW S, NEW n \in Nat, NEW a \in [1 .. n -> S]
    PROVE  a \in Seq(S)
  OBVIOUS

(* The stream of a turn is its packets, one after the other.               *)
SlowStream(t) == [p \in 1 .. 10 |-> IF p <= 4 THEN Place(t, 1, p) ELSE Place(t, 2, p - 4)]
FastStream(t) ==
    [p \in 1 .. 17 |-> IF p <= 4 THEN Place(t, 1, p)
                       ELSE IF p <= 11 THEN Place(t, 2, p - 4) ELSE Place(t, 3, p - 11)]

LEMMA StreamFunction ==
    ASSUME NEW t \in Turns
    PROVE  Stream[t] = IF t.slow THEN SlowStream(t) ELSE FastStream(t)
<1>1. Stream[t] = Packet(t, 1) \o Packet(t, 2) \o (IF t.slow THEN <<>> ELSE Packet(t, 3))
  BY DEF Stream
<1>2. CASE t.slow
  <2>1. /\ Packet(t, 1) = [i \in 1 .. 4 |-> Place(t, 1, i)] /\ Packet(t, 1) \in [1 .. 4 -> Token]
        /\ Packet(t, 2) = [i \in 1 .. 6 |-> Place(t, 2, i)] /\ Packet(t, 2) \in [1 .. 6 -> Token]
    BY <1>2, PacketFunctions
  <2>2. /\ Packet(t, 1) \o Packet(t, 2)
           = [p \in 1 .. 4 + 6 |-> IF p <= 4 THEN Packet(t, 1)[p] ELSE Packet(t, 2)[p - 4]]
        /\ Packet(t, 1) \o Packet(t, 2) \in [1 .. 4 + 6 -> Token]
    <3>1. 4 \in Nat /\ 6 \in Nat
      OBVIOUS
    <3> QED
      BY <2>1, <3>1, Joined, Zenon
  <2>3. Packet(t, 1) \o Packet(t, 2) = SlowStream(t)
    BY <2>1, <2>2 DEF SlowStream
  <2>4. Stream[t] = Packet(t, 1) \o Packet(t, 2) \o <<>>
    BY <1>1, <1>2
  <2>5. Stream[t] = Packet(t, 1) \o Packet(t, 2)
    <3>1. 4 + 6 \in Nat
      OBVIOUS
    <3>2. Packet(t, 1) \o Packet(t, 2) \in Seq(Token)
      BY <2>2, <3>1, AsSequence, Zenon
    <3> QED
      BY <2>4, <3>2, ConcatEmptySeq, Zenon
  <2> QED
    BY <1>2, <2>3, <2>5
<1>3. CASE ~t.slow
  <2>1. /\ Packet(t, 1) = [i \in 1 .. 4 |-> Place(t, 1, i)] /\ Packet(t, 1) \in [1 .. 4 -> Token]
        /\ Packet(t, 2) = [i \in 1 .. 7 |-> Place(t, 2, i)] /\ Packet(t, 2) \in [1 .. 7 -> Token]
        /\ Packet(t, 3) = [i \in 1 .. 6 |-> Place(t, 3, i)] /\ Packet(t, 3) \in [1 .. 6 -> Token]
    BY <1>3, PacketFunctions
  <2> DEFINE both == Packet(t, 1) \o Packet(t, 2)
  <2>2. /\ both = [p \in 1 .. 4 + 7 |-> IF p <= 4 THEN Packet(t, 1)[p] ELSE Packet(t, 2)[p - 4]]
        /\ both \in [1 .. 4 + 7 -> Token]
    BY <2>1, Joined
  <2>3. both = [p \in 1 .. 11 |-> IF p <= 4 THEN Place(t, 1, p) ELSE Place(t, 2, p - 4)]
    BY <2>1, <2>2
  <2>4. both \in [1 .. 11 -> Token]
    BY <2>2
  <2> HIDE DEF both
  <2>5. both \o Packet(t, 3)
        = [p \in 1 .. 11 + 6 |-> IF p <= 11 THEN both[p] ELSE Packet(t, 3)[p - 11]]
    <3>1. 11 \in Nat /\ 6 \in Nat /\ Packet(t, 3) \in [1 .. 6 -> Token]
      BY <2>1
    <3>2. /\ both \o Packet(t, 3)
             = [p \in 1 .. 11 + 6 |-> IF p <= 11 THEN both[p] ELSE Packet(t, 3)[p - 11]]
          /\ both \o Packet(t, 3) \in [1 .. 11 + 6 -> Token]
      BY <2>4, <3>1, Joined, Zenon
    <3> QED
      BY <3>2
  <2>6. both \o Packet(t, 3) = FastStream(t)
    <3>1. \A p \in 1 .. 17 :
             (IF p <= 11 THEN both[p] ELSE Packet(t, 3)[p - 11])
             = IF p <= 4 THEN Place(t, 1, p)
               ELSE IF p <= 11 THEN Place(t, 2, p - 4) ELSE Place(t, 3, p - 11)
      <4> SUFFICES ASSUME NEW p \in 1 .. 17
                   PROVE  (IF p <= 11 THEN both[p] ELSE Packet(t, 3)[p - 11])
                          = IF p <= 4 THEN Place(t, 1, p)
                            ELSE IF p <= 11 THEN Place(t, 2, p - 4) ELSE Place(t, 3, p - 11)
        OBVIOUS
      <4>1. p <= 11 => both[p] = IF p <= 4 THEN Place(t, 1, p) ELSE Place(t, 2, p - 4)
        BY <2>3
      <4>2. ~(p <= 11) => Packet(t, 3)[p - 11] = Place(t, 3, p - 11)
        BY <2>1
      <4> QED
        BY <4>1, <4>2
    <3>2. both \o Packet(t, 3)
          = [p \in 1 .. 17 |-> IF p <= 11 THEN both[p] ELSE Packet(t, 3)[p - 11]]
      BY <2>5
    <3> QED
      BY <3>1, <3>2 DEF FastStream
  <2> QED
    BY <1>1, <1>3, <2>6 DEF both
<1> QED
  BY <1>2, <1>3, TurnsAreSlowOrNot

LEMMA StreamIs ==
    ASSUME NEW t \in Turns
    PROVE  /\ Stream[t] \in [1 .. TurnLength(t) -> Token]
           /\ \A k \in 1 .. Packets(t) : \A i \in 1 .. TokensOf(t, k) :
                 /\ Starts(t, k) + i \in 1 .. TurnLength(t)
                 /\ Stream[t][Starts(t, k) + i] = Place(t, k, i)
<1>1. \A k \in 1 .. Packets(t) : \A i \in Nat : Place(t, k, i) \in Token
  BY LayoutIs DEF Place, Token
<1>2. CASE t.slow
  <2>1. Stream[t] = SlowStream(t) /\ TurnLength(t) = 10 /\ Packets(t) = 2
    BY <1>2, StreamFunction, LayoutIs
  <2>2. SlowStream(t) \in [1 .. 10 -> Token]
    BY <1>1, <2>1 DEF SlowStream
  <2>3. ASSUME NEW k \in 1 .. 2, NEW i \in 1 .. TokensOf(t, k)
        PROVE  /\ Starts(t, k) + i \in 1 .. 10
               /\ SlowStream(t)[Starts(t, k) + i] = Place(t, k, i)
    <3>1. k = 1 \/ k = 2
      OBVIOUS
    <3>2. CASE k = 1
      BY <1>2, <3>2, LayoutIs DEF SlowStream, Starts
    <3>3. CASE k = 2
      <4>1. i \in 1 .. 6
        BY <1>2, <3>3, LayoutIs
      <4> QED
        BY <3>3, <4>1 DEF SlowStream, Starts
    <3> QED
      BY <3>1, <3>2, <3>3
  <2> QED
    BY <2>1, <2>2, <2>3, Zenon
<1>3. CASE ~t.slow
  <2>1. Stream[t] = FastStream(t) /\ TurnLength(t) = 17 /\ Packets(t) = 3
    BY <1>3, StreamFunction, LayoutIs
  <2>2. FastStream(t) \in [1 .. 17 -> Token]
    BY <1>1, <2>1 DEF FastStream
  <2>3. ASSUME NEW k \in 1 .. 3, NEW i \in 1 .. TokensOf(t, k)
        PROVE  /\ Starts(t, k) + i \in 1 .. 17
               /\ FastStream(t)[Starts(t, k) + i] = Place(t, k, i)
    <3>1. k = 1 \/ k = 2 \/ k = 3
      OBVIOUS
    <3>2. CASE k = 1
      BY <1>3, <3>2, LayoutIs DEF FastStream, Starts
    <3>3. CASE k = 2
      <4>1. i \in 1 .. 7
        BY <1>3, <3>3, LayoutIs
      <4> QED
        BY <3>3, <4>1 DEF FastStream, Starts
    <3>4. CASE k = 3
      <4>1. i \in 1 .. 6
        BY <1>3, <3>4, LayoutIs
      <4> QED
        BY <3>4, <4>1 DEF FastStream, Starts
    <3> QED
      BY <3>1, <3>2, <3>3, <3>4
  <2> QED
    BY <2>1, <2>2, <2>3, Zenon
<1> QED
  BY <1>2, <1>3, TurnsAreSlowOrNot

(* Every token of a turn has its place in a packet.                        *)
LEMMA EveryTokenHasAPlace ==
    ASSUME NEW t \in Turns, NEW p \in 0 .. TurnLength(t) - 1
    PROVE  \E k \in 1 .. Packets(t) : \E j \in 0 .. TokensOf(t, k) - 1 :
              p = Starts(t, k) + j
<1>1. CASE p < 4
  <2>1. 1 \in 1 .. Packets(t) /\ p \in 0 .. TokensOf(t, 1) - 1 /\ p = Starts(t, 1) + p
    BY <1>1, LayoutIs DEF Starts
  <2> QED
    BY <2>1
<1>2. CASE p >= 4 /\ p < 11
  <2>1. 2 \in 1 .. Packets(t) /\ p - 4 \in 0 .. TokensOf(t, 2) - 1 /\ p = Starts(t, 2) + (p - 4)
    BY <1>2, LayoutIs, TurnsAreSlowOrNot DEF Starts
  <2> QED
    BY <2>1
<1>3. CASE p >= 11
  <2>1. 3 \in 1 .. Packets(t) /\ p - 11 \in 0 .. TokensOf(t, 3) - 1 /\ p = Starts(t, 3) + (p - 11)
    BY <1>3, LayoutIs, TurnsAreSlowOrNot DEF Starts
  <2> QED
    BY <2>1
<1> QED
  BY <1>1, <1>2, <1>3, LayoutIs, TurnsAreSlowOrNot

--------------------------------------------------------------------------------
(* The points of a turn: what PacketPoints interpolates is where each      *)
(* sample was taken.                                                       *)

PointOf(t, s) ==
    [of |-> t, sample |-> s, angle |-> BearingOf(t, s), distance |-> MeasuredAt(t, s)]
UpTo(t, n) == [s \in 1 .. n |-> PointOf(t, s)]
AllPoints(t) == UpTo(t, Samples(t))

LEMMA Bearings ==
    ASSUME NEW t \in Turns
    PROVE  /\ t.slow => /\ BearingOf(t, 1) = 9 /\ BearingOf(t, 2) = 13
                        /\ BearingOf(t, 3) = 1 /\ BearingOf(t, 4) = 5
           /\ ~t.slow => /\ BearingOf(t, 1) = 12 /\ BearingOf(t, 2) = 14
                         /\ BearingOf(t, 3) = 0 /\ BearingOf(t, 4) = 2
                         /\ BearingOf(t, 5) = 4 /\ BearingOf(t, 6) = 6
                         /\ BearingOf(t, 7) = 8 /\ BearingOf(t, 8) = 10
  BY DEF BearingOf, Circle

LEMMA Interpolated ==
    ASSUME NEW t \in Turns, NEW k \in 1 .. Packets(t), NEW i \in 1 .. Layout(t)[k]
    PROVE  LET lsn == Layout(t)[k]
               fsa == BearingOf(t, First(t, k))
               lsa == BearingOf(t, First(t, k) + lsn - 1)
               end == IF lsa < fsa THEN lsa + Circle ELSE lsa
               step == IF lsn > 1 THEN (end - fsa) \div (lsn - 1) ELSE 0
           IN (fsa + (i - 1) * step) % Circle = BearingOf(t, First(t, k) + i - 1)
<1> DEFINE lsn == Layout(t)[k]
           fsa == BearingOf(t, First(t, k))
           lsa == BearingOf(t, First(t, k) + lsn - 1)
           end == IF lsa < fsa THEN lsa + Circle ELSE lsa
           step == IF lsn > 1 THEN (end - fsa) \div (lsn - 1) ELSE 0
<1> SUFFICES (fsa + (i - 1) * step) % Circle = BearingOf(t, First(t, k) + i - 1)
  OBVIOUS
<1>1. CASE k = 1
  <2>1. lsn = 1 /\ i = 1 /\ First(t, k) = 1
    BY <1>1, LayoutIs DEF First
  <2>2. step = 0 /\ fsa = BearingOf(t, 1) /\ fsa \in 0 .. 15
    BY <2>1, Bearings, TurnsAreSlowOrNot
  <2> HIDE DEF step, fsa
  <2> QED
    BY <2>1, <2>2 DEF Circle
<1>2. CASE t.slow /\ k = 2
  <2>1. lsn = 3 /\ First(t, k) = 2 /\ i \in 1 .. 3
    BY <1>2, LayoutIs DEF First
  <2>2. fsa = 13 /\ lsa = 5
    BY <1>2, <2>1, Bearings
  <2>3. step = 4
    BY <2>1, <2>2 DEF Circle
  <2>4. i = 1 \/ i = 2 \/ i = 3
    BY <2>1
  <2> HIDE DEF step, fsa
  <2> QED
    BY <1>2, <2>1, <2>2, <2>3, <2>4, Bearings DEF Circle
<1>3. CASE ~t.slow /\ k = 2
  <2>1. lsn = 4 /\ First(t, k) = 2 /\ i \in 1 .. 4
    BY <1>3, LayoutIs DEF First
  <2>2. fsa = 14 /\ lsa = 4
    BY <1>3, <2>1, Bearings
  <2>3. step = 2
    BY <2>1, <2>2 DEF Circle
  <2>4. i = 1 \/ i = 2 \/ i = 3 \/ i = 4
    BY <2>1
  <2> HIDE DEF step, fsa
  <2> QED
    BY <1>3, <2>1, <2>2, <2>3, <2>4, Bearings DEF Circle
<1>4. CASE ~t.slow /\ k = 3
  <2>1. lsn = 3 /\ First(t, k) = 6 /\ i \in 1 .. 3
    BY <1>4, LayoutIs DEF First
  <2>2. fsa = 6 /\ lsa = 10
    BY <1>4, <2>1, Bearings
  <2>3. step = 2
    BY <2>1, <2>2 DEF Circle
  <2>4. i = 1 \/ i = 2 \/ i = 3
    BY <2>1
  <2> HIDE DEF step, fsa
  <2> QED
    BY <1>4, <2>1, <2>2, <2>3, <2>4, Bearings DEF Circle
<1>5. k = 1 \/ k = 2 \/ (~t.slow /\ k = 3)
  BY LayoutIs, TurnsAreSlowOrNot
<1> QED
  BY <1>1, <1>2, <1>3, <1>4, <1>5, TurnsAreSlowOrNot, Zenon

LEMMA PacketPointsAre ==
    ASSUME NEW t \in Turns, NEW k \in 1 .. Packets(t)
    PROVE  PacketPoints(t, k) = [i \in 1 .. Layout(t)[k] |-> PointOf(t, First(t, k) + i - 1)]
<1> DEFINE lsn == Layout(t)[k]
           fsa == BearingOf(t, First(t, k))
           lsa == BearingOf(t, First(t, k) + lsn - 1)
           end == IF lsa < fsa THEN lsa + Circle ELSE lsa
           step == IF lsn > 1 THEN (end - fsa) \div (lsn - 1) ELSE 0
           angle(i) == (fsa + (i - 1) * step) % Circle
<1>1. PacketPoints(t, k) =
        [i \in 1 .. lsn |->
            [of |-> t, sample |-> First(t, k) + i - 1, angle |-> angle(i),
             distance |-> MeasuredAt(t, First(t, k) + i - 1)]]
  BY Zenon DEF PacketPoints
<1>2. \A i \in 1 .. lsn : angle(i) = BearingOf(t, First(t, k) + i - 1)
  BY Interpolated, Zenon
<1> HIDE DEF angle
<1> QED
  BY <1>1, <1>2 DEF PointOf

Point == {PointOf(t, s) : t \in Turns, s \in 1 .. 8}

LEMMA UpToIs ==
    ASSUME NEW t \in Turns, NEW n \in 0 .. 8
    PROVE  UpTo(t, n) \in [1 .. n -> Point] /\ UpTo(t, n) \in Seq(Point) /\ Len(UpTo(t, n)) = n
<1>1. UpTo(t, n) \in [1 .. n -> Point]
  BY DEF UpTo, Point
<1> QED
  BY <1>1 DEF UpTo

LEMMA SamplesAre ==
    ASSUME NEW t \in Turns
    PROVE  /\ Samples(t) \in {4, 8} /\ First(t, 1) = 1 /\ Layout(t)[1] = 1 /\ First(t, 2) = 2
           /\ \A k \in 1 .. Packets(t) :
                 /\ First(t, k) + Layout(t)[k] =
                       IF k = Packets(t) THEN Samples(t) + 1 ELSE First(t, k + 1)
                 /\ First(t, k) + Layout(t)[k] \in 2 .. 9
                 /\ First(t, k) \in 1 .. 6 /\ Layout(t)[k] \in 1 .. 4
  BY LayoutIs, TurnsAreSlowOrNot DEF First

LEMMA FirstPoints ==
    ASSUME NEW t \in Turns
    PROVE  PacketPoints(t, 1) = UpTo(t, 1)
<1>1. 1 \in 1 .. Packets(t) /\ Layout(t)[1] = 1 /\ First(t, 1) = 1
  BY LayoutIs, SamplesAre
<1>2. PacketPoints(t, 1) = [i \in 1 .. 1 |-> PointOf(t, 1 + i - 1)]
  BY <1>1, PacketPointsAre
<1> QED
  BY <1>2 DEF UpTo

LEMMA PointsJoin ==
    ASSUME NEW t \in Turns, NEW m \in 0 .. 8, NEW n \in 0 .. 8, m + n <= 8
    PROVE  UpTo(t, m) \o [i \in 1 .. n |-> PointOf(t, m + 1 + i - 1)] = UpTo(t, m + n)
<1> DEFINE a == UpTo(t, m)
           b == [i \in 1 .. n |-> PointOf(t, m + 1 + i - 1)]
<1>1. m \in Nat /\ n \in Nat /\ a \in [1 .. m -> Point]
  <2>1. a \in [1 .. m -> Point]
    BY UpToIs, Zenon
  <2> QED
    BY <2>1
<1>2. b \in [1 .. n -> Point]
  BY DEF Point
<1>3. \A p \in 1 .. m + n : (IF p <= m THEN a[p] ELSE b[p - m]) = PointOf(t, p)
  BY DEF UpTo
<1> HIDE DEF a, b
<1>4. /\ a \o b = [p \in 1 .. m + n |-> IF p <= m THEN a[p] ELSE b[p - m]]
      /\ a \o b \in [1 .. m + n -> Point]
  BY <1>1, <1>2, Joined, Zenon
<1>5. a \o b = UpTo(t, m + n)
  BY <1>3, <1>4 DEF UpTo
<1> QED
  BY <1>5 DEF a, b

LEMMA MorePoints ==
    ASSUME NEW t \in Turns, NEW k \in 2 .. Packets(t)
    PROVE  UpTo(t, First(t, k) - 1) \o PacketPoints(t, k)
           = UpTo(t, First(t, k) + Layout(t)[k] - 1)
<1> DEFINE m == First(t, k) - 1
           n == Layout(t)[k]
<1>1. /\ k \in 1 .. Packets(t) /\ m \in 0 .. 8 /\ n \in 0 .. 8 /\ m + n <= 8
      /\ First(t, k) = m + 1 /\ First(t, k) + Layout(t)[k] - 1 = m + n
  BY SamplesAre, LayoutIs
<1>2. PacketPoints(t, k) = [i \in 1 .. n |-> PointOf(t, m + 1 + i - 1)]
  <2>1. PacketPoints(t, k) = [i \in 1 .. n |-> PointOf(t, First(t, k) + i - 1)]
    BY <1>1, PacketPointsAre
  <2> QED
    BY <1>1, <2>1
<1> HIDE DEF m, n
<1>3. UpTo(t, m) \o [i \in 1 .. n |-> PointOf(t, m + 1 + i - 1)] = UpTo(t, m + n)
  BY <1>1, PointsJoin
<1>4. UpTo(t, m) \o PacketPoints(t, k) = UpTo(t, m + n)
  BY <1>2, <1>3
<1> QED
  BY <1>1, <1>4 DEF m, n

--------------------------------------------------------------------------------
(* The decoder.                                                            *)

DecoderType ==
    [framed : BOOLEAN, carry : Seq(Token), seenHeader0 : BOOLEAN, points : Seq(Point),
     synchronized : BOOLEAN, revolution : Seq(Point)]
Finished(synchronized, points, revolution) ==
    [framed |-> FALSE, carry |-> <<>>, seenHeader0 |-> FALSE, points |-> points,
     synchronized |-> synchronized, revolution |-> revolution]

(* What the decoder has carried of a packet when it has had its token j.   *)
Part(t, k, j) == [i \in 1 .. j - 2 |-> Place(t, k, i + 2)]

LEMMA BodyIs ==
    ASSUME NEW t \in Turns, NEW k \in 1 .. Packets(t)
    PROVE  /\ SubSeq(Packet(t, k), 3, Len(Packet(t, k))) = Part(t, k, TokensOf(t, k))
           /\ Part(t, k, TokensOf(t, k))[1] = Place(t, k, 3)
           /\ Len(Part(t, k, TokensOf(t, k))) = TokensOf(t, k) - 2
<1>1. TokensOf(t, k) \in 4 .. 7
  BY LayoutIs
<1>2. Packet(t, k) = [i \in 1 .. TokensOf(t, k) |-> Place(t, k, i)]
  BY PacketIs
<1>3. Len(Packet(t, k)) = TokensOf(t, k)
  BY <1>1, <1>2
<1>4. SubSeq(Packet(t, k), 3, TokensOf(t, k)) = Part(t, k, TokensOf(t, k))
  BY <1>1, <1>2 DEF Part
<1> QED
  BY <1>1, <1>3, <1>4 DEF Part

LEMMA IntactIs ==
    ASSUME NEW carry \in Seq(Token), carry # <<>>
    PROVE  Intact(carry) <=>
              \E t \in Turns : \E k \in 1 .. Packets(t) : carry = Part(t, k, TokensOf(t, k))
<1>1. carry[1] \in Token
  OBVIOUS
<1>2. ASSUME Intact(carry)
      PROVE  \E t \in Turns : \E k \in 1 .. Packets(t) : carry = Part(t, k, TokensOf(t, k))
  <2> DEFINE t == carry[1].of
             k == carry[1].packet
  <2>1. t \in Turns /\ k \in 0 .. 3 /\ k <= Packets(t)
    BY <1>1 DEF Token
  <2>2. k > 0 /\ carry = SubSeq(Packet(t, k), 3, Len(Packet(t, k)))
    BY <1>2 DEF Intact
  <2> HIDE DEF t, k
  <2>3. k \in 1 .. Packets(t)
    BY <2>1, <2>2, LayoutIs
  <2>4. carry = Part(t, k, TokensOf(t, k))
    BY <2>1, <2>2, <2>3, BodyIs
  <2> QED
    BY <2>1, <2>3, <2>4
<1>3. ASSUME NEW t \in Turns, NEW k \in 1 .. Packets(t), carry = Part(t, k, TokensOf(t, k))
      PROVE  Intact(carry)
  <2>1. carry[1] = Place(t, k, 3) /\ carry = SubSeq(Packet(t, k), 3, Len(Packet(t, k)))
    BY <1>3, BodyIs
  <2>2. carry[1].of = t /\ carry[1].packet = k /\ k > 0
    BY <2>1, LayoutIs DEF Place
  <2> QED
    BY <2>1, <2>2 DEF Intact
<1> QED
  BY <1>2, <1>3

(* A packet with a changed token in it is recognised.                      *)
LEMMA BrokenIsNotIntact ==
    ASSUME NEW carry \in Seq(Token), NEW i \in DOMAIN carry, carry[i].packet = 0
    PROVE  ~Intact(carry)
<1> SUFFICES ASSUME NEW t \in Turns, NEW k \in 1 .. Packets(t),
                    carry = Part(t, k, TokensOf(t, k))
             PROVE  FALSE
  BY IntactIs
<1>1. carry[i].packet = k
  BY LayoutIs DEF Part, Place
<1> QED
  BY <1>1, LayoutIs

LEMMA SmallerOfTwo ==
    ASSUME NEW a \in Nat, NEW b \in Nat, b <= a
    PROVE  Min({a, b}) = b
  BY DEF Min

LEMMA NotTruncated ==
    ASSUME MaxPoints >= 8, NEW points \in Seq(Point), Len(points) <= 8
    PROVE  SubSeq(points, 1, Min({MaxPoints, Len(points)})) = points
<1>1. MaxPoints \in Nat /\ Len(points) \in Nat
  BY ScanAssumption
<1>2. Min({MaxPoints, Len(points)}) = Len(points)
  BY <1>1, SmallerOfTwo
<1> QED
  BY <1>1, <1>2

(* What feed_byte makes of a token: it appends, or finishes the packet.    *)
Announcing(carry) == Len(carry) >= 1 + Announced(carry[1])
ChangesRevolution(d) ==
    IF d.synchronized /\ d.points # <<>> THEN d.points ELSE d.revolution

LEMMA AppendedCarry ==
    ASSUME NEW carry \in Seq(Token), NEW token \in Token
    PROVE  /\ Append(carry, token) \in Seq(Token) /\ Append(carry, token) # <<>>
           /\ Append(carry, token)[1] \in Token
           /\ Len(Append(carry, token)) = Len(carry) + 1
           /\ Append(carry, token)[Len(carry) + 1] = token
           /\ \A i \in 1 .. Len(carry) : Append(carry, token)[i] = carry[i]
  OBVIOUS

LEMMA AnnouncedIsNumber ==
    ASSUME NEW token \in Token
    PROVE  Announced(token) \in Nat
<1>1. token.of \in Turns /\ token.packet \in 0 .. 3 /\ token.packet <= Packets(token.of)
      /\ token.item \in Nat
  BY DEF Token
<1>2. token.packet > 0 => Layout(token.of)[token.packet] \in Nat
  BY <1>1, LayoutIs
<1> QED
  BY <1>1, <1>2 DEF Announced

LEMMA FeedAppends ==
    ASSUME NEW d \in DecoderType, NEW token \in Token, d.framed,
           ~Announcing(Append(d.carry, token))
    PROVE  Feed(d, token) = [d EXCEPT !.carry = Append(d.carry, token)]
<1> DEFINE taken == [d EXCEPT !.carry = Append(@, token)]
<1>1. taken.carry = Append(d.carry, token)
  BY DEF DecoderType
<1>2. taken.carry[1] \in Token /\ Len(taken.carry) \in Nat
  BY <1>1, AppendedCarry DEF DecoderType
<1>3. Len(taken.carry) < 1 + Announced(taken.carry[1])
  BY <1>1, <1>2, AnnouncedIsNumber DEF Announcing
<1>4. Feed(d, token) = taken
  BY <1>3, Zenon DEF Feed
<1> QED
  BY <1>4

LEMMA FeedFinishes ==
    ASSUME NEW d \in DecoderType, NEW token \in Token, d.framed,
           Announcing(Append(d.carry, token))
    PROVE  Feed(d, token) = [Finish([d EXCEPT !.carry = Append(d.carry, token)])
                             EXCEPT !.framed = FALSE, !.carry = <<>>, !.seenHeader0 = FALSE]
<1> DEFINE taken == [d EXCEPT !.carry = Append(@, token)]
<1>1. taken.carry = Append(d.carry, token)
  BY DEF DecoderType
<1>2. taken.carry[1] \in Token /\ Len(taken.carry) \in Nat
  BY <1>1, AppendedCarry DEF DecoderType
<1>3. ~(Len(taken.carry) < 1 + Announced(taken.carry[1]))
  BY <1>1, <1>2, AnnouncedIsNumber DEF Announcing
<1>4. Feed(d, token) = [Finish(taken) EXCEPT !.framed = FALSE, !.carry = <<>>,
                                             !.seenHeader0 = FALSE]
  BY <1>3, Zenon DEF Feed
<1> QED
  BY <1>4

LEMMA FinishBroken ==
    ASSUME NEW d \in DecoderType, NEW token \in Token, d.framed,
           Announcing(Append(d.carry, token)), ~Intact(Append(d.carry, token))
    PROVE  Feed(d, token) = Finished(FALSE, <<>>, d.revolution)
<1> DEFINE taken == [d EXCEPT !.carry = Append(d.carry, token)]
<1>1. taken.carry = Append(d.carry, token)
  BY DEF DecoderType
<1>2. Finish(taken) = Discard(taken)
  BY <1>1 DEF Finish
<1>3. Feed(d, token) = [Discard(taken) EXCEPT !.framed = FALSE, !.carry = <<>>,
                                              !.seenHeader0 = FALSE]
  BY <1>2, FeedFinishes
<1> QED
  BY <1>3 DEF Discard, DecoderType, Finished

LEMMA FinishIntact ==
    ASSUME NEW d \in DecoderType, NEW token \in Token, d.framed,
           Announcing(Append(d.carry, token)),
           NEW t \in Turns, NEW k \in 1 .. Packets(t),
           Append(d.carry, token) = Part(t, k, TokensOf(t, k))
    PROVE  LET synchronized == k = 1 \/ d.synchronized
               points == (IF k = 1 THEN <<>> ELSE d.points) \o PacketPoints(t, k)
           IN Feed(d, token) =
                Finished(synchronized,
                         IF synchronized THEN SubSeq(points, 1, Min({MaxPoints, Len(points)}))
                                         ELSE d.points,
                         IF k = 1 THEN ChangesRevolution(d) ELSE d.revolution)
<1> DEFINE carry == Append(d.carry, token)
           taken == [d EXCEPT !.carry = carry]
           synchronized == k = 1 \/ d.synchronized
           points == (IF k = 1 THEN <<>> ELSE d.points) \o PacketPoints(t, k)
           kept == IF synchronized THEN SubSeq(points, 1, Min({MaxPoints, Len(points)}))
                                   ELSE d.points
<1>1. /\ taken.carry = carry /\ taken.points = d.points
      /\ taken.synchronized = d.synchronized /\ taken.revolution = d.revolution
  BY DEF DecoderType
<1>2. carry \in Seq(Token) /\ carry # <<>>
  BY AppendedCarry DEF DecoderType
<1>3. Intact(carry)
  BY <1>2, IntactIs
<1>4. carry[1].of = t /\ carry[1].packet = k
  <2>1. carry[1] = Place(t, k, 3)
    BY BodyIs
  <2> QED
    BY <2>1 DEF Place
<1> HIDE DEF carry
<1>5. Finish(taken) =
        [taken EXCEPT !.synchronized = synchronized, !.points = kept,
                      !.revolution = IF k = 1 THEN ChangesRevolution(d) ELSE d.revolution]
  <2> DEFINE f == [taken EXCEPT
                     !.synchronized = synchronized,
                     !.points = IF synchronized
                                  THEN SubSeq(points, 1, Min({MaxPoints, Len(points)}))
                                  ELSE @,
                     !.revolution = IF k = 1 /\ taken.synchronized /\ taken.points # <<>>
                                      THEN taken.points ELSE @]
  <2> DEFINE whose == taken.carry[1].of
             which == taken.carry[1].packet
             all == (IF which = 1 THEN <<>> ELSE taken.points) \o PacketPoints(whose, which)
             g == [taken EXCEPT
                     !.synchronized = which = 1 \/ taken.synchronized,
                     !.points = IF which = 1 \/ taken.synchronized
                                  THEN SubSeq(all, 1, Min({MaxPoints, Len(all)}))
                                  ELSE @,
                     !.revolution = IF which = 1 /\ taken.synchronized /\ taken.points # <<>>
                                      THEN taken.points ELSE @]
  <2>0. Intact(taken.carry)
    BY <1>1, <1>3
  <2>2. Finish(taken) = g
    BY <2>0, Zenon DEF Finish
  <2>3. whose = t /\ which = k
    BY <1>1, <1>4
  <2>4. all = points
    BY <1>1, <2>3
  <2> HIDE DEF taken, whose, which, all, points
  <2>1. Finish(taken) = f
    BY <1>1, <2>2, <2>3, <2>4
  <2> USE DEF taken
  <2> HIDE DEF points
  <2> QED
    BY <1>1, <2>1 DEF ChangesRevolution, DecoderType
<1> HIDE DEF kept, synchronized
<1>6. Feed(d, token) = [Finish(taken) EXCEPT !.framed = FALSE, !.carry = <<>>,
                                             !.seenHeader0 = FALSE]
  BY FeedFinishes DEF carry
<1>7. Feed(d, token) =
        Finished(synchronized, kept, IF k = 1 THEN ChangesRevolution(d) ELSE d.revolution)
  BY <1>5, <1>6 DEF DecoderType, Finished
<1> QED
  BY <1>7 DEF kept, synchronized

--------------------------------------------------------------------------------
(* Where the decoder is in the stream.  Unless it has lost its place, or   *)
(* carries a packet that will not check, it has exactly the points of the  *)
(* packets sent before this one and exactly the tokens of this one.        *)

Unsynced(d) == ~d.synchronized /\ d.points = <<>>
Doomed(d) == d.framed /\ \E i \in DOMAIN d.carry : d.carry[i].packet = 0
Before(d, t, k) ==
    IF k = 1 THEN \E u \in Turns : d.points = AllPoints(u)
             ELSE d.points = UpTo(t, First(t, k) - 1)
Clean(d, t, k, j) ==
    /\ j = 0 => ~d.framed /\ d.carry = <<>> /\ ~d.seenHeader0
    /\ j = 1 => ~d.framed /\ d.carry = <<>> /\ d.seenHeader0
    /\ j >= 2 => d.framed /\ d.carry = Part(t, k, j)
Revolved(d) == d.revolution = <<>> \/ \E u \in Turns : d.revolution = AllPoints(u)
Follows(d, t, k, j) ==
    /\ d \in DecoderType /\ Revolved(d)
    /\ \/ Unsynced(d)
       \/ Doomed(d)
       \/ d.synchronized /\ Before(d, t, k) /\ Clean(d, t, k, j)
\* the place after token i of a packet
FollowsAfter(d, t, k, i) ==
    IF i < TokensOf(t, k) THEN Follows(d, t, k, i)
    ELSE IF k < Packets(t) THEN Follows(d, t, k + 1, 0)
    ELSE \A u \in Turns : Follows(d, u, 1, 0)

\* what arrives of a token when only bodies of packets are changed
Arrives(token) ==
    {token} \cup (IF token.item < 3 THEN {} ELSE {Changed(token, lsn) : lsn \in {0, 4}})

LEMMA LostIsLostAnywhere ==
    ASSUME NEW d \in DecoderType, Revolved(d), Unsynced(d) \/ Doomed(d),
           NEW t \in Turns, NEW k \in 1 .. Packets(t), NEW i
    PROVE  FollowsAfter(d, t, k, i) /\ Follows(d, t, k, i)
  BY DEF FollowsAfter, Follows

LEMMA ArrivesIs ==
    ASSUME NEW t \in Turns, NEW k \in 1 .. Packets(t), NEW i \in 1 .. TokensOf(t, k),
           NEW token \in Arrives(Place(t, k, i))
    PROVE  /\ token \in Token
           /\ token = Place(t, k, i) \/ token.packet = 0
           /\ i < 3 => token = Place(t, k, i)
<1>1. Place(t, k, i) \in Token /\ Place(t, k, i).item = i
  BY LayoutIs DEF Place, Token
<1>2. CASE token = Place(t, k, i)
  BY <1>1, <1>2
<1>3. CASE i >= 3 /\ \E lsn \in {0, 4} : token = Changed(Place(t, k, i), lsn)
  <2>1. PICK lsn \in {0, 4} : token = Changed(Place(t, k, i), lsn)
    BY <1>3
  <2>2. token = [of |-> t, packet |-> 0, item |-> lsn]
    BY <2>1 DEF Changed, Place
  <2>3. Packets(t) >= 0
    BY LayoutIs
  <2> QED
    BY <1>3, <2>2, <2>3 DEF Token
<1> QED
  BY <1>1, <1>2, <1>3 DEF Arrives

LEMMA LooksOfHeader ==
    ASSUME NEW t \in Turns, NEW k \in 1 .. Packets(t)
    PROVE  LooksLike(Place(t, k, 1)) = "H0" /\ LooksLike(Place(t, k, 2)) = "H1"
  BY LayoutIs DEF LooksLike, Place

(* In search of a header.                                                  *)
LEMMA SearchFollows ==
    ASSUME NEW t \in Turns, NEW k \in 1 .. Packets(t), NEW j \in 0 .. TokensOf(t, k) - 1,
           NEW d, Follows(d, t, k, j), ~d.framed, NEW token \in Arrives(Place(t, k, j + 1))
    PROVE  FollowsAfter(Feed(d, token), t, k, j + 1)
<1> DEFINE e == Search(d, token)
<1>1. Feed(d, token) = e
  BY DEF Feed
<1>2. d \in DecoderType /\ Revolved(d)
  BY DEF Follows
<1>3. /\ e \in DecoderType /\ e.points = d.points /\ e.synchronized = d.synchronized
      /\ e.revolution = d.revolution /\ e.carry = d.carry
      /\ LooksLike(token) = "H0" => e.framed = d.framed /\ e.seenHeader0
      /\ LooksLike(token) = "H1" => e.framed = (d.framed \/ d.seenHeader0)
  BY <1>2 DEF Search, DecoderType
<1> HIDE DEF e
<1>4. Revolved(e)
  BY <1>2, <1>3 DEF Revolved
<1>5. CASE Unsynced(d)
  <2>1. Unsynced(e)
    BY <1>3, <1>5 DEF Unsynced
  <2> QED
    BY <1>1, <1>3, <1>4, <2>1, LostIsLostAnywhere, Zenon
<1>6. CASE d.synchronized /\ Before(d, t, k) /\ Clean(d, t, k, j)
  <2>0. TokensOf(t, k) \in 4 .. 7
    BY LayoutIs
  <2>1. j \in {0, 1} /\ j + 1 < TokensOf(t, k)
    BY <1>6, <2>0 DEF Clean
  <2>2. token = Place(t, k, j + 1)
    <3>1. j + 1 \in 1 .. TokensOf(t, k) /\ j + 1 < 3
      BY <2>0, <2>1
    <3> QED
      BY <3>1, ArrivesIs
  <2>3. Before(e, t, k)
    BY <1>3, <1>6 DEF Before
  <2>4. Part(t, k, 2) = <<>>
    BY DEF Part
  <2>5. Clean(e, t, k, j + 1)
    <3>1. CASE j = 0
      BY <1>3, <1>6, <2>2, <3>1, LooksOfHeader DEF Clean
    <3>2. CASE j = 1
      <4>1. token = Place(t, k, 2)
        BY <2>2, <3>2
      <4>2. LooksLike(token) = "H1" /\ d.seenHeader0 /\ ~d.framed /\ d.carry = <<>>
        BY <1>6, <3>2, <4>1, LooksOfHeader DEF Clean
      <4>3. e.framed /\ e.carry = Part(t, k, 2)
        BY <1>3, <2>4, <4>2
      <4> QED
        BY <3>2, <4>3 DEF Clean
    <3> QED
      BY <2>1, <3>1, <3>2
  <2>6. Follows(e, t, k, j + 1)
    BY <1>3, <1>4, <1>6, <2>3, <2>5 DEF Follows
  <2> QED
    BY <1>1, <2>1, <2>6 DEF FollowsAfter
<1> QED
  BY <1>5, <1>6 DEF Follows, Doomed

(* A clean part of a packet, and one token more.                           *)
LEMMA PartGrows ==
    ASSUME NEW t \in Turns, NEW k \in 1 .. Packets(t), NEW j \in 2 .. TokensOf(t, k) - 1
    PROVE  /\ Append(Part(t, k, j), Place(t, k, j + 1)) = Part(t, k, j + 1)
           /\ Announcing(Part(t, k, j + 1)) <=> j + 1 = TokensOf(t, k)
<1>1. TokensOf(t, k) \in 4 .. 7 /\ TokensOf(t, k) = Layout(t)[k] + 3 /\ k > 0
      /\ Layout(t)[k] \in 1 .. 4
  BY LayoutIs
<1>2. Append(Part(t, k, j), Place(t, k, j + 1)) = Part(t, k, j + 1)
  <2>1. /\ Part(t, k, j) = [i \in 1 .. j - 2 |-> Place(t, k, i + 2)] /\ j - 2 \in Nat
    BY DEF Part
  <2> QED
    BY <1>1, <2>1 DEF Part
<1>3. Part(t, k, j + 1)[1] = Place(t, k, 3) /\ Len(Part(t, k, j + 1)) = j - 1
  BY <1>1 DEF Part
<1>4. Announced(Place(t, k, 3)) = Layout(t)[k]
  BY <1>1 DEF Announced, Place
<1> QED
  BY <1>1, <1>2, <1>3, <1>4 DEF Announcing

(* A token more of a packet that is not complete with it.                  *)
LEMMA GrowFollows ==
    ASSUME NEW t \in Turns, NEW k \in 1 .. Packets(t), NEW j \in 0 .. TokensOf(t, k) - 1,
           NEW d, Follows(d, t, k, j), d.framed, NEW token \in Arrives(Place(t, k, j + 1)),
           ~Announcing(Append(d.carry, token))
    PROVE  FollowsAfter(Feed(d, token), t, k, j + 1)
<1> DEFINE carry == Append(d.carry, token)
           e == [d EXCEPT !.carry = carry]
<1>0. TokensOf(t, k) \in 4 .. 7 /\ j + 1 \in 1 .. TokensOf(t, k)
  BY LayoutIs
<1>1. d \in DecoderType /\ Revolved(d)
  BY DEF Follows
<1>2. token \in Token /\ (token = Place(t, k, j + 1) \/ token.packet = 0)
  BY <1>0, ArrivesIs
<1>3. Feed(d, token) = e
  BY <1>1, <1>2, FeedAppends
<1>4. /\ carry \in Seq(Token) /\ Len(carry) = Len(d.carry) + 1
      /\ carry[Len(d.carry) + 1] = token
      /\ \A i \in 1 .. Len(d.carry) : carry[i] = d.carry[i]
  BY <1>1, <1>2, AppendedCarry DEF DecoderType
<1>5. /\ e \in DecoderType /\ e.carry = carry /\ e.framed /\ e.points = d.points
      /\ e.synchronized = d.synchronized /\ e.revolution = d.revolution
  BY <1>1, <1>4 DEF DecoderType
<1>6. Revolved(e)
  BY <1>1, <1>5 DEF Revolved
<1>7. d.carry \in Seq(Token)
  BY <1>1 DEF DecoderType
<1> HIDE DEF e
<1>8. CASE Unsynced(d)
  <2>1. Unsynced(e)
    BY <1>5, <1>8 DEF Unsynced
  <2> QED
    BY <1>3, <1>5, <1>6, <2>1, LostIsLostAnywhere, Zenon
<1>9. CASE Doomed(d)
  <2>1. PICK i \in DOMAIN d.carry : d.carry[i].packet = 0
    BY <1>9 DEF Doomed
  <2>2. i \in DOMAIN carry /\ carry[i].packet = 0
    BY <1>4, <1>7, <2>1
  <2>3. Doomed(e)
    BY <1>5, <2>2 DEF Doomed
  <2> QED
    BY <1>3, <1>5, <1>6, <2>3, LostIsLostAnywhere, Zenon
<1>10. CASE token.packet = 0
  <2>1. Len(d.carry) + 1 \in DOMAIN carry
    BY <1>4, <1>7
  <2>2. Doomed(e)
    BY <1>4, <1>5, <1>10, <2>1 DEF Doomed
  <2> QED
    BY <1>3, <1>5, <1>6, <2>2, LostIsLostAnywhere, Zenon
<1>11. CASE d.synchronized /\ Before(d, t, k) /\ Clean(d, t, k, j) /\ token = Place(t, k, j + 1)
  <2>1. j \in 2 .. TokensOf(t, k) - 1 /\ d.carry = Part(t, k, j)
    BY <1>0, <1>11 DEF Clean
  <2>2. carry = Part(t, k, j + 1) /\ j + 1 # TokensOf(t, k)
    BY <1>11, <2>1, PartGrows
  <2>3. Before(e, t, k)
    BY <1>5, <1>11 DEF Before
  <2>4. Clean(e, t, k, j + 1)
    BY <1>5, <2>1, <2>2 DEF Clean
  <2>5. Follows(e, t, k, j + 1)
    BY <1>5, <1>6, <1>11, <2>3, <2>4 DEF Follows
  <2>6. j + 1 < TokensOf(t, k)
    BY <1>0, <2>2
  <2> QED
    BY <1>3, <2>5, <2>6 DEF FollowsAfter
<1> QED
  BY <1>2, <1>8, <1>9, <1>10, <1>11 DEF Follows

LEMMA FinishedInStep ==
    ASSUME NEW points \in Seq(Point), NEW revolution \in Seq(Point),
           NEW e, e = Finished(TRUE, points, revolution)
    PROVE  /\ e \in DecoderType /\ e.synchronized
           /\ e.points = points /\ e.revolution = revolution
           /\ \A t \in Turns : \A k \in 1 .. 3 : Clean(e, t, k, 0)
  BY DEF Finished, DecoderType, Clean

LEMMA FinishedLost ==
    ASSUME NEW points \in Seq(Point), NEW revolution \in Seq(Point),
           NEW e, e = Finished(FALSE, points, revolution)
    PROVE  /\ e \in DecoderType /\ ~e.synchronized
           /\ e.points = points /\ e.revolution = revolution
           /\ \A t \in Turns : \A k \in 1 .. 3 : Clean(e, t, k, 0)
  BY DEF Finished, DecoderType, Clean

(* The packet whose last token arrives is the one being sent.              *)
LEMMA FinishedPacket ==
    ASSUME NEW t \in Turns, NEW k \in 1 .. Packets(t), NEW j \in 0 .. TokensOf(t, k) - 1,
           NEW d \in DecoderType, NEW token \in Arrives(Place(t, k, j + 1)),
           NEW u \in Turns, NEW m \in 1 .. Packets(u),
           Append(d.carry, token) = Part(u, m, TokensOf(u, m))
    PROVE  u = t /\ m = k /\ j + 1 = TokensOf(t, k)
<1>0. TokensOf(t, k) \in 4 .. 7 /\ j + 1 \in 1 .. TokensOf(t, k) /\ TokensOf(u, m) \in 4 .. 7
  BY LayoutIs
<1>1. token \in Token /\ (token = Place(t, k, j + 1) \/ token.packet = 0)
  BY <1>0, ArrivesIs
<1>2. d.carry \in Seq(Token)
  BY DEF DecoderType
<1>3. /\ Len(Append(d.carry, token)) = Len(d.carry) + 1
      /\ Append(d.carry, token)[Len(d.carry) + 1] = token
  BY <1>1, <1>2, AppendedCarry
<1>4. Len(Part(u, m, TokensOf(u, m))) = TokensOf(u, m) - 2
  BY BodyIs
<1>5. token = Part(u, m, TokensOf(u, m))[TokensOf(u, m) - 2]
  BY <1>3, <1>4
<1>6. token = Place(u, m, TokensOf(u, m))
  BY <1>0, <1>5 DEF Part
<1>7. token = Place(t, k, j + 1)
  BY <1>1, <1>6 DEF Place
<1> QED
  BY <1>6, <1>7 DEF Place

(* The last token of a packet that checks: its points join those before,   *)
(* and a ring-start finds a whole turn to hand on.                         *)
LEMMA WholeFollows ==
    ASSUME MaxPoints >= 8,
           NEW t \in Turns, NEW k \in 1 .. Packets(t), NEW d \in DecoderType, Revolved(d),
           Unsynced(d) \/ (d.synchronized /\ Before(d, t, k)),
           NEW e,
           LET synchronized == k = 1 \/ d.synchronized
               points == (IF k = 1 THEN <<>> ELSE d.points) \o PacketPoints(t, k)
           IN e = Finished(synchronized,
                           IF synchronized THEN SubSeq(points, 1, Min({MaxPoints, Len(points)}))
                                           ELSE d.points,
                           IF k = 1 THEN ChangesRevolution(d) ELSE d.revolution)
    PROVE  FollowsAfter(e, t, k, TokensOf(t, k))
<1>1. /\ 1 < Packets(t) /\ Packets(t) \in 2 .. 3 /\ TokensOf(t, k) \in 4 .. 7
      /\ First(t, 1) = 1 /\ First(t, 2) = 2 /\ Samples(t) \in {4, 8}
  BY LayoutIs, SamplesAre
<1>2. d.points \in Seq(Point) /\ d.revolution \in Seq(Point) /\ d.synchronized \in BOOLEAN
  BY DEF DecoderType
<1>3. CASE k = 1
  <2>1. UpTo(t, 1) \in Seq(Point) /\ Len(UpTo(t, 1)) = 1
    BY UpToIs
  <2>2. <<>> \o PacketPoints(t, 1) = UpTo(t, 1)
    BY <2>1, FirstPoints, ConcatEmptySeq
  <2>3. SubSeq(UpTo(t, 1), 1, Min({MaxPoints, Len(UpTo(t, 1))})) = UpTo(t, 1)
    <3>1. Len(UpTo(t, 1)) <= 8
      BY <2>1
    <3> QED
      BY <2>1, <3>1, NotTruncated, Zenon
  <2>4. e = Finished(TRUE, UpTo(t, 1), ChangesRevolution(d))
    BY <1>3, <2>2, <2>3
  <2>5. /\ ChangesRevolution(d) \in Seq(Point)
        /\ ChangesRevolution(d) = <<>> \/ \E u \in Turns : ChangesRevolution(d) = AllPoints(u)
    BY <1>2, <1>3 DEF ChangesRevolution, Unsynced, Before, Revolved
  <2>6. e \in DecoderType /\ Revolved(e) /\ e.synchronized /\ e.points = UpTo(t, 1)
        /\ Clean(e, t, 2, 0)
    <3>2. /\ e \in DecoderType /\ e.synchronized
          /\ e.points = UpTo(t, 1) /\ e.revolution = ChangesRevolution(d)
          /\ \A u \in Turns : \A m \in 1 .. 3 : Clean(e, u, m, 0)
      BY <2>1, <2>4, <2>5, FinishedInStep, Zenon
    <3>3. 2 \in 1 .. 3
      OBVIOUS
    <3> QED
      BY <2>5, <3>2, <3>3, Zenon DEF Revolved
  <2>7. Before(e, t, 2)
    BY <1>1, <2>6 DEF Before
  <2>8. Follows(e, t, 2, 0)
    BY <2>6, <2>7 DEF Follows
  <2> QED
    BY <1>1, <1>3, <2>8 DEF FollowsAfter
<1>4. CASE k # 1 /\ Unsynced(d)
  <2>1. ~d.synchronized /\ d.points = <<>>
    BY <1>4 DEF Unsynced
  <2>2. e = Finished(FALSE, <<>>, d.revolution)
    BY <1>2, <1>4, <2>1
  <2>3. /\ e \in DecoderType /\ ~e.synchronized
        /\ e.points = <<>> /\ e.revolution = d.revolution
        /\ \A u \in Turns : \A m \in 1 .. 3 : Clean(e, u, m, 0)
    <3>1. <<>> \in Seq(Point)
      OBVIOUS
    <3> QED
      BY <1>2, <2>2, <3>1, FinishedLost, Zenon
  <2>4. Unsynced(e) /\ Revolved(e)
    BY <2>3 DEF Unsynced, Revolved
  <2> QED
    BY <2>3, <2>4, LostIsLostAnywhere, Zenon
<1>5. CASE k # 1 /\ d.synchronized /\ Before(d, t, k)
  <2> DEFINE n == First(t, k) + Layout(t)[k] - 1
  <2>0. k \in 2 .. Packets(t)
    BY <1>1, <1>5
  <2>1. n \in 0 .. 8 /\ n = IF k = Packets(t) THEN Samples(t) ELSE First(t, k + 1) - 1
    BY <1>1, SamplesAre
  <2>2. d.points = UpTo(t, First(t, k) - 1)
    BY <1>5 DEF Before
  <2>3. d.points \o PacketPoints(t, k) = UpTo(t, n)
    BY <2>0, <2>2, MorePoints
  <2> HIDE DEF n
  <2>4. UpTo(t, n) \in Seq(Point) /\ Len(UpTo(t, n)) = n
    <3>1. n \in 0 .. 8
      BY <2>1
    <3>2. UpTo(t, n) \in [1 .. n -> Point] /\ UpTo(t, n) \in Seq(Point) /\ Len(UpTo(t, n)) = n
      BY <3>1, UpToIs, Zenon
    <3> QED
      BY <3>2
  <2>5. SubSeq(UpTo(t, n), 1, Min({MaxPoints, Len(UpTo(t, n))})) = UpTo(t, n)
    <3>1. Len(UpTo(t, n)) <= 8
      <4> HIDE DEF UpTo
      <4> QED
        BY <2>1, <2>4
    <3> QED
      BY <2>4, <3>1, NotTruncated, Zenon
  <2>6. e = Finished(TRUE, UpTo(t, n), d.revolution)
    BY <1>2, <1>5, <2>3, <2>5
  <2>7. /\ e \in DecoderType /\ e.synchronized
        /\ e.points = UpTo(t, n) /\ e.revolution = d.revolution
        /\ \A u \in Turns : \A m \in 1 .. 3 : Clean(e, u, m, 0)
    BY <1>2, <2>4, <2>6, FinishedInStep, Zenon
  <2>8. Revolved(e)
    BY <2>7 DEF Revolved
  <2>9. CASE k < Packets(t)
    <3>1. Before(e, t, k + 1) /\ k + 1 \in 1 .. 3
      BY <1>1, <1>5, <2>1, <2>7, <2>9 DEF Before
    <3>2. Follows(e, t, k + 1, 0)
      BY <2>7, <2>8, <3>1 DEF Follows
    <3> QED
      BY <1>1, <2>9, <3>2 DEF FollowsAfter
  <2>10. CASE k = Packets(t)
    <3>1. e.points = AllPoints(t)
      BY <2>1, <2>7, <2>10 DEF AllPoints
    <3>2. \A u \in Turns : Before(e, u, 1)
      BY <3>1 DEF Before
    <3>3. \A u \in Turns : Follows(e, u, 1, 0)
      <4>1. 1 \in 1 .. 3 /\ e.synchronized
        BY <2>7
      <4> QED
        BY <2>7, <2>8, <3>2, <4>1, Zenon DEF Follows
    <3>4. ~(TokensOf(t, k) < TokensOf(t, k)) /\ ~(k < Packets(t))
      BY <1>1, <2>10
    <3> QED
      BY <3>3, <3>4, Zenon DEF FollowsAfter
  <2> QED
    BY <1>1, <2>9, <2>10
<1> QED
  BY <1>3, <1>4, <1>5

LEMMA FinishFollows ==
    ASSUME MaxPoints >= 8,
           NEW t \in Turns, NEW k \in 1 .. Packets(t), NEW j \in 0 .. TokensOf(t, k) - 1,
           NEW d, Follows(d, t, k, j), d.framed, NEW token \in Arrives(Place(t, k, j + 1)),
           Announcing(Append(d.carry, token))
    PROVE  FollowsAfter(Feed(d, token), t, k, j + 1)
<1> DEFINE carry == Append(d.carry, token)
           e == Feed(d, token)
<1>0. TokensOf(t, k) \in 4 .. 7 /\ j + 1 \in 1 .. TokensOf(t, k)
  BY LayoutIs
<1>1. d \in DecoderType /\ Revolved(d) /\ d.carry \in Seq(Token) /\ d.revolution \in Seq(Point)
  BY DEF Follows, DecoderType
<1>2. token \in Token
  BY <1>0, ArrivesIs
<1>3. /\ carry \in Seq(Token) /\ carry # <<>> /\ Len(carry) = Len(d.carry) + 1
      /\ \A i \in 1 .. Len(d.carry) : carry[i] = d.carry[i]
  BY <1>1, <1>2, AppendedCarry
<1>4. CASE ~Intact(carry)
  <2>1. e = Finished(FALSE, <<>>, d.revolution)
    BY <1>1, <1>2, <1>4, FinishBroken
  <2>2. <<>> \in Seq(Point)
    OBVIOUS
  <2>3. /\ e \in DecoderType /\ ~e.synchronized
        /\ e.points = <<>> /\ e.revolution = d.revolution
        /\ \A u \in Turns : \A m \in 1 .. 3 : Clean(e, u, m, 0)
    BY <1>1, <2>1, <2>2, FinishedLost, Zenon
  <2>4. Unsynced(e) /\ Revolved(e)
    BY <1>1, <2>3 DEF Unsynced, Revolved
  <2> HIDE DEF e
  <2>5. FollowsAfter(e, t, k, j + 1)
    BY <2>3, <2>4, LostIsLostAnywhere, Zenon
  <2> QED
    BY <2>5 DEF e
<1>5. CASE Intact(carry)
  <2>0. PICK u \in Turns : \E m \in 1 .. Packets(u) : carry = Part(u, m, TokensOf(u, m))
    BY <1>3, <1>5, IntactIs
  <2>1. PICK m \in 1 .. Packets(u) : carry = Part(u, m, TokensOf(u, m))
    BY <2>0
  <2>2. u = t /\ m = k /\ j + 1 = TokensOf(t, k)
    <3>1. d \in DecoderType /\ Append(d.carry, token) = Part(u, m, TokensOf(u, m))
      BY <1>1, <2>1
    <3> HIDE DEF carry, e
    <3> QED
      BY <3>1, FinishedPacket
  <2>3. carry = Part(t, k, TokensOf(t, k))
    BY <2>1, <2>2
  <2>4. ~Doomed(d)
    <3> SUFFICES ASSUME NEW i \in DOMAIN d.carry, d.carry[i].packet = 0
                   PROVE  FALSE
      BY DEF Doomed
    <3>2. i \in DOMAIN carry /\ carry[i].packet = 0
      BY <1>1, <1>3
    <3> QED
      BY <1>3, <1>5, <3>2, BrokenIsNotIntact
  <2>5. Unsynced(d) \/ (d.synchronized /\ Before(d, t, k))
    BY <2>4 DEF Follows
  <2>6. LET synchronized == k = 1 \/ d.synchronized
            points == (IF k = 1 THEN <<>> ELSE d.points) \o PacketPoints(t, k)
        IN e = Finished(synchronized,
                        IF synchronized THEN SubSeq(points, 1, Min({MaxPoints, Len(points)}))
                                        ELSE d.points,
                        IF k = 1 THEN ChangesRevolution(d) ELSE d.revolution)
    BY <1>1, <1>2, <2>3, FinishIntact, Zenon
  <2> HIDE DEF e
  <2>7. FollowsAfter(e, t, k, TokensOf(t, k))
    BY <1>1, <2>5, <2>6, WholeFollows, Zenon
  <2> QED
    BY <2>2, <2>7 DEF e
<1> QED
  BY <1>4, <1>5

LEMMA FeedFollows ==
    ASSUME MaxPoints >= 8,
           NEW t \in Turns, NEW k \in 1 .. Packets(t), NEW j \in 0 .. TokensOf(t, k) - 1,
           NEW d, Follows(d, t, k, j), NEW token \in Arrives(Place(t, k, j + 1))
    PROVE  FollowsAfter(Feed(d, token), t, k, j + 1)
<1>1. CASE ~d.framed
  BY <1>1, SearchFollows, Zenon
<1>2. CASE d.framed /\ Announcing(Append(d.carry, token))
  BY <1>2, FinishFollows, Zenon
<1>3. CASE d.framed /\ ~Announcing(Append(d.carry, token))
  BY <1>3, GrowFollows, Zenon
<1> QED
  BY <1>1, <1>2, <1>3

--------------------------------------------------------------------------------
(* The decoder along the tokens of a turn.                                 *)

FollowsAt(d, t, p) ==
    IF p = TurnLength(t)
      THEN \A u \in Turns : Follows(d, u, 1, 0)
      ELSE \E k \in 1 .. Packets(t) : \E j \in 0 .. TokensOf(t, k) - 1 :
              p = Starts(t, k) + j /\ Follows(d, t, k, j)

LEMMA PlacesJoin ==
    ASSUME NEW t \in Turns, NEW k \in 1 .. Packets(t)
    PROVE  /\ k < Packets(t) => /\ k + 1 \in 1 .. Packets(t)
                                /\ Starts(t, k) + TokensOf(t, k) = Starts(t, k + 1)
           /\ k = Packets(t) => Starts(t, k) + TokensOf(t, k) = TurnLength(t)
           /\ Starts(t, k) \in Nat /\ TokensOf(t, k) \in 4 .. 7
           /\ Starts(t, k) + TokensOf(t, k) <= TurnLength(t)
           /\ TurnLength(t) \in {10, 17}
  BY LayoutIs, TurnsAreSlowOrNot DEF Starts

LEMMA TurnBegins ==
    ASSUME NEW t \in Turns, NEW d, Follows(d, t, 1, 0)
    PROVE  FollowsAt(d, t, 0)
<1>1. 1 \in 1 .. Packets(t) /\ 0 \in 0 .. TokensOf(t, 1) - 1 /\ 0 = Starts(t, 1) + 0
      /\ 0 # TurnLength(t)
  BY LayoutIs, PlacesJoin DEF Starts
<1> QED
  BY <1>1, Zenon DEF FollowsAt

LEMMA TokenFollows ==
    ASSUME MaxPoints >= 8,
           NEW t \in Turns, NEW p \in 0 .. TurnLength(t) - 1,
           NEW d, FollowsAt(d, t, p), NEW token \in Arrives(Stream[t][p + 1])
    PROVE  FollowsAt(Feed(d, token), t, p + 1)
<1> DEFINE e == Feed(d, token)
<1>0. p # TurnLength(t) /\ TurnLength(t) \in {10, 17}
  BY TurnsAreSlowOrNot DEF TurnLength
<1>1. PICK k \in 1 .. Packets(t) :
        \E j \in 0 .. TokensOf(t, k) - 1 : p = Starts(t, k) + j /\ Follows(d, t, k, j)
  BY <1>0, Zenon DEF FollowsAt
<1>2. PICK j \in 0 .. TokensOf(t, k) - 1 : p = Starts(t, k) + j /\ Follows(d, t, k, j)
  BY <1>1
<1>3. /\ Starts(t, k) \in Nat /\ TokensOf(t, k) \in 4 .. 7
      /\ Starts(t, k) + TokensOf(t, k) <= TurnLength(t)
      /\ Packets(t) \in 2 .. 3
  BY PlacesJoin, LayoutIs
<1>4. p + 1 = Starts(t, k) + (j + 1) /\ j + 1 \in 1 .. TokensOf(t, k)
  BY <1>2, <1>3
<1>5. Stream[t][p + 1] = Place(t, k, j + 1)
  BY <1>4, StreamIs
<1>6. token \in Arrives(Place(t, k, j + 1))
  BY <1>5
<1>7. FollowsAfter(e, t, k, j + 1)
  BY <1>2, <1>6, FeedFollows, Zenon
<1> HIDE DEF e
<1>8. CASE j + 1 < TokensOf(t, k)
  <2>1. Follows(e, t, k, j + 1)
    BY <1>7, <1>8 DEF FollowsAfter
  <2>2. j + 1 \in 0 .. TokensOf(t, k) - 1 /\ p + 1 # TurnLength(t)
    BY <1>0, <1>3, <1>4, <1>8
  <2>3. FollowsAt(e, t, p + 1)
    BY <1>4, <2>1, <2>2, Zenon DEF FollowsAt
  <2> QED
    BY <2>3 DEF e
<1>9. CASE j + 1 = TokensOf(t, k) /\ k < Packets(t)
  <2>1. Follows(e, t, k + 1, 0)
    BY <1>7, <1>9 DEF FollowsAfter
  <2>2. k + 1 \in 1 .. Packets(t) /\ p + 1 = Starts(t, k + 1)
    BY <1>4, <1>9, PlacesJoin
  <2>3. /\ Starts(t, k + 1) \in Nat /\ TokensOf(t, k + 1) \in 4 .. 7
        /\ Starts(t, k + 1) + TokensOf(t, k + 1) <= TurnLength(t)
    BY <2>2, PlacesJoin
  <2>4. 0 \in 0 .. TokensOf(t, k + 1) - 1 /\ p + 1 # TurnLength(t) /\ p + 1 = Starts(t, k + 1) + 0
    BY <1>0, <2>2, <2>3
  <2>5. FollowsAt(e, t, p + 1)
    BY <2>1, <2>2, <2>4, Zenon DEF FollowsAt
  <2> QED
    BY <2>5 DEF e
<1>10. CASE j + 1 = TokensOf(t, k) /\ k = Packets(t)
  <2>1. ~(j + 1 < TokensOf(t, k)) /\ ~(k < Packets(t))
    BY <1>3, <1>10
  <2>2. \A u \in Turns : Follows(e, u, 1, 0)
    BY <1>7, <2>1, Zenon DEF FollowsAfter
  <2>3. p + 1 = TurnLength(t)
    BY <1>4, <1>10, PlacesJoin
  <2>4. FollowsAt(e, t, p + 1)
    BY <2>2, <2>3, Zenon DEF FollowsAt
  <2> QED
    BY <2>4 DEF e
<1> QED
  BY <1>3, <1>4, <1>8, <1>9, <1>10

--------------------------------------------------------------------------------
(* push, a token at a time.                                                *)

LEMMA LeastNumber ==
    ASSUME NEW T \in SUBSET Nat, T # {}
    PROVE  \E n \in T : \A m \in T : n <= m
<1> DEFINE R == OpToRel(<, Nat)
<1>1. IsWellFoundedOn(R, Nat)
  BY NatLessThanWellFounded
<1>2. \A m \in Nat, n \in Nat : m < n => <<m, n>> \in R
  BY DEF OpToRel
<1> HIDE DEF R
<1>3. PICK n \in T : \A m \in T : ~(<<m, n>> \in R)
  BY <1>1, WFMin
<1>4. \A m \in T : n \in Nat /\ m \in Nat /\ ~(m < n)
  BY <1>2, <1>3, Zenon
<1> QED
  BY <1>4

LEMMA PushIs ==
    ASSUME NEW n \in Nat, NEW tokens \in [1 .. n -> Token]
    PROVE  \E fed : /\ Push(tokens) = fed[n]
                    /\ fed[0] = {decoder}
                    /\ \A i \in 1 .. n : fed[i] = {Feed(d, tokens[i]) : d \in fed[i - 1]}
<1> DEFINE Steps(f, m) ==
               f = [i \in 0 .. m |-> IF i = 0 THEN {decoder}
                                     ELSE {Feed(d, tokens[i]) : d \in f[i - 1]}]
           fed[i \in 0 .. Len(tokens)] ==
               IF i = 0 THEN {decoder} ELSE {Feed(d, tokens[i]) : d \in fed[i - 1]}
           T == {m \in Nat : ~ \E f : Steps(f, m)}
<1>1. Len(tokens) = n
  OBVIOUS
<1>2. Push(tokens) = fed[Len(tokens)]
  BY Zenon DEF Push
<1>3. T = {}
  <2> SUFFICES ASSUME T # {} PROVE FALSE
    OBVIOUS
  <2>1. PICK m \in T : \A k \in T : m <= k
    <3>1. T \in SUBSET Nat
      OBVIOUS
    <3> HIDE DEF T
    <3> QED
      BY <3>1, LeastNumber
  <2>2. m \in Nat /\ ~ \E f : Steps(f, m)
    BY <2>1
  <2>3. CASE m = 0
    <3> DEFINE f == [i \in 0 .. 0 |-> {decoder}]
    <3>1. Steps(f, 0)
      OBVIOUS
    <3> QED
      BY <2>2, <2>3, <3>1
  <2>4. CASE m # 0
    <3>0. m - 1 \in Nat /\ ~(m <= m - 1)
      BY <2>2, <2>4
    <3>1. m - 1 \notin T
      <4> HIDE DEF T
      <4> QED
        BY <2>1, <3>0
    <3>2. PICK f : Steps(f, m - 1)
      <4> HIDE DEF Steps
      <4> QED
        BY <3>0, <3>1
    <3> DEFINE g == [i \in 0 .. m |-> IF i = 0 THEN {decoder}
                                      ELSE {Feed(d, tokens[i]) : d \in f[i - 1]}]
    <3>3. \A i \in 0 .. m - 1 : g[i] = f[i]
      <4>1. \A i \in 0 .. m - 1 : f[i] = IF i = 0 THEN {decoder}
                                         ELSE {Feed(d, tokens[i]) : d \in f[i - 1]}
        BY <3>2, Zenon
      <4>2. \A i \in 0 .. m - 1 : i \in 0 .. m
        BY <2>2
      <4> QED
        BY <4>1, <4>2, Zenon
    <3>4. \A i \in 0 .. m : i # 0 => i - 1 \in 0 .. m - 1
      BY <2>2
    <3>5. \A i \in 0 .. m : g[i] = IF i = 0 THEN {decoder}
                                   ELSE {Feed(d, tokens[i]) : d \in g[i - 1]}
      BY <3>3, <3>4
    <3>6. g = [i \in 0 .. m |-> IF i = 0 THEN {decoder}
                                ELSE {Feed(d, tokens[i]) : d \in g[i - 1]}]
      BY <3>5
    <3> QED
      BY <2>2, <3>6
  <2> QED
    BY <2>3, <2>4
<1>4. \E f : Steps(f, n)
  BY <1>3
<1>5. fed = CHOOSE f : Steps(f, n)
  BY <1>1
<1>6. Steps(fed, n)
  BY <1>4, <1>5
<1> HIDE DEF fed
<1>7. /\ fed[0] = {decoder}
      /\ \A i \in 1 .. n : fed[i] = {Feed(d, tokens[i]) : d \in fed[i - 1]}
  <2>1. \A i \in 0 .. n : fed[i] = IF i = 0 THEN {decoder}
                                   ELSE {Feed(d, tokens[i]) : d \in fed[i - 1]}
    BY <1>6, Zenon
  <2>2. 0 \in 0 .. n /\ \A i \in 1 .. n : i \in 0 .. n /\ i # 0
    OBVIOUS
  <2> QED
    BY <2>1, <2>2, Zenon
<1> QED
  BY <1>1, <1>2, <1>7

(* What a read may return.                                                 *)
LEMMA ChunksAreShort ==
    ASSUME NEW n \in Chunks
    PROVE  n \in Nat \ {0} /\ \A t \in Turns : n <= TurnLength(t) /\ Len(Stream[t]) = TurnLength(t)
<1>1. n \in Nat \ {0}
  BY ScanAssumption
<1>2. ASSUME NEW t \in Turns PROVE Len(Stream[t]) = TurnLength(t)
  <2>1. Stream[t] \in [1 .. TurnLength(t) -> Token]
    BY StreamIs
  <2>2. TurnLength(t) \in Nat
    BY DEF TurnLength
  <2> QED
    BY <2>1, <2>2
<1> QED
  BY <1>1, <1>2, ChunkAssumption

SentToken(t, u, p) == IF p <= TurnLength(t) THEN Stream[t][p] ELSE Stream[u][p - TurnLength(t)]

LEMMA ChunkIs ==
    ASSUME turn \in Turns, sent \in 0 .. TurnLength(turn) - 1,
           NEW n \in Chunks, NEW next \in Turns
    PROVE  /\ Chunk(n, next) \in [1 .. n -> Token]
           /\ \A i \in 1 .. n : Chunk(n, next)[i] = SentToken(turn, next, sent + i)
<1> DEFINE a == Stream[turn]
           b == Stream[next]
           l == TurnLength(turn)
           m == TurnLength(next)
           both == a \o b
<1>1. /\ a \in [1 .. l -> Token] /\ b \in [1 .. m -> Token]
      /\ l \in Nat /\ m \in Nat /\ l > 0
  BY StreamIs DEF TurnLength
<1>2. n \in Nat \ {0} /\ n <= m
  BY ChunksAreShort
<1>3. sent \in 0 .. l - 1
  OBVIOUS
<1> HIDE DEF a, b, l, m
<1>4. /\ both = [p \in 1 .. l + m |-> IF p <= l THEN a[p] ELSE b[p - l]]
      /\ both \in [1 .. l + m -> Token]
  BY <1>1, Joined, Zenon
<1>5. l + m \in Nat /\ sent + n <= l + m /\ sent + 1 \in 1 .. l + m
      /\ \A i \in 1 .. n : sent + i \in 1 .. l + m
  BY <1>1, <1>2, <1>3
<1> HIDE DEF both
<1>6. SubSeq(both, sent + 1, sent + n) = [i \in 1 .. n |-> both[sent + i]]
  <2>1. SubSeq(both, sent + 1, sent + n)
        = [i \in 1 .. (sent + n) - (sent + 1) + 1 |-> both[i + (sent + 1) - 1]]
    BY <1>2, <1>3, <1>4, <1>5
  <2>2. (sent + n) - (sent + 1) + 1 = n
    BY <1>1, <1>2, <1>3
  <2>3. \A i \in 1 .. n : i + (sent + 1) - 1 = sent + i
    BY <1>1, <1>2, <1>3
  <2> QED
    BY <2>1, <2>2, <2>3
<1>7. \A i \in 1 .. n : both[sent + i] = SentToken(turn, next, sent + i) /\ both[sent + i] \in Token
  BY <1>4, <1>5 DEF SentToken, a, b, l
<1>8. Chunk(n, next) = [i \in 1 .. n |-> both[sent + i]]
  BY <1>6 DEF Chunk, both, a, b
<1> QED
  BY <1>7, <1>8

LEMMA ChangedIs ==
    ASSUME NEW token \in Token, NEW lsn \in Nat
    PROVE  Changed(token, lsn) = [of |-> token.of, packet |-> 0, item |-> lsn]
<1> DEFINE R == [of : Turns, packet : 0 .. 3, item : Nat]
           broken == [token EXCEPT !.packet = 0]
           changed == [broken EXCEPT !.item = lsn]
<1>1. token \in R
  BY DEF Token
<1>2. broken \in R /\ broken.of = token.of /\ broken.packet = 0
  BY <1>1
<1> HIDE DEF broken
<1>3. /\ changed \in R /\ changed.of = token.of
      /\ changed.packet = 0 /\ changed.item = lsn
  BY <1>2
<1> HIDE DEF changed
<1>4. changed = [of |-> token.of, packet |-> 0, item |-> lsn]
  BY <1>3
<1>5. Changed(token, lsn) = changed
  BY <1>1 DEF Changed, changed, broken
<1> QED
  BY <1>4, <1>5

LEMMA NoisyIs ==
    ASSUME Noise \subseteq {"Body"},
           NEW n \in Nat, NEW clean \in [1 .. n -> Token], NEW tokens \in Noisy(clean)
    PROVE  /\ tokens \in [1 .. n -> Token]
           /\ \A i \in 1 .. n : tokens[i] \in Arrives(clean[i])
<1>1. CASE tokens = clean
  BY <1>1 DEF Arrives
<1>2. CASE \E i \in {j \in DOMAIN clean :
                        (IF clean[j].item < 3 THEN "Header" ELSE "Body") \in Noise} :
              \E lsn \in Lengths(clean[i]) : tokens = [clean EXCEPT ![i] = Changed(@, lsn)]
  <2>1. PICK i \in DOMAIN clean :
          /\ (IF clean[i].item < 3 THEN "Header" ELSE "Body") \in Noise
          /\ \E lsn \in Lengths(clean[i]) : tokens = [clean EXCEPT ![i] = Changed(@, lsn)]
    BY <1>2
  <2>2. PICK lsn \in Lengths(clean[i]) : tokens = [clean EXCEPT ![i] = Changed(clean[i], lsn)]
    BY <2>1
  <2>3. i \in 1 .. n /\ clean[i] \in Token /\ ~(clean[i].item < 3) /\ lsn \in {0, 4}
    BY <2>1 DEF Lengths
  <2>10. lsn \in Nat
    BY <2>3
  <2>4. Changed(clean[i], lsn) = [of |-> clean[i].of, packet |-> 0, item |-> lsn]
    BY <2>3, <2>10, ChangedIs, Zenon
  <2>5. Packets(clean[i].of) \in 2 .. 3 /\ clean[i].of \in Turns
    BY <2>3, LayoutIs DEF Token
  <2>6. Changed(clean[i], lsn) \in Token
    BY <2>3, <2>4, <2>5 DEF Token
  <2>7. tokens = [j \in 1 .. n |-> IF j = i THEN Changed(clean[i], lsn) ELSE clean[j]]
    BY <2>2
  <2>8. Changed(clean[i], lsn) \in Arrives(clean[i])
    BY <2>3 DEF Arrives
  <2>9. \A j \in 1 .. n : clean[j] \in Arrives(clean[j]) /\ clean[j] \in Token
    BY DEF Arrives
  <2> QED
    BY <2>6, <2>7, <2>8, <2>9
<1> QED
  BY <1>1, <1>2 DEF Noisy

--------------------------------------------------------------------------------
(* The decoder along the tokens of a read, which reach into one more turn  *)
(* at most.                                                                *)

Along(d, t, u, p) ==
    IF p <= TurnLength(t) THEN FollowsAt(d, t, p) ELSE FollowsAt(d, u, p - TurnLength(t))

LEMMA AlongFirst ==
    ASSUME NEW t, NEW u, NEW p, p <= TurnLength(t)
    PROVE  /\ \A d : Along(d, t, u, p) <=> FollowsAt(d, t, p)
           /\ SentToken(t, u, p) = Stream[t][p]
  BY DEF Along, SentToken

LEMMA AlongNext ==
    ASSUME NEW t, NEW u, NEW p, NEW q, ~(p <= TurnLength(t)), p - TurnLength(t) = q
    PROVE  /\ \A d : Along(d, t, u, p) <=> FollowsAt(d, u, q)
           /\ SentToken(t, u, p) = Stream[u][q]
  BY DEF Along, SentToken

LEMMA AlongFollows ==
    ASSUME MaxPoints >= 8, NEW t \in Turns, NEW u \in Turns, NEW p \in Nat,
           p < TurnLength(t) + TurnLength(u),
           NEW d, Along(d, t, u, p), NEW token \in Arrives(SentToken(t, u, p + 1))
    PROVE  Along(Feed(d, token), t, u, p + 1)
<1> DEFINE l == TurnLength(t)
           m == TurnLength(u)
           e == Feed(d, token)
<1>1. l \in Nat /\ m \in Nat /\ l > 0 /\ m > 0
  BY DEF TurnLength
<1>2. CASE p < l
  <2>1. p \in 0 .. l - 1 /\ p <= l /\ p + 1 <= l
    BY <1>1, <1>2
  <2>2. FollowsAt(d, t, p) /\ token \in Arrives(Stream[t][p + 1])
    BY <2>1, AlongFirst
  <2>3. FollowsAt(e, t, p + 1)
    BY <2>1, <2>2, TokenFollows, Zenon
  <2> QED
    BY <2>1, <2>3, AlongFirst, Zenon
<1>3. CASE p = l
  <2>1. p <= l /\ ~(p + 1 <= l) /\ (p + 1) - l = 1 /\ 0 \in 0 .. m - 1 /\ 1 = 0 + 1
    BY <1>1, <1>3
  <2>2. FollowsAt(d, t, l)
    BY <1>3, <2>1, AlongFirst, Zenon
  <2>3. Follows(d, u, 1, 0)
    BY <2>2 DEF FollowsAt
  <2>4. FollowsAt(d, u, 0)
    BY <2>3, TurnBegins
  <2>5. token \in Arrives(Stream[u][0 + 1])
    <3>1. SentToken(t, u, p + 1) = Stream[u][0 + 1]
      BY <2>1, AlongNext
    <3> QED
      BY <3>1
  <2>6. FollowsAt(e, u, 0 + 1)
    BY <2>1, <2>4, <2>5, TokenFollows, Zenon
  <2> QED
    <3>1. (p + 1) - TurnLength(t) = 0 + 1
      BY <2>1
    <3> QED
      BY <2>1, <2>6, <3>1, AlongNext, Zenon
<1>4. CASE p > l
  <2>1. ~(p <= l) /\ ~(p + 1 <= l) /\ p - l \in 0 .. m - 1 /\ (p + 1) - l = (p - l) + 1
    BY <1>1, <1>4
  <2>2. FollowsAt(d, u, p - l) /\ token \in Arrives(Stream[u][(p - l) + 1])
    <3>1. SentToken(t, u, p + 1) = Stream[u][(p - l) + 1]
      BY <2>1, AlongNext
    <3>2. FollowsAt(d, u, p - l)
      BY <2>1, AlongNext, Zenon
    <3> QED
      BY <3>1, <3>2
  <2>3. FollowsAt(e, u, (p - l) + 1)
    BY <2>1, <2>2, TokenFollows, Zenon
  <2> QED
    BY <2>1, <2>3, AlongNext, Zenon
<1> QED
  BY <1>1, <1>2, <1>3, <1>4

LEMMA PushFollows ==
    ASSUME MaxPoints >= 8, NEW t \in Turns, NEW u \in Turns,
           NEW p \in 0 .. TurnLength(t) - 1, FollowsAt(decoder, t, p),
           NEW n \in Nat, n <= TurnLength(u), NEW tokens \in [1 .. n -> Token],
           \A i \in 1 .. n : tokens[i] \in Arrives(SentToken(t, u, p + i)),
           NEW after \in Push(tokens)
    PROVE  Along(after, t, u, p + n)
<1>1. PICK fed : /\ Push(tokens) = fed[n]
                 /\ fed[0] = {decoder}
                 /\ \A i \in 1 .. n : fed[i] = {Feed(d, tokens[i]) : d \in fed[i - 1]}
  BY PushIs, Zenon
<1> DEFINE T == {i \in 0 .. n : ~ \A d \in fed[i] : Along(d, t, u, p + i)}
<1>2. TurnLength(t) \in Nat /\ TurnLength(u) \in Nat /\ p \in Nat /\ p <= TurnLength(t)
  BY DEF TurnLength
<1>3. T = {}
  <2> SUFFICES ASSUME T # {} PROVE FALSE
    OBVIOUS
  <2>1. PICK i \in T : \A k \in T : i <= k
    <3>1. T \in SUBSET Nat
      OBVIOUS
    <3> HIDE DEF T
    <3> QED
      BY <3>1, LeastNumber
  <2>2. PICK d \in fed[i] : ~Along(d, t, u, p + i)
    BY <2>1
  <2>3. i \in 0 .. n
    BY <2>1
  <2>4. CASE i = 0
    <3>1. d = decoder /\ p + i = p
      BY <1>1, <1>2, <2>2, <2>4
    <3> QED
      BY <1>2, <2>2, <3>1 DEF Along
  <2>5. CASE i # 0
    <3>1. i \in 1 .. n /\ i - 1 \in 0 .. n /\ ~(i <= i - 1)
      BY <2>3, <2>5
    <3>2. i - 1 \notin T
      <4> HIDE DEF T
      <4> QED
        BY <2>1, <3>1
    <3>3. \A c \in fed[i - 1] : Along(c, t, u, p + (i - 1))
      BY <3>1, <3>2
    <3>4. PICK c \in fed[i - 1] : d = Feed(c, tokens[i])
      BY <1>1, <2>2, <3>1
    <3>5. /\ p + (i - 1) \in Nat /\ p + (i - 1) < TurnLength(t) + TurnLength(u)
          /\ (p + (i - 1)) + 1 = p + i
      BY <1>2, <3>1
    <3>6. tokens[i] \in Arrives(SentToken(t, u, (p + (i - 1)) + 1))
      BY <3>1, <3>5
    <3>7. Along(c, t, u, p + (i - 1))
      BY <3>3
    <3>8. Along(Feed(c, tokens[i]), t, u, (p + (i - 1)) + 1)
      BY <3>5, <3>6, <3>7, AlongFollows, Zenon
    <3> QED
      BY <2>2, <3>4, <3>5, <3>8
  <2> QED
    BY <2>4, <2>5
<1>4. n \in 0 .. n /\ n \notin T
  BY <1>3
<1> QED
  BY <1>1, <1>4

--------------------------------------------------------------------------------
(* The inductive invariant.                                                *)

ScanIsCorrected == scan = <<>> \/ \E u \in Turns : scan = Correct(AllPoints(u))
StreamInv ==
    /\ turn \in Turns
    /\ sent \in 0 .. TurnLength(turn) - 1
    /\ FollowsAt(decoder, turn, sent)
    /\ ScanIsCorrected

LEMMA LostAt ==
    ASSUME NEW d \in DecoderType, Revolved(d), Unsynced(d),
           NEW t \in Turns, NEW p \in 0 .. TurnLength(t) - 1
    PROVE  FollowsAt(d, t, p)
<1>1. p # TurnLength(t)
  BY DEF TurnLength
<1>2. PICK k \in 1 .. Packets(t) : \E j \in 0 .. TokensOf(t, k) - 1 : p = Starts(t, k) + j
  BY EveryTokenHasAPlace
<1>3. PICK j \in 0 .. TokensOf(t, k) - 1 : p = Starts(t, k) + j
  BY <1>2
<1>4. Follows(d, t, k, j)
  BY Zenon DEF Follows
<1> QED
  BY <1>1, <1>3, <1>4, Zenon DEF FollowsAt

LEMMA NewDecoderIsLost ==
    /\ NewDecoder \in DecoderType /\ Revolved(NewDecoder) /\ Unsynced(NewDecoder)
    /\ \A d \in DecoderType : Revolved(d) =>
          Resync(d) \in DecoderType /\ Revolved(Resync(d)) /\ Unsynced(Resync(d))
<1>1. NewDecoder \in DecoderType /\ Revolved(NewDecoder) /\ Unsynced(NewDecoder)
  BY DEF NewDecoder, DecoderType, Revolved, Unsynced
<1>2. ASSUME NEW d \in DecoderType, Revolved(d)
      PROVE  Resync(d) \in DecoderType /\ Revolved(Resync(d)) /\ Unsynced(Resync(d))
  <2>1. d.revolution \in Seq(Point)
    BY DEF DecoderType
  <2>2. NewDecoder \in DecoderType /\ ~NewDecoder.synchronized /\ NewDecoder.points = <<>>
    BY <1>1 DEF Unsynced
  <2> HIDE DEF NewDecoder
  <2>3. /\ Resync(d) \in DecoderType /\ ~Resync(d).synchronized
        /\ Resync(d).points = <<>> /\ Resync(d).revolution = d.revolution
    BY <2>1, <2>2 DEF Resync, DecoderType
  <2> HIDE DEF Resync
  <2> QED
    BY <1>2, <2>3 DEF Revolved, Unsynced
<1> QED
  BY <1>1, <1>2

(* Handing on the revolution does not move the decoder.                    *)
LEMMA HandedOn ==
    ASSUME NEW d, NEW t \in Turns, NEW p \in 0 .. TurnLength(t) - 1, FollowsAt(d, t, p)
    PROVE  /\ d \in DecoderType /\ Revolved(d)
           /\ FollowsAt([d EXCEPT !.revolution = <<>>], t, p)
<1> DEFINE e == [d EXCEPT !.revolution = <<>>]
<1>1. p # TurnLength(t)
  BY DEF TurnLength
<1>2. PICK k \in 1 .. Packets(t) :
        \E j \in 0 .. TokensOf(t, k) - 1 : p = Starts(t, k) + j /\ Follows(d, t, k, j)
  BY <1>1, Zenon DEF FollowsAt
<1>3. PICK j \in 0 .. TokensOf(t, k) - 1 : p = Starts(t, k) + j /\ Follows(d, t, k, j)
  BY <1>2
<1>4. d \in DecoderType /\ Revolved(d)
  BY <1>3 DEF Follows
<1>5. /\ e \in DecoderType /\ e.revolution = <<>>
      /\ e.framed = d.framed /\ e.carry = d.carry /\ e.seenHeader0 = d.seenHeader0
      /\ e.points = d.points /\ e.synchronized = d.synchronized
  <2>1. <<>> \in Seq(Point)
    OBVIOUS
  <2> QED
    BY <1>4, <2>1 DEF DecoderType
<1> HIDE DEF e
<1>6. Follows(e, t, k, j)
  BY <1>3, <1>5 DEF Follows, Revolved, Unsynced, Doomed, Before, Clean
<1>7. FollowsAt(e, t, p)
  BY <1>1, <1>3, <1>6, Zenon DEF FollowsAt
<1> QED
  BY <1>4, <1>7 DEF e

LEMMA Carried ==
    ASSUME NEW l \in Nat, NEW m \in Nat, NEW p \in 0 .. l - 1, NEW n \in Nat, n <= m,
           ~(n < l - p), NEW q, q = n - (l - p)
    PROVE  /\ q \in 0 .. m - 1
           /\ p + n <= l => q = 0 /\ p + n = l
           /\ (p + n) - l = q
  OBVIOUS

LEMMA SendsOn ==
    ASSUME turn \in Turns, sent \in 0 .. TurnLength(turn) - 1,
           NEW n \in Chunks, NEW next \in Successors(n), Sends(n, next)
    PROVE  /\ turn' \in Turns /\ sent' \in 0 .. TurnLength(turn') - 1 /\ next \in Turns
           /\ \A d : Along(d, turn, next, sent + n) => FollowsAt(d, turn', sent')
<1> DEFINE l == TurnLength(turn)
<1>1. l = Len(Stream[turn]) /\ n \in Nat \ {0} /\ l \in Nat /\ l > 0
      /\ \A t \in Turns : n <= TurnLength(t)
  BY ChunksAreShort DEF TurnLength
<1>2. CASE n < l - sent
  <2>1. turn' = turn /\ sent' = sent + n /\ next = turn
    BY <1>1, <1>2 DEF Sends
  <2>2. sent + n \in 0 .. l - 1 /\ sent + n <= l
    BY <1>1, <1>2
  <2>3. \A d : Along(d, turn, next, sent + n) => FollowsAt(d, turn, sent + n)
    BY <2>2, AlongFirst
  <2> QED
    BY <2>1, <2>2, <2>3
<1>3. CASE ~(n < l - sent)
  <2>1. turn' = next /\ sent' = n - (l - sent) /\ next \in Turns
    BY <1>1, <1>3 DEF Sends, Following
  <2>2. /\ sent' \in 0 .. TurnLength(next) - 1
        /\ sent + n <= l => sent' = 0 /\ sent + n = l
        /\ (sent + n) - l = sent'
    <3>1. TurnLength(next) \in Nat /\ n <= TurnLength(next)
      BY <1>1, <2>1 DEF TurnLength
    <3>2. sent \in 0 .. l - 1
      OBVIOUS
    <3>3. l \in Nat /\ n \in Nat /\ ~(n < l - sent) /\ sent' = n - (l - sent)
      BY <1>1, <1>3, <2>1
    <3> QED
      BY <3>1, <3>2, <3>3, Carried
  <2>3. ASSUME NEW d, Along(d, turn, next, sent + n) PROVE FollowsAt(d, next, sent')
    <3>1. CASE sent + n <= l
      <4>1. FollowsAt(d, turn, l)
        BY <2>2, <2>3, <3>1, AlongFirst
      <4>2. Follows(d, next, 1, 0)
        BY <2>1, <4>1 DEF FollowsAt
      <4> QED
        BY <2>1, <2>2, <3>1, <4>2, TurnBegins
    <3>2. CASE ~(sent + n <= l)
      BY <2>2, <2>3, <3>2, AlongNext
    <3> QED
      BY <3>1, <3>2
  <2> QED
    BY <2>1, <2>2, <2>3
<1> QED
  BY <1>2, <1>3

LEMMA ReadKeeps ==
    ASSUME MaxPoints >= 8, Noise \subseteq {"Body"}, StreamInv, ReadChunk
    PROVE  StreamInv'
<1>1. turn \in Turns /\ sent \in 0 .. TurnLength(turn) - 1 /\ FollowsAt(decoder, turn, sent)
  BY DEF StreamInv
<1> DEFINE Reads(n, next, after) ==
               /\ Sends(n, next)
               /\ IF after.revolution # <<>>
                    THEN /\ scan' = Correct(after.revolution)
                         /\ decoder' = [after EXCEPT !.revolution = <<>>]
                    ELSE scan' = <<>> /\ decoder' = after
<1>2. \E n \in Chunks : \E next \in Successors(n) : \E tokens \in Noisy(Chunk(n, next)) :
         \E after \in Push(tokens) : Reads(n, next, after)
  BY Zenon DEF ReadChunk
<1> HIDE DEF Reads
<1>3. PICK n \in Chunks : \E next \in Successors(n) : \E tokens \in Noisy(Chunk(n, next)) :
         \E after \in Push(tokens) : Reads(n, next, after)
  BY <1>2
<1>4. PICK next \in Successors(n) : \E tokens \in Noisy(Chunk(n, next)) :
         \E after \in Push(tokens) : Reads(n, next, after)
  BY <1>3
<1>5. PICK tokens \in Noisy(Chunk(n, next)) : \E after \in Push(tokens) : Reads(n, next, after)
  BY <1>4
<1>6. PICK after \in Push(tokens) : Reads(n, next, after)
  BY <1>5
<1>7. Sends(n, next)
  BY <1>6 DEF Reads
<1>8. /\ turn' \in Turns /\ sent' \in 0 .. TurnLength(turn') - 1 /\ next \in Turns
      /\ \A d : Along(d, turn, next, sent + n) => FollowsAt(d, turn', sent')
  BY <1>1, <1>7, SendsOn, Zenon
<1>9. n \in Nat /\ n <= TurnLength(next)
  BY <1>8, ChunksAreShort
<1>10. /\ Chunk(n, next) \in [1 .. n -> Token]
       /\ \A i \in 1 .. n : Chunk(n, next)[i] = SentToken(turn, next, sent + i)
  BY <1>1, <1>8, ChunkIs, Zenon
<1>11. /\ tokens \in [1 .. n -> Token]
       /\ \A i \in 1 .. n : tokens[i] \in Arrives(Chunk(n, next)[i])
  BY <1>9, <1>10, NoisyIs, Zenon
<1>12. \A i \in 1 .. n : tokens[i] \in Arrives(SentToken(turn, next, sent + i))
  BY <1>10, <1>11
<1>13. Along(after, turn, next, sent + n)
  BY <1>1, <1>8, <1>9, <1>11, <1>12, PushFollows, Zenon
<1>14. FollowsAt(after, turn', sent')
  BY <1>8, <1>13
<1>15. /\ after \in DecoderType /\ Revolved(after)
       /\ FollowsAt([after EXCEPT !.revolution = <<>>], turn', sent')
  BY <1>8, <1>14, HandedOn, Zenon
<1>16. FollowsAt(decoder', turn', sent') /\ ScanIsCorrected'
  <2>1. CASE after.revolution # <<>>
    <3>1. scan' = Correct(after.revolution) /\ decoder' = [after EXCEPT !.revolution = <<>>]
      BY <1>6, <2>1, Zenon DEF Reads
    <3> QED
      BY <1>15, <2>1, <3>1, Zenon DEF ScanIsCorrected, Revolved
  <2>2. CASE after.revolution = <<>>
    <3>1. scan' = <<>> /\ decoder' = after
      BY <1>6, <2>2, Zenon DEF Reads
    <3> QED
      BY <1>14, <3>1, Zenon DEF ScanIsCorrected
  <2> QED
    BY <2>1, <2>2
<1> QED
  BY <1>8, <1>16 DEF StreamInv

LEMMA GlitchKeeps ==
    ASSUME StreamInv, ReadGlitch
    PROVE  StreamInv'
<1>1. turn \in Turns /\ sent \in 0 .. TurnLength(turn) - 1 /\ FollowsAt(decoder, turn, sent)
  BY DEF StreamInv
<1>2. \E n \in Chunks : \E next \in Successors(n) : Sends(n, next)
  BY DEF ReadGlitch
<1>3. turn' \in Turns /\ sent' \in 0 .. TurnLength(turn') - 1
  BY <1>1, <1>2, SendsOn, Zenon
<1>4. decoder \in DecoderType /\ Revolved(decoder)
  BY <1>1, HandedOn, Zenon
<1>5. decoder' = Resync(decoder) /\ scan' = scan
  BY DEF ReadGlitch
<1>6. decoder' \in DecoderType /\ Revolved(decoder') /\ Unsynced(decoder')
  BY <1>4, <1>5, NewDecoderIsLost
<1>7. FollowsAt(decoder', turn', sent')
  BY <1>3, <1>6, LostAt, Zenon
<1> QED
  BY <1>3, <1>5, <1>7 DEF StreamInv, ScanIsCorrected

(* The steps that build a new driver, and those that leave it alone.       *)
LEMMA RenewedKeeps ==
    ASSUME StreamInv, decoder' = NewDecoder, UNCHANGED <<turn, sent, scan>>
    PROVE  StreamInv'
<1>1. turn' \in Turns /\ sent' \in 0 .. TurnLength(turn') - 1
  BY DEF StreamInv
<1>2. decoder' \in DecoderType /\ Revolved(decoder') /\ Unsynced(decoder')
  BY NewDecoderIsLost
<1>3. FollowsAt(decoder', turn', sent')
  BY <1>1, <1>2, LostAt, Zenon
<1> QED
  BY <1>1, <1>3 DEF StreamInv, ScanIsCorrected

LEMMA UntouchedKeeps ==
    ASSUME StreamInv, UNCHANGED <<turn, sent, decoder>>, scan' = scan \/ scan' = <<>>
    PROVE  StreamInv'
  BY DEF StreamInv, ScanIsCorrected

(* Between two reads the decoder has lost its place, carries a packet that *)
(* will not check, or has exactly what was sent of the turn before the     *)
(* place where the device is (decoder.rs, feed_byte and finish_packet).    *)
THEOREM DecoderFollowsTheStream ==
    ASSUME MaxPoints >= 8, Noise \subseteq {"Body"}
    PROVE  Spec => []StreamInv
<1>1. Init => StreamInv
  <2> SUFFICES ASSUME Init PROVE StreamInv
    OBVIOUS
  <2>1. turn \in Turns /\ sent \in 0 .. TurnLength(turn) - 1 /\ decoder = NewDecoder /\ scan = <<>>
    BY DEF Init, TurnLength
  <2>2. FollowsAt(decoder, turn, sent)
    BY <2>1, NewDecoderIsLost, LostAt
  <2> QED
    BY <2>1, <2>2 DEF StreamInv, ScanIsCorrected
<1>2. StreamInv /\ [Next]_vars => StreamInv'
  <2> SUFFICES ASSUME StreamInv, [Next]_vars PROVE StreamInv'
    OBVIOUS
  <2>1. CASE ReadChunk
    BY <2>1, ReadKeeps
  <2>2. CASE ReadGlitch
    BY <2>2, GlitchKeeps
  <2>3. CASE PowerUp \/ ProbeFails \/ ReadFails \/ Disable
    <3>1. decoder' = NewDecoder /\ UNCHANGED <<turn, sent, scan>>
      BY <2>3 DEF PowerUp, ProbeFails, ReadFails, Abandon, Disable, deviceVars
    <3> QED
      BY <3>1, RenewedKeeps
  <2>4. CASE Enable \/ ProbeSucceeds \/ ProbeRetried \/ WarmUpSpin \/ WarmUpEnds \/ PublishScan
    <3>1. UNCHANGED <<turn, sent, decoder>> /\ (scan' = scan \/ scan' = <<>>)
      BY <2>4 DEF Enable, ProbeSucceeds, ProbeRetried, WarmUpSpin, WarmUpEnds, PublishScan,
                  deviceVars
    <3> QED
      BY <3>1, UntouchedKeeps
  <2>5. CASE UNCHANGED vars
    <3>1. UNCHANGED <<turn, sent, decoder>> /\ scan' = scan
      BY <2>5 DEF vars, deviceVars
    <3> QED
      BY <3>1, UntouchedKeeps
  <2> QED
    BY <2>1, <2>2, <2>3, <2>4, <2>5 DEF Next
<1> QED
  BY <1>1, <1>2, PTL DEF Spec

--------------------------------------------------------------------------------
(* What a scan tells.                                                      *)

LEMMA MinimumIs ==
    ASSUME NEW S \in SUBSET Nat, S # {}
    PROVE  Min(S) \in S /\ \A y \in S : Min(S) <= y
<1>1. PICK n \in S : \A m \in S : n <= m
  BY LeastNumber
<1> QED
  BY <1>1 DEF Min

LEMMA Measured ==
    ASSUME NEW t \in Turns, NEW i \in 1 .. Samples(t)
    PROVE  MeasuredAt(t, i) \in 0 .. 3 /\ BearingOf(t, i) \in 0 .. 15
<1> DEFINE seen == {d \in NoReturn .. Near : <<BearingOf(t, i), d>> \in t.scene}
<1>1. seen \in SUBSET (0 .. 2) /\ seen \in SUBSET Nat
  BY DEF NoReturn, Near
<1>2. MeasuredAt(t, i) = IF seen = {} THEN 3 ELSE Min(seen)
  BY DEF MeasuredAt, Far
<1> HIDE DEF seen
<1>3. MeasuredAt(t, i) \in 0 .. 3
  <2>1. CASE seen = {}
    BY <1>2, <2>1
  <2>2. CASE seen # {}
    <3>1. Min(seen) \in seen
      BY <1>1, <2>2, MinimumIs, Zenon
    <3>2. Min(seen) \in 0 .. 2
      BY <1>1, <3>1
    <3> QED
      BY <1>2, <2>2, <3>2
  <2> QED
    BY <2>1, <2>2
<1>4. BearingOf(t, i) \in 0 .. 15
  BY LayoutIs, Bearings, TurnsAreSlowOrNot
<1> QED
  BY <1>3, <1>4

TrueAngle(t, i) == Normalise(BearingOf(t, i) + Correction(MeasuredAt(t, i)))

LEMMA CorrectedScan ==
    ASSUME NEW t \in Turns, scan = Correct(AllPoints(t))
    PROVE  /\ DOMAIN scan = 1 .. Samples(t) /\ Len(scan) = Samples(t) /\ scan[1].of = t
           /\ \A i \in 1 .. Samples(t) :
                 /\ scan[i].of = t /\ scan[i].sample = i
                 /\ scan[i].angle = TrueAngle(t, i)
                 /\ scan[i].distance = MeasuredAt(t, i)
<1> DEFINE n == Samples(t)
           points == AllPoints(t)
<1>1. n \in {4, 8}
  BY SamplesAre
<1>2. points = [i \in 1 .. n |-> PointOf(t, i)]
  BY DEF AllPoints, UpTo
<1> HIDE DEF n, points
<1>3. scan = [i \in 1 .. n |->
                 IF points[i].distance = NoReturn THEN points[i]
                 ELSE [points[i] EXCEPT !.angle = Normalise(@ + Correction(points[i].distance))]]
  BY <1>2 DEF Correct, points
<1>4. ASSUME NEW i \in 1 .. n
      PROVE  /\ scan[i].of = t /\ scan[i].sample = i
             /\ scan[i].angle = TrueAngle(t, i)
             /\ scan[i].distance = MeasuredAt(t, i)
  <2>1. points[i] = PointOf(t, i)
    BY <1>2
  <2>2. MeasuredAt(t, i) \in 0 .. 3 /\ BearingOf(t, i) \in 0 .. 15
    BY Measured DEF n
  <2>3. CASE MeasuredAt(t, i) = NoReturn
    <3>1. scan[i] = PointOf(t, i)
      BY <1>3, <2>1, <2>3 DEF PointOf
    <3>2. TrueAngle(t, i) = BearingOf(t, i)
      BY <2>2, <2>3 DEF TrueAngle, Normalise, Correction, NoReturn, Touching, Circle
    <3> QED
      BY <3>1, <3>2 DEF PointOf
  <2>4. CASE MeasuredAt(t, i) # NoReturn
    <3>1. scan[i] = [PointOf(t, i) EXCEPT !.angle = Normalise(@ + Correction(MeasuredAt(t, i)))]
      BY <1>3, <2>1, <2>4 DEF PointOf
    <3> QED
      BY <3>1 DEF PointOf, TrueAngle
  <2> QED
    BY <2>3, <2>4
<1>5. Len(scan) = n /\ DOMAIN scan = 1 .. n /\ 1 \in 1 .. n
  BY <1>1, <1>3
<1> QED
  BY <1>4, <1>5 DEF n

(* Whatever a read returns is one complete turn, each sample at its angle  *)
(* (decoder.rs, finish_packet; driver.rs, read_revolution).                *)
THEOREM EveryScanIsOneTurn ==
    ASSUME MaxPoints >= 8, Noise \subseteq {"Body"}
    PROVE  Spec => []ScanIsOneTurn
<1>1. StreamInv => ScanIsOneTurn
  <2> SUFFICES ASSUME StreamInv, scan # <<>>
               PROVE  LET t == scan[1].of
                      IN /\ Len(scan) = Samples(t)
                         /\ \A i \in DOMAIN scan :
                               /\ scan[i].of = t
                               /\ scan[i].sample = i
                               /\ scan[i].angle = Normalise(BearingOf(t, i) + Correction(MeasuredAt(t, i)))
    BY DEF ScanIsOneTurn
  <2>1. PICK t \in Turns : scan = Correct(AllPoints(t))
    BY DEF StreamInv, ScanIsCorrected
  <2> QED
    BY <2>1, CorrectedScan, Zenon DEF TrueAngle
<1> QED
  BY <1>1, DecoderFollowsTheStream, PTL

(* The obstacle in front is one of the turn.                               *)
LEMMA AheadIs ==
    ASSUME NEW b \in 0 .. 15, NEW c \in {-1, 0}
    PROVE  ((b + c) % 16) \div 2 \in 3 .. 5 <=> (((b + c) - 8) + 2) % 16 < 6
<1>1. CASE b + c = -1
  BY <1>1
<1>2. CASE b + c \in 0 .. 5
  BY <1>2
<1>3. CASE b + c \in 6 .. 15
  BY <1>3
<1> QED
  BY <1>1, <1>2, <1>3

LEMMA FrontSlots ==
    ASSUME NEW slot \in 0 .. 7
    PROVE  /\ (slot + 4) % 8 \in 0 .. 7
           /\ ((slot + 4) % 8) - 4 \in -1 .. 1 <=> (slot + 4) % 8 \in 3 .. 5
  OBVIOUS

LEMMA NearestReturn ==
    ASSUME NEW points, NEW bucket,
           \A i \in DOMAIN points : points[i].distance \in 0 .. 3
    PROVE  (Representative(points, bucket) # 0 /\ Representative(points, bucket) <= 2)
           <=> \E i \in DOMAIN points :
                  points[i].angle \div 2 = bucket /\ points[i].distance \in 1 .. 2
<1> DEFINE valid == ValidReturns(points, bucket)
<1>1. /\ valid \in SUBSET (1 .. 3) /\ valid \in SUBSET Nat
      /\ \A v : v \in valid <=> \E i \in DOMAIN points :
            points[i].angle \div 2 = bucket /\ points[i].distance # 0 /\ points[i].distance = v
  BY DEF ValidReturns, NoReturn
<1>2. Representative(points, bucket) = IF valid = {} THEN 0 ELSE Min(valid)
  BY DEF Representative, NoReturn
<1> HIDE DEF valid
<1>3. valid # {} => Min(valid) \in valid /\ \A y \in valid : Min(valid) <= y
  BY <1>1, MinimumIs
<1>4. (Representative(points, bucket) # 0 /\ Representative(points, bucket) <= 2)
      <=> \E v \in valid : v <= 2
  BY <1>1, <1>2, <1>3
<1>5. (\E v \in valid : v <= 2)
      <=> \E i \in DOMAIN points :
             points[i].angle \div 2 = bucket /\ points[i].distance \in 1 .. 2
  BY <1>1
<1> QED
  BY <1>4, <1>5

LEMMA FrontIsBlocked ==
    ASSUME NEW t \in Turns, scan = Correct(AllPoints(t))
    PROVE  FrontSectorObstacle(CloudOf(scan)) <=> Blocked(t)
<1> DEFINE cloud == CloudOf(scan)
<1>1. /\ DOMAIN scan = 1 .. Samples(t)
      /\ \A i \in 1 .. Samples(t) :
            /\ scan[i].angle = TrueAngle(t, i)
            /\ scan[i].distance = MeasuredAt(t, i)
            /\ MeasuredAt(t, i) \in 0 .. 3 /\ BearingOf(t, i) \in 0 .. 15
  BY CorrectedScan, Measured
<1>2. /\ DOMAIN cloud = 0 .. 7
      /\ \A slot \in 0 .. 7 : cloud[slot] = Representative(scan, (slot + 4) % 8)
  BY DEF CloudOf, Slots, MountingOffset, Circle
<1> HIDE DEF cloud
<1>3. FrontSectorObstacle(cloud)
      <=> \E slot \in 0 .. 7 : /\ ((slot + 4) % 8) - 4 \in -1 .. 1
                               /\ cloud[slot] # 0 /\ cloud[slot] <= 2
  BY <1>2 DEF FrontSectorObstacle, Slots, Circle, HalfSector, NoReturn, Threshold, Near
<1>4. FrontSectorObstacle(cloud)
      <=> \E bucket \in 3 .. 5 : /\ Representative(scan, bucket) # 0
                                 /\ Representative(scan, bucket) <= 2
  <2>1. ASSUME NEW slot \in 0 .. 7, ((slot + 4) % 8) - 4 \in -1 .. 1,
               cloud[slot] # 0, cloud[slot] <= 2
        PROVE  \E bucket \in 3 .. 5 : /\ Representative(scan, bucket) # 0
                                      /\ Representative(scan, bucket) <= 2
    BY <1>2, <2>1, FrontSlots, Zenon
  <2>2. ASSUME NEW bucket \in 3 .. 5,
               Representative(scan, bucket) # 0, Representative(scan, bucket) <= 2
        PROVE  \E slot \in 0 .. 7 : /\ ((slot + 4) % 8) - 4 \in -1 .. 1
                                    /\ cloud[slot] # 0 /\ cloud[slot] <= 2
    <3> DEFINE slot == (bucket + 4) % 8
    <3>1. slot \in 0 .. 7 /\ (slot + 4) % 8 = bucket /\ ((slot + 4) % 8) - 4 \in -1 .. 1
      OBVIOUS
    <3> HIDE DEF slot
    <3> QED
      BY <1>2, <2>2, <3>1
  <2> QED
    BY <1>3, <2>1, <2>2
<1>5. \A bucket :
        (Representative(scan, bucket) # 0 /\ Representative(scan, bucket) <= 2)
        <=> \E i \in 1 .. Samples(t) :
               scan[i].angle \div 2 = bucket /\ scan[i].distance \in 1 .. 2
  BY <1>1, NearestReturn, Zenon
<1>6. FrontSectorObstacle(cloud)
      <=> \E i \in 1 .. Samples(t) :
             TrueAngle(t, i) \div 2 \in 3 .. 5 /\ MeasuredAt(t, i) \in 1 .. 2
  BY <1>1, <1>4, <1>5
<1>7. ASSUME NEW i \in 1 .. Samples(t)
      PROVE  TrueAngle(t, i) \div 2 \in 3 .. 5
             <=> Normalise(((BearingOf(t, i) + Correction(MeasuredAt(t, i)))
                            - Circle \div 2) + 2 * HalfSector)
                 < 2 * (2 * HalfSector + 1)
  <2> DEFINE b == BearingOf(t, i)
             c == Correction(MeasuredAt(t, i))
  <2>1. b \in 0 .. 15 /\ c \in {-1, 0}
    BY <1>1 DEF Correction
  <2> HIDE DEF b, c
  <2>2. ((b + c) % 16) \div 2 \in 3 .. 5 <=> (((b + c) - 8) + 2) % 16 < 6
    BY <2>1, AheadIs
  <2> QED
    BY <2>1, <2>2 DEF TrueAngle, Normalise, Circle, HalfSector, b, c
<1>8. Blocked(t)
      <=> \E i \in 1 .. Samples(t) :
             TrueAngle(t, i) \div 2 \in 3 .. 5 /\ MeasuredAt(t, i) \in 1 .. 2
  BY <1>7 DEF Blocked, Touching, Threshold, Near
<1> QED
  BY <1>6, <1>8 DEF cloud

(* The edge tracker of the stream holds the flag as it stands.             *)
TrackerHoldsTheFlag ==
    /\ obstacle \in BOOLEAN
    /\ phase = "stream" => lastObstacle = {obstacle}

LEMMA TrackerFollowsTheFlag == Spec => []TrackerHoldsTheFlag
<1>1. Init => TrackerHoldsTheFlag
  BY DEF Init, TrackerHoldsTheFlag
<1>2. TrackerHoldsTheFlag /\ [Next]_vars => TrackerHoldsTheFlag'
  <2> SUFFICES ASSUME TrackerHoldsTheFlag, [Next]_vars PROVE TrackerHoldsTheFlag'
    OBVIOUS
  <2> USE DEF TrackerHoldsTheFlag, flagVars
  <2>1. CASE Enable \/ PowerUp \/ ProbeSucceeds \/ ProbeFails \/ ReadFails \/ Disable
    <3>1. phase' # "stream" /\ obstacle' \in {obstacle, FALSE}
      BY <2>1 DEF Enable, PowerUp, ProbeSucceeds, ProbeFails, ReadFails, Abandon, Disable
    <3> QED
      BY <3>1
  <2>2. CASE ProbeRetried \/ ReadChunk \/ ReadGlitch \/ WarmUpSpin
    <3>1. UNCHANGED <<phase, obstacle, lastObstacle>>
      BY <2>2 DEF ProbeRetried, ReadChunk, ReadGlitch, WarmUpSpin
    <3> QED
      BY <3>1
  <2>3. CASE WarmUpEnds
    BY <2>3 DEF WarmUpEnds, Seed
  <2>4. CASE PublishScan
    <3> DEFINE detected == FrontSectorObstacle(CloudOf(scan))
    <3>1. /\ obstacle' = IF lastObstacle # {detected} THEN detected ELSE obstacle
          /\ lastObstacle' = {detected} /\ phase = "stream" /\ phase' = phase
      BY <2>4 DEF PublishScan
    <3>2. detected \in BOOLEAN
      BY DEF FrontSectorObstacle
    <3> HIDE DEF detected
    <3>3. obstacle' = detected
      BY <3>1
    <3> QED
      BY <3>1, <3>2, <3>3
  <2>5. CASE UNCHANGED vars
    BY <2>5 DEF vars
  <2> QED
    BY <2>1, <2>2, <2>3, <2>4, <2>5 DEF Next
<1> QED
  BY <1>1, <1>2, PTL DEF Spec

(* A published scan leaves the flag saying whether the front sector was    *)
(* blocked in its turn, the first one after a warm-up included             *)
(* (lidar.rs, publish_scan; front_sector_obstacle of the cloud).           *)
THEOREM TheFlagTellsTheTurn ==
    ASSUME MaxPoints >= 8, Noise \subseteq {"Body"}
    PROVE  Spec => FlagTellsTheTurn
<1>1. StreamInv /\ TrackerHoldsTheFlag /\ [Next]_vars
      => [PublishScan => obstacle' = Blocked(scan[1].of)]_vars
  <2> SUFFICES ASSUME StreamInv, TrackerHoldsTheFlag, PublishScan
               PROVE  obstacle' = Blocked(scan[1].of)
    OBVIOUS
  <2> DEFINE detected == FrontSectorObstacle(CloudOf(scan))
  <2>1. /\ scan # <<>> /\ phase = "stream"
        /\ obstacle' = IF lastObstacle # {detected} THEN detected ELSE obstacle
    BY DEF PublishScan
  <2>2. PICK t \in Turns : scan = Correct(AllPoints(t))
    BY <2>1 DEF StreamInv, ScanIsCorrected
  <2>3. scan[1].of = t
    BY <2>2, CorrectedScan
  <2>4. detected <=> Blocked(t)
    BY <2>2, FrontIsBlocked, Zenon
  <2>5. detected \in BOOLEAN /\ Blocked(t) \in BOOLEAN
    BY DEF FrontSectorObstacle, Blocked
  <2> HIDE DEF detected
  <2>6. obstacle' = detected
    BY <2>1 DEF TrackerHoldsTheFlag
  <2>7. detected = Blocked(t)
    BY <2>4, <2>5
  <2> QED
    BY <2>3, <2>6, <2>7, Zenon
<1>2. Spec => [][Next]_vars
  BY PTL DEF Spec
<1> QED
  BY <1>1, <1>2, DecoderFollowsTheStream, TrackerFollowsTheFlag, PTL DEF FlagTellsTheTurn

================================================================================
