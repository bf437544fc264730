------------------------------- MODULE LidarScan -------------------------------
(***************************************************************************)
(* From the bytes of the LiDAR to the obstacle flag: the packet decoder    *)
(* and the driver of the coin-d6 crate, its reduction by angle, the cloud  *)
(* of the lidar-cloud crate and the task that publishes it.                *)
(*                                                                         *)
(* The rotating head sends turns, a turn is sent as packets, a packet as   *)
(* tokens: the two bytes of the header, one token for the eight bytes of   *)
(* the preamble and one for the three bytes of each sample. Reads cut this *)
(* stream anywhere. Bytes may be lost, which the UART reports, or changed, *)
(* which it does not. The samples of a packet may look like a header.      *)
(*                                                                         *)
(* Angles count half slots of the cloud. A checksum is taken to match the  *)
(* packet it was sent with and no other run of tokens.                     *)
(***************************************************************************)
EXTENDS Integers, Sequences, FiniteSetsExt

CONSTANTS Chunks,          \* the numbers of tokens a read may return
          Watchdog,        \* RING_START_WATCHDOG_BYTES
          ProbeRetries,    \* DEVICE_INFO_RETRIES
          MaxPoints,       \* MAX_POINTS
          MaxSpins,        \* WarmupConfig::max_spins
          StableSpins,     \* WarmupConfig::settle_stable_spins
          Noise            \* the parts of a packet noise may change

ASSUME ScanAssumption ==
    /\ Chunks \subseteq Nat \ {0} /\ Chunks # {}
    /\ {Watchdog, ProbeRetries, MaxPoints, MaxSpins, StableSpins} \subseteq Nat
    /\ Noise \subseteq {"Header", "Body"}

Ingest == Max(Chunks)

(* The device. A turn at full speed has 8 samples, a slow one 4; each      *)
(* starts where its ring-start packet happens to land. The scene before    *)
(* the sensor changes with every turn, so that neighbouring turns differ;  *)
(* what it does not list is far.                                           *)
Circle == 16
NativePoints == 8
NoReturn == 0
Touching == 1       \* near enough for the angle correction to matter
Near == 2           \* at the threshold of an obstacle
Far == 3

Clear == {<<14, Touching>>, <<6, Touching>>, <<13, Near>>, <<8, NoReturn>>}
Obstructed == {<<12, Touching>>, <<9, Near>>}
Turns == [scene : {Clear, Obstructed}, slow : BOOLEAN]

Layout(t) == IF t.slow THEN <<1, 3>> ELSE <<1, 4, 3>>
Samples(t) == IF t.slow THEN 4 ELSE 8
BearingOf(t, s) == IF t.slow THEN (9 + 4 * (s - 1)) % Circle
                             ELSE (12 + 2 * (s - 1)) % Circle
MeasuredAt(t, s) ==
    LET seen == {d \in NoReturn .. Near : <<BearingOf(t, s), d>> \in t.scene}
    IN IF seen = {} THEN Far ELSE Min(seen)

(* Packet k of a turn: its first sample, and its tokens.                   *)
First(t, k) == IF k = 1 THEN 1 ELSE IF k = 2 THEN 2 ELSE 6
Packet(t, k) == [i \in 1 .. Layout(t)[k] + 3 |-> [of |-> t, packet |-> k, item |-> i]]
Stream == [t \in Turns |-> Packet(t, 1) \o Packet(t, 2)
                           \o (IF t.slow THEN <<>> ELSE Packet(t, 3))]

(* A read is shorter than a turn, so that it reaches into one more at most. *)
ASSUME ChunkAssumption == \A n \in Chunks : \A t \in Turns : n <= Len(Stream[t])

(* What a token looks like to a decoder in search of a header: the last    *)
(* packet of a turn begins with two samples that look like one.            *)
IsMimic(token) == token.packet > 1 /\ token.packet = Len(Layout(token.of))
LooksLike(token) ==
    CASE token.packet > 0 /\ (token.item = 1 \/ (token.item = 4 /\ IsMimic(token))) -> "H0"
      [] token.packet > 0 /\ (token.item = 2 \/ (token.item = 5 /\ IsMimic(token))) -> "H1"
      [] OTHER -> "-"

(* A changed token. As a preamble it announces some number of samples.     *)
Lengths(token) == IF token.item = 3 THEN {0, 4} ELSE {0}
Changed(token, lsn) == [token EXCEPT !.packet = 0, !.item = lsn]
Announced(token) ==
    CASE token.packet = 0 -> token.item
      [] token.packet > 0 /\ token.item = 3 -> Layout(token.of)[token.packet]
      [] OTHER -> 2

VARIABLES
    phase,          \* "off", "down", "probe", "warmup" or "stream"
    turn,           \* the turn the head is sending
    sent,           \* how many of its tokens have gone over the wire
    retries,        \* of the device-info probe
    consumed,       \* bytes since the current read began
    decoder,        \* Decoder
    scan,           \* the revolution a read has returned, until it is used
    warmup,         \* Warmup
    obstacle,       \* the obstacle flag of the perception state
    lastObstacle    \* last_obstacle: an Option, as a set of at most one

deviceVars == <<turn, sent>>
flagVars == <<obstacle, lastObstacle>>
vars == <<phase, deviceVars, retries, consumed, decoder, scan, warmup, flagVars>>

NewDecoder == [framed |-> FALSE, carry |-> <<>>, seenHeader0 |-> FALSE,
               points |-> <<>>, synchronized |-> FALSE,
               revolution |-> <<>>]
NewWarmup == [spin |-> 0, inBand |-> 0, ceiling |-> 0, flat |-> 0]

Init ==
    /\ phase = "off"
    /\ turn \in Turns
    /\ sent = 0
    /\ retries = 0
    /\ consumed = 0
    /\ decoder = NewDecoder
    /\ scan = <<>>
    /\ warmup = NewWarmup
    /\ obstacle = FALSE
    /\ lastObstacle = {}

(***************************************************************************)
(* The decoder.                                                            *)
(***************************************************************************)

(* Decoder::resync, after lost bytes.                                      *)
Resync(d) == [NewDecoder EXCEPT !.revolution = d.revolution]

(* A checksum mismatch also discards the revolution and its ring-start.    *)
DiscardPoints(d) == [d EXCEPT !.points = <<>>]
Discard(d) == [d EXCEPT !.points = <<>>, !.synchronized = FALSE]

(* The points of a packet, each at an angle interpolated between the first *)
(* and the last; a packet that crosses 0 ends at a smaller angle.          *)
PacketPoints(t, k) ==
    LET lsn == Layout(t)[k]
        fsa == BearingOf(t, First(t, k))
        lsa == BearingOf(t, First(t, k) + lsn - 1)
        end == IF lsa < fsa THEN lsa + Circle ELSE lsa
        step == IF lsn > 1 THEN (end - fsa) \div (lsn - 1) ELSE 0
    IN [i \in 1 .. lsn |->
           [of |-> t, sample |-> First(t, k) + i - 1,
            angle |-> (fsa + (i - 1) * step) % Circle,
            distance |-> MeasuredAt(t, First(t, k) + i - 1)]]

Intact(carry) ==
    LET t == carry[1].of
        k == carry[1].packet
    IN k > 0 /\ carry = SubSeq(Packet(t, k), 3, Len(Packet(t, k)))

(* finish_packet: a ring-start (the first packet of a turn) closes the     *)
(* revolution if one is under way, and opens the next.                     *)
Finish(d) ==
    LET t == d.carry[1].of
        k == d.carry[1].packet
        ringStart == k = 1
        synchronized == ringStart \/ d.synchronized
        points == (IF ringStart THEN <<>> ELSE d.points) \o PacketPoints(t, k)
    IN IF ~Intact(d.carry) THEN Discard(d)
       ELSE [d EXCEPT !.synchronized = synchronized,
                      !.points = IF synchronized
                                   THEN SubSeq(points, 1, Min({MaxPoints, Len(points)}))
                                   ELSE @,
                      !.revolution = IF ringStart /\ d.synchronized /\ d.points # <<>>
                                       THEN d.points ELSE @]

(* feed_byte. `revolution' is the last one completed in a call of push:    *)
(* Decode::Revolution, and the caller's scan.                              *)
Search(d, token) ==
    CASE LooksLike(token) = "H0" -> [d EXCEPT !.seenHeader0 = TRUE]
      [] LooksLike(token) = "H1" -> [d EXCEPT !.framed = @ \/ d.seenHeader0,
                                              !.seenHeader0 = FALSE]
      [] OTHER -> [d EXCEPT !.seenHeader0 = FALSE]

Feed(d, token) ==
    LET taken == [d EXCEPT !.carry = Append(@, token)]
    IN IF ~d.framed THEN Search(d, token)
       ELSE IF Len(taken.carry) < 1 + Announced(taken.carry[1]) THEN taken
       ELSE [Finish(taken) EXCEPT !.framed = FALSE, !.carry = <<>>, !.seenHeader0 = FALSE]

(* push, as the set of the one decoder it leads to.                        *)
Push(tokens) ==
    LET fed[i \in 0 .. Len(tokens)] ==
            IF i = 0 THEN {decoder} ELSE {Feed(d, tokens[i]) : d \in fed[i - 1]}
    IN fed[Len(tokens)]

(***************************************************************************)
(* Reductions of a scan.                                                   *)
(***************************************************************************)
Slots == Circle \div 2
MountingOffset == Slots \div 2
HalfSector == 1
Threshold == Near
Normalise(angle) == angle % Circle

(* CoinD6::correct: each return is turned by a correction that depends on  *)
(* its distance.                                                           *)
Correction(distance) == IF distance = Touching THEN -1 ELSE 0
Correct(points) ==
    [i \in DOMAIN points |->
        IF points[i].distance = NoReturn THEN points[i]
        ELSE [points[i] EXCEPT !.angle = Normalise(@ + Correction(points[i].distance))]]

(* aggregate, over one revolution: the nearest valid return of a bucket.   *)
ValidReturns(points, bucket) ==
    {points[i].distance : i \in {j \in DOMAIN points :
        /\ points[j].angle \div 2 = bucket
        /\ points[j].distance # NoReturn}}
FarthestReturn(points, bucket) ==
    LET valid == ValidReturns(points, bucket)
    IN IF valid = {} THEN NoReturn ELSE Max(valid)
Representative(points, bucket) ==
    LET valid == ValidReturns(points, bucket)
    IN IF valid = {} THEN NoReturn ELSE Min(valid)

(* Cloud::from_reduction turns the grid by the mounting offset, and        *)
(* front_sector_obstacle looks at the slots about slot 0.                  *)
CloudOf(points) ==
    [slot \in 0 .. Slots - 1 |-> Representative(points, (slot + MountingOffset) % Slots)]
FrontSectorObstacle(cloud) ==
    \E slot \in DOMAIN cloud :
        LET offset == ((slot + Slots \div 2) % Slots) - (Slots \div 2)
        IN /\ offset \in -HalfSector .. HalfSector
           /\ cloud[slot] # NoReturn
           /\ cloud[slot] <= Threshold

(***************************************************************************)
(* The driver and the task.                                                *)
(***************************************************************************)
Reading == phase \in {"warmup", "stream"} /\ scan = <<>>

Enable ==
    /\ phase = "off"
    /\ phase' = "down"
    /\ UNCHANGED <<deviceVars, retries, consumed, decoder, scan, warmup, flagVars>>

(* power_up builds a new driver, with a new decoder.                       *)
PowerUp ==
    /\ phase = "down"
    /\ phase' = "probe"
    /\ retries' = ProbeRetries
    /\ consumed' = 0
    /\ decoder' = NewDecoder
    /\ warmup' = NewWarmup
    /\ UNCHANGED <<deviceVars, scan, flagVars>>

(* The end of a powered period that is not asked for: the driver and what  *)
(* it holds are dropped, the obstacle flag stays.                          *)
Abandon ==
    /\ phase' = "down"
    /\ retries' = 0
    /\ consumed' = 0
    /\ decoder' = NewDecoder
    /\ warmup' = NewWarmup
    /\ UNCHANGED <<deviceVars, scan, flagVars>>

(* read_device_info: a glitch or a malformed frame is tried again.         *)
ProbeSucceeds ==
    /\ phase = "probe"
    /\ phase' = "warmup"
    /\ retries' = 0
    /\ UNCHANGED <<deviceVars, consumed, decoder, scan, warmup, flagVars>>

ProbeRetried ==
    /\ phase = "probe"
    /\ retries > 0
    /\ retries' = retries - 1
    /\ UNCHANGED <<phase, deviceVars, consumed, decoder, scan, warmup, flagVars>>

ProbeFails == phase = "probe" /\ Abandon

(* The next n tokens of the stream leave the device, the turn that follows *)
(* being any one.                                                          *)
Following == {t \in Turns : t.scene # turn.scene}
Sends(n, next) ==
    LET left == Len(Stream[turn]) - sent
    IN IF n < left THEN next = turn /\ turn' = turn /\ sent' = sent + n
                   ELSE next \in Following /\ turn' = next /\ sent' = n - left
Successors(n) == IF n < Len(Stream[turn]) - sent THEN {turn} ELSE Following
Chunk(n, next) ==
    SubSeq(Stream[turn] \o Stream[next], sent + 1, sent + n)

Noisy(tokens) ==
    {tokens} \union
    UNION {{[tokens EXCEPT ![i] = Changed(@, lsn)] : lsn \in Lengths(tokens[i])} :
           i \in {j \in DOMAIN tokens :
                     (IF tokens[j].item < 3 THEN "Header" ELSE "Body") \in Noise}}

(* One turn of read_revolution: the chunk is decoded; without a revolution *)
(* in it the watchdog counts.                                              *)
ReadChunk ==
    /\ Reading
    /\ \E n \in Chunks : \E next \in Successors(n) : \E tokens \in Noisy(Chunk(n, next)) :
       \E after \in Push(tokens) :
          /\ Sends(n, next)
          /\ IF after.revolution # <<>>
               THEN /\ scan' = Correct(after.revolution)
                    /\ decoder' = [after EXCEPT !.revolution = <<>>]
                    /\ consumed' = 0
               ELSE /\ consumed + n <= Watchdog
                    /\ scan' = <<>>
                    /\ decoder' = after
                    /\ consumed' = consumed + n
    /\ UNCHANGED <<phase, retries, warmup, flagVars>>

(* The UART reports that bytes were lost.                                  *)
GlitchUncounted == consumed
AfterGlitch == consumed + Ingest
ReadGlitch ==
    /\ Reading
    /\ AfterGlitch <= Watchdog
    /\ \E n \in Chunks : \E next \in Successors(n) : Sends(n, next)
    /\ decoder' = Resync(decoder)
    /\ consumed' = AfterGlitch
    /\ UNCHANGED <<phase, retries, scan, warmup, flagVars>>

(* The watchdog has counted enough, or the wall clock around the read ran  *)
(* out while the link was silent.                                          *)
ReadFails ==
    /\ Reading
    /\ Abandon

(* Warmup::observe.                                                        *)
Observed(points) ==
    LET higher == points > warmup.ceiling
    IN [spin |-> warmup.spin + 1,
        inBand |-> IF points \in NativePoints - 1 .. NativePoints + 1
                     THEN warmup.inBand + 1 ELSE 0,
        ceiling |-> IF higher THEN points ELSE warmup.ceiling,
        flat |-> IF higher THEN 0 ELSE warmup.flat + 1]
Settled(w) == w.inBand >= StableSpins
Plateaued(w) == w.flat >= StableSpins /\ w.ceiling < NativePoints - 1
Exhausted(w) == w.spin >= MaxSpins

WarmUpSpin ==
    /\ phase = "warmup"
    /\ scan # <<>>
    /\ scan' = <<>>
    /\ LET w == Observed(Len(scan))
       IN ~(Settled(w) \/ Plateaued(w) \/ Exhausted(w)) /\ warmup' = w
    /\ UNCHANGED <<phase, deviceVars, retries, consumed, decoder, flagVars>>

(* The edge tracker is seeded with the flag as it stands.                  *)
Seed == {obstacle}
WarmUpEnds ==
    /\ phase = "warmup"
    /\ scan # <<>>
    /\ LET w == Observed(Len(scan))
       IN Settled(w) \/ Plateaued(w) \/ Exhausted(w)
    /\ phase' = "stream"
    /\ scan' = <<>>
    /\ warmup' = NewWarmup
    /\ lastObstacle' = Seed
    /\ UNCHANGED <<deviceVars, retries, consumed, decoder, obstacle>>

(* publish_scan: the flag is written on an edge.                           *)
PublishScan ==
    /\ phase = "stream"
    /\ scan # <<>>
    /\ LET detected == FrontSectorObstacle(CloudOf(scan))
       IN /\ obstacle' = IF lastObstacle # {detected} THEN detected ELSE obstacle
          /\ lastObstacle' = {detected}
    /\ scan' = <<>>
    /\ UNCHANGED <<phase, deviceVars, retries, consumed, decoder, warmup>>

(* A disable is looked for between two reads.                              *)
Disable ==
    /\ phase = "stream"
    /\ scan = <<>>
    /\ consumed = 0
    /\ phase' = "off"
    /\ decoder' = NewDecoder
    /\ obstacle' = FALSE
    /\ lastObstacle' = {}
    /\ UNCHANGED <<deviceVars, retries, consumed, scan, warmup>>

Next ==
    \/ Enable \/ PowerUp
    \/ ProbeSucceeds \/ ProbeRetried \/ ProbeFails
    \/ ReadChunk \/ ReadGlitch \/ ReadFails
    \/ WarmUpSpin \/ WarmUpEnds \/ PublishScan
    \/ Disable

Spec == Init /\ [][Next]_vars

(* The task goes on while its driver has something to do: bytes, an error  *)
(* or the end of the wall clock. The wall clock is no guard of its own: it *)
(* is looked at only when a read has to wait, which one that fails at once *)
(* never does.                                                             *)
TaskStep == ProbeSucceeds \/ ProbeRetried \/ ProbeFails \/ ReadFails \/ ReadGlitch
            \/ ReadChunk \/ WarmUpSpin \/ WarmUpEnds \/ PublishScan
FairSpec == Spec /\ WF_vars(TaskStep)

--------------------------------------------------------------------------------

(* The scan a read returns is one complete turn of the head: every sample  *)
(* of it, in order, at the angle it was taken (turned by its correction),  *)
(* however the reads cut the stream, whatever was lost or, in the body of  *)
(* a packet, changed (decoder.rs, read_revolution).                        *)
ScanIsOneTurn ==
    scan # <<>> =>
        LET t == scan[1].of
        IN /\ Len(scan) = Samples(t)
           /\ \A i \in DOMAIN scan :
                 /\ scan[i].of = t
                 /\ scan[i].sample = i
                 /\ scan[i].angle = Normalise(BearingOf(t, i) + Correction(MeasuredAt(t, i)))

(* What stands before the robot: a sample of the turn no farther than the  *)
(* threshold whose bearing, seen from the front of the robot, lies in the  *)
(* slots of the front sector.                                              *)
Blocked(t) ==
    \E i \in 1 .. Samples(t) :
        LET bearing == BearingOf(t, i) + Correction(MeasuredAt(t, i))
            ahead == Normalise(bearing - Circle \div 2 + 2 * HalfSector)
        IN /\ MeasuredAt(t, i) \in Touching .. Threshold
           /\ ahead < 2 * (2 * HalfSector + 1)

(* Once a scan is published the obstacle flag says whether the front       *)
(* sector was blocked during the turn it was taken from, also for the      *)
(* first scan after a restart, which finds the flag of the time before     *)
(* (aggregate, from_reduction, front_sector_obstacle, publish_scan).       *)
FlagTellsTheTurn == [][PublishScan => obstacle' = Blocked(scan[1].of)]_vars

(* No read goes on for ever, and so no bring-up does: also a link that     *)
(* only reports errors, or never sends a ring-start, runs into a bound     *)
(* (driver.rs, the byte watchdog, the retries and the spin budget).        *)
ReadsEnd ==
    /\ consumed > 0 ~> consumed = 0
    /\ phase \in {"probe", "warmup"} ~> phase \notin {"probe", "warmup"}
================================================================================
