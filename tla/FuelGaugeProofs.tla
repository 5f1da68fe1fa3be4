-------------------------- MODULE FuelGaugeProofs ---------------------------
(***************************************************************************)
(* Proofs about FuelGauge, for all register values: the conversion of the  *)
(* current, that the poll announces nothing that has not happened, what a  *)
(* desktop that is up to date shows, and the types.                        *)
(***************************************************************************)
EXTENDS FuelGauge, TLAPS

USE DEF gauge

(***************************************************************************)
(* The conversion.  Whole amps are 2048 units, a unit 15625/32 microamps;  *)
(* rounding the fraction down rounds the sum down.                         *)
(***************************************************************************)
LEMMA Split ==
    ASSUME NEW raw \in Nat
    PROVE  raw % 8192 = 2048 * ((raw \div 2048) % 4) + (raw % 2048)
  <1>1. PICK q \in Nat : q = raw \div 8192 /\ raw = 8192 * q + (raw % 8192)
    BY SMTT(90)
  <1>2. PICK k \in Nat : k = raw \div 2048 /\ raw = 2048 * k + (raw % 2048)
    BY SMTT(90)
  <1>3. raw % 8192 \in 0..8191 /\ raw % 2048 \in 0..2047
    BY SMTT(90)
  <1>4. k = 4 * (k \div 4) + (k % 4) /\ k % 4 \in 0..3 /\ k \div 4 \in Nat
    BY <1>2, SMTT(90)
  <1> DEFINE low == raw % 8192   fine == raw % 2048   top == k \div 4   amp == k % 4
  <1> HIDE DEF low, fine, top, amp
  <1>5. /\ low \in 0..8191 /\ fine \in 0..2047 /\ amp \in 0..3 /\ top \in Nat
        /\ raw = 8192 * q + low /\ raw = 8192 * top + 2048 * amp + fine
    BY <1>1, <1>2, <1>3, <1>4, SMTT(90) DEF low, fine, top, amp
  <1>6. q = top
    BY <1>1, <1>5, SMTT(90)
  <1>7. QED BY <1>2, <1>5, <1>6, SMTT(90) DEF low, fine, amp

\* The fields of the register, for the lemma below.
LEMMA Fields ==
    ASSUME NEW raw \in Nat
    PROVE  /\ raw % 2048 \in Nat /\ raw % 2048 <= 2047
           /\ (raw \div 2048) % 4 \in Nat
  <1>1. raw % 2048 \in 0..2047 /\ raw \div 2048 \in Nat
    BY SMTT(90)
  <1>2. ASSUME NEW n \in Nat PROVE n % 4 \in Nat
    BY SMTT(90)
  <1>3. QED BY <1>1, <1>2

\* Rounding down a fraction of 2048ths of a million.
LEMMA Rounded ==
    ASSUME NEW frac \in Nat, NEW part, part = (frac * 1000000) \div 2048
    PROVE  part \in Nat /\ 32 * part <= 15625 * frac /\ 15625 * frac < 32 * (part + 1)
  <1>1. ASSUME NEW n \in Nat
        PROVE  /\ n \div 2048 \in Nat
               /\ 2048 * (n \div 2048) <= n /\ n < 2048 * ((n \div 2048) + 1)
    BY SMTT(90)
  <1>2. frac * 1000000 \in Nat
    BY SMTT(90)
  <1>3. part \in Nat /\ 2048 * part <= frac * 1000000 /\ frac * 1000000 < 2048 * (part + 1)
    BY <1>1, <1>2
  <1>4. QED BY <1>3, SMTT(90)

LEMMA Converted ==
    ASSUME NEW raw \in Words PROVE DecodedRight(raw)
  <1> DEFINE amps == (raw \div 2048) % 4
             frac == raw % 2048
             part == (frac * 1000000) \div 2048
             ua   == amps * 1000000 + part
  <1>0. raw \in Nat
    BY SMTT(90) DEF Words
  <1>1. amps \in Nat /\ frac \in Nat
    BY <1>0, Fields
  <1>2. part \in Nat /\ 32 * part <= 15625 * frac /\ 15625 * frac < 32 * (part + 1)
    BY <1>1, Rounded
  <1>3. raw % 8192 = 2048 * amps + frac
    BY <1>0, Split
  <1>4. sm5705_fg_decode_current_ua(raw) = IF raw >= 32768 THEN -ua ELSE ua
    BY SMTT(90) DEF sm5705_fg_decode_current_ua
  <1> HIDE DEF amps, frac, part
  <1>5. 32 * ua <= 15625 * (raw % 8192) /\ 15625 * (raw % 8192) < 32 * (ua + 1)
    BY <1>1, <1>2, <1>3, SMTT(90)
  <1>6. ua \in Nat
    BY <1>1, <1>2, SMTT(90)
  <1> HIDE DEF ua
  <1>7. QED BY <1>0, <1>4, <1>5, <1>6, SMTT(90) DEF DecodedRight
-----------------------------------------------------------------------------
(***************************************************************************)
(* The registers keep their range.                                         *)
(***************************************************************************)
RangeInv == current \in Words

LEMMA RangeStep == RangeInv /\ [Next]_vars => RangeInv'
  <1> SUFFICES ASSUME RangeInv, [Next]_vars PROVE RangeInv'
    OBVIOUS
  <1>1. ASSUME NEW c \in Currents, NEW s \in Charges, Move(c, s) PROVE RangeInv'
    <2>1. current' = c
      BY <1>1 DEF Move
    <2>2. QED BY <1>1, <2>1, RegisterAssumption DEF RangeInv
  <1>2. ASSUME UNCHANGED gauge PROVE RangeInv'
    BY <1>2 DEF RangeInv
  <1>3. CASE Poll \/ DesktopReads
    BY <1>2, <1>3 DEF Poll, DesktopReads
  <1>4. ASSUME NEW r \in Readers, Reading(r) PROVE RangeInv'
    BY <1>2, <1>4 DEF Reading, ReadCurrent, ReadSoc, ReadFails
  <1>5. CASE UNCHANGED vars
    BY <1>2, <1>5 DEF vars
  <1>6. QED BY <1>1, <1>3, <1>4, <1>5 DEF Next

\* The decoded current is sign and magnitude, rounded down, for every value of the
\* register (sm5705_fg_decode_current_ua, sm5705_fuelgauge.c:108-117).
THEOREM DecodeCorrect == Spec => []DecodeRight
  <1>1. Init => RangeInv
    BY RegisterAssumption DEF Init, RangeInv
  <1>2. RangeInv => DecodeRight
    BY Converted, Zenon DEF RangeInv, DecodeRight
  <1>3. QED BY <1>1, <1>2, RangeStep, PTL DEF Spec
-----------------------------------------------------------------------------
(***************************************************************************)
(* Until the status moves, last_status is the status, and a poll that has  *)
(* read a current at rest goes on to read the charge that made it so.      *)
(***************************************************************************)
NewsInv ==
    /\ at \in [Readers -> {"idle", "current", "soc"}]
    /\ ~bound => at["poll"] = "idle"
    /\ bound => at["probe"] = "idle"
    /\ bound /\ ~moved /\ last_status # "Unknown" => last_status = Status
    /\ bound /\ ~moved /\ at["poll"] = "soc" => Flow(current) = "still"
    /\ ~bound => last_status = "Unknown"

\* What is at rest cannot look otherwise, nor the other way round.
LEMMA AtRestIs ==
    ASSUME NEW raw PROVE AtRestStatus(raw) \in {"Full", "Not charging"}
  BY DEF AtRestStatus

LEMMA FlowIs ==
    ASSUME NEW raw PROVE Flow(raw) \in {"Charging", "Discharging", "still"}
  BY Zenon DEF Flow

LEMMA NewsStep == NewsInv /\ [Next]_vars => NewsInv'
  <1> SUFFICES ASSUME NewsInv, [Next]_vars PROVE NewsInv'
    OBVIOUS
  <1>1. ASSUME NEW c \in Currents, NEW s \in Charges, Move(c, s) PROVE NewsInv'
    <2>1. UNCHANGED <<at, bound, last_status>>
      BY <1>1 DEF Move
    <2>2. moved' = (moved \/ Status' # Status)
      BY <1>1 DEF Move
    <2>3. ASSUME Status' = Status, Flow(current) = "still"
          PROVE  Flow(current)' = "still"
      <3>1. Status = AtRestStatus(soc)
        BY <2>3 DEF Status
      <3>2. Flow(current)' # "still" => Status' = Flow(current)'
        BY DEF Status
      <3>3. Flow(current)' \in {"Charging", "Discharging", "still"}
        BY FlowIs
      <3>4. Status \in {"Full", "Not charging"}
        BY <3>1, AtRestIs
      <3>5. QED BY <2>3, <3>2, <3>3, <3>4
    <2>4. ~moved' => ~moved /\ Status' = Status
      BY <2>2
    <2>5. QED BY <2>1, <2>3, <2>4 DEF NewsInv
  <1>2. CASE Poll \/ DesktopReads
    BY <1>2 DEF NewsInv, Poll, DesktopReads, Readers, Status
  <1>3. ASSUME NEW r \in Readers, ReadCurrent(r) PROVE NewsInv'
    BY <1>3 DEF NewsInv, ReadCurrent, Leave, Result, IsNews, Readers, Status
  <1>4. ASSUME NEW r \in Readers, ReadSoc(r) PROVE NewsInv'
    <2> DEFINE s == AtRestStatus(soc)
    <2>1. at' = [at EXCEPT ![r] = "idle"] /\ at[r] = "soc" /\ Result(r, s)
          /\ Status' = Status /\ Flow(current)' = Flow(current)
      BY <1>4 DEF ReadSoc, Leave, Status
    <2> HIDE DEF s
    <2>2. CASE r = "probe"
      BY <1>4, <2>1, <2>2 DEF NewsInv, Result, Readers
    <2>3. CASE r = "poll"
      BY <1>4, <2>1, <2>3 DEF NewsInv, Result, IsNews, Readers
    <2>4. CASE r = "desktop"
      BY <1>4, <2>1, <2>4 DEF NewsInv, Result, Readers
    <2>5. QED BY <1>4, <2>2, <2>3, <2>4 DEF Readers
  <1>5. ASSUME NEW r \in Readers, ReadFails(r) PROVE NewsInv'
    BY <1>5 DEF NewsInv, ReadFails, Leave, Readers, Status
  <1>6. CASE UNCHANGED vars
    BY <1>6 DEF NewsInv, vars, Status
  <1>7. QED BY <1>1, <1>2, <1>3, <1>4, <1>5, <1>6 DEF Next, Reading

\* Between two settings of last_status that agree the poll is silent, whatever
\* moves between its two reads (sm5705_fg_poll, sm5705_fuelgauge.c:171-185).
THEOREM NoFalseTransition == Spec => OnlyTransitions
  <1>1. Init => NewsInv
    BY DEF Init, NewsInv, Readers
  <1>2. NewsInv /\ Next => (~changed /\ changed' /\ last_status # "Unknown" => moved)
    BY DEF NewsInv, Next, Move, Poll, DesktopReads, Reading, ReadCurrent, ReadSoc,
           ReadFails, Result, IsNews, Status, Readers
  <1>3. NewsInv /\ [Next]_vars
          => [~changed /\ changed' /\ last_status # "Unknown" => moved]_vars
    BY <1>2
  <1>4. QED BY <1>1, <1>3, NewsStep, PTL DEF Spec, OnlyTransitions

\* Every variable keeps its type, the status it announces and shows included.
THEOREM TypeCorrect == Spec => []TypeOK
  <1>1. ASSUME Init PROVE TypeOK
    <2>1. current \in Words /\ soc \in Words
      BY <1>1, RegisterAssumption DEF Init
    <2>2. at \in [Readers -> {"idle", "current", "soc"}]
      BY <1>1 DEF Init
    <2>3. bound \in BOOLEAN /\ changed \in BOOLEAN /\ moved \in BOOLEAN /\ missed \in BOOLEAN
      <3>1. bound = FALSE /\ changed = TRUE /\ moved = FALSE /\ missed = FALSE
        BY <1>1, Zenon DEF Init
      <3>2. QED BY <3>1
    <2>4. QED BY <1>1, <2>1, <2>2, <2>3 DEF Init, TypeOK
  <1>2. TypeOK /\ [Next]_vars => TypeOK'
    <2> SUFFICES ASSUME TypeOK, [Next]_vars PROVE TypeOK'
      OBVIOUS
    <2>1. ASSUME NEW c \in Currents, NEW s \in Charges, Move(c, s) PROVE TypeOK'
      <3>1. current' \in Words /\ soc' \in Words
        BY <2>1, RegisterAssumption DEF Move
      <3>2. moved' \in BOOLEAN
        <4>1. moved' = (moved \/ Status' # Status)
          BY <2>1, Zenon DEF Move
        <4>2. QED BY <4>1, Zenon
      <3>3. QED BY <2>1, <3>1, <3>2 DEF Move, TypeOK
    <2>2. CASE Poll
      BY <2>2 DEF Poll, TypeOK, Readers
    <2>3. CASE DesktopReads
      <3>1. changed' \in BOOLEAN
        <4>1. changed' = FALSE
          BY <2>3, Zenon DEF DesktopReads
        <4>2. QED BY <4>1
      <3>2. QED BY <2>3, <3>1 DEF DesktopReads, TypeOK, Readers
    <2>4. ASSUME NEW r \in Readers, NEW s \in Statuses, Result(r, s), Leave(r), UNCHANGED gauge
          PROVE  TypeOK'
      <3>1. at' \in [Readers -> {"idle", "current", "soc"}]
        BY <2>4 DEF Leave, TypeOK
      <3>2. /\ last_status' \in Statuses \cup {"Unknown"} /\ shown' \in Statuses \cup {"Unknown"}
        BY <2>4 DEF Result, TypeOK
      <3>3. bound' \in BOOLEAN
        <4>1. bound' = TRUE \/ bound' = bound
          BY <2>4, Zenon DEF Result
        <4>2. QED BY <4>1, Zenon DEF TypeOK
      <3>4. changed' \in BOOLEAN
        <4>1. changed' = TRUE \/ changed' = changed
          BY <2>4, Zenon DEF Result
        <4>2. QED BY <4>1, Zenon DEF TypeOK
      <3>5. moved' \in BOOLEAN
        <4>1. moved' = (Status # s) \/ moved' = moved
          BY <2>4, Zenon DEF Result
        <4>2. QED BY <4>1, Zenon DEF TypeOK
      <3>6. missed' \in BOOLEAN
        <4>1. missed' = (s # last_status) \/ missed' = missed
          BY <2>4, Zenon DEF Result
        <4>2. QED BY <4>1, Zenon DEF TypeOK
      <3>7. QED BY <2>4, <3>1, <3>2, <3>3, <3>4, <3>5, <3>6 DEF TypeOK
    <2>5. ASSUME NEW r \in Readers, ReadCurrent(r) PROVE TypeOK'
      <3>1. CASE Flow(current) = "still"
        BY <2>5, <3>1 DEF ReadCurrent, TypeOK
      <3>2. CASE Flow(current) # "still"
        <4>1. Flow(current) \in Statuses
          BY <3>2, FlowIs DEF Statuses
        <4>2. QED BY <2>4, <2>5, <3>2, <4>1 DEF ReadCurrent
      <3>3. QED BY <3>1, <3>2
    <2>6. ASSUME NEW r \in Readers, ReadSoc(r) PROVE TypeOK'
      <3>1. AtRestStatus(soc) \in Statuses
        BY AtRestIs DEF Statuses
      <3>2. QED BY <2>4, <2>6, <3>1 DEF ReadSoc
    <2>7. ASSUME NEW r \in Readers, ReadFails(r) PROVE TypeOK'
      <3>1. bound' \in BOOLEAN
        <4>1. bound' = TRUE \/ bound' = bound
          BY <2>7, Zenon DEF ReadFails
        <4>2. QED BY <4>1, Zenon DEF TypeOK
      <3>2. missed' \in BOOLEAN
        <4>1. missed' = (missed \/ r = "desktop")
          BY <2>7, Zenon DEF ReadFails
        <4>2. QED BY <4>1, Zenon
      <3>3. last_status' \in {"Unknown", last_status}
        BY <2>7 DEF ReadFails
      <3>4. QED BY <2>7, <3>1, <3>2, <3>3 DEF ReadFails, Leave, TypeOK
    <2>8. CASE UNCHANGED vars
      BY <2>8 DEF vars, TypeOK
    <2>9. QED BY <2>1, <2>2, <2>3, <2>5, <2>6, <2>7, <2>8 DEF Next, Reading
  <1>3. QED BY <1>1, <1>2, PTL DEF Spec
-----------------------------------------------------------------------------
(***************************************************************************)
(* A desktop that has taken up every announcement, and whose last read was *)
(* not of something the poll had not announced, shows what was announced.  *)
(***************************************************************************)
AgreeInv ==
    at["desktop"] = "idle" /\ ~changed /\ ~missed => bound /\ shown = last_status

LEMMA AgreeStep ==
    ASSUME NewsInv, AgreeInv, [Next]_vars
    PROVE  AgreeInv'
  <1>1. CASE UNCHANGED <<bound, at, last_status, changed, shown, missed>>
    BY <1>1 DEF AgreeInv
  <1>2. ASSUME NEW c \in Currents, NEW s \in Charges, Move(c, s) PROVE AgreeInv'
    BY <1>1, <1>2 DEF Move
  <1>3. CASE Poll \/ DesktopReads
    BY <1>3 DEF Poll, DesktopReads, AgreeInv, NewsInv, Readers
  <1>4. ASSUME NEW r \in Readers, NEW s \in Statuses, Result(r, s), Leave(r), at[r] # "idle"
        PROVE  AgreeInv'
    <2>1. s # "Unknown"
      BY DEF Statuses
    <2>2. CASE r = "probe"
      <3>1. ~bound /\ (r # "desktop" /\ at'["desktop"] = at["desktop"])
        BY <1>4, <2>2 DEF NewsInv, Leave, Readers
      <3>2. UNCHANGED <<changed, shown, missed>>
        BY <1>4, <2>2 DEF Result
      <3>3. QED BY <3>1, <3>2 DEF AgreeInv
    <2>3. CASE r = "poll"
      <3>1. at'["desktop"] = at["desktop"]
        BY <1>4, <2>3 DEF NewsInv, Leave, Readers
      <3>2. changed' \/ UNCHANGED <<last_status, changed, bound, shown, missed>>
        BY <1>4, <2>3 DEF Result
      <3>3. QED BY <3>1, <3>2 DEF AgreeInv
    <2>4. CASE r = "desktop"
      <3>1. shown' = s /\ (missed' <=> s # last_status) /\ UNCHANGED <<last_status, bound>>
        BY <1>4, <2>4 DEF Result
      <3>2. QED BY <2>1, <3>1 DEF AgreeInv, NewsInv
    <2>5. QED BY <2>2, <2>3, <2>4 DEF Readers
  <1>5. ASSUME NEW r \in Readers, ReadCurrent(r) PROVE AgreeInv'
    <2>1. CASE Flow(current) = "still"
      <3>1. /\ at' = [at EXCEPT ![r] = "soc"]
            /\ UNCHANGED <<bound, last_status, changed, shown, missed>> /\ at[r] = "current"
        BY <1>5, <2>1 DEF ReadCurrent
      <3>2. at'["desktop"] = "idle" => at["desktop"] = "idle"
        BY <3>1 DEF NewsInv, Readers
      <3>3. QED BY <3>1, <3>2 DEF AgreeInv
    <2>2. CASE Flow(current) # "still"
      <3>1. Flow(current) \in Statuses
        BY <2>2, FlowIs DEF Statuses
      <3>2. QED BY <1>4, <1>5, <2>2, <3>1 DEF ReadCurrent
    <2>3. QED BY <2>1, <2>2
  <1>6. ASSUME NEW r \in Readers, ReadSoc(r) PROVE AgreeInv'
    <2>1. AtRestStatus(soc) \in Statuses
      BY AtRestIs DEF Statuses
    <2>2. QED BY <1>4, <1>6, <2>1 DEF ReadSoc
  <1>7. ASSUME NEW r \in Readers, ReadFails(r) PROVE AgreeInv'
    <2>1. CASE r = "desktop"
      <3>1. missed'
        BY <1>7, <2>1 DEF ReadFails
      <3>2. QED BY <3>1 DEF AgreeInv
    <2>2. CASE r = "poll"
      BY <1>7, <2>2 DEF ReadFails, Leave, AgreeInv, NewsInv, Readers
    <2>3. CASE r = "probe"
      <3>1. ~bound /\ at'["desktop"] = at["desktop"]
        BY <1>7, <2>3 DEF ReadFails, Leave, NewsInv, Readers
      <3>2. UNCHANGED <<changed, shown>> /\ (missed => missed')
        BY <1>7, <2>3 DEF ReadFails
      <3>3. QED BY <3>1, <3>2 DEF AgreeInv
    <2>4. QED BY <2>1, <2>2, <2>3 DEF Readers
  <1>8. CASE UNCHANGED vars
    BY <1>1, <1>8 DEF vars
  <1>9. QED BY <1>2, <1>3, <1>5, <1>6, <1>7, <1>8 DEF Next, Reading

\* The desktop has nothing to take up and did not miss a change, and the status has
\* stayed since the poll announced it.
UpToDate ==
    /\ bound /\ at["desktop"] = "idle" /\ ~changed /\ ~missed
    /\ ~moved /\ last_status # "Unknown"

\* The part of Noticed that is not about time: a desktop that is up to date shows the
\* status of the registers, however the reads of the two registers by the probe, the
\* poll and the desktop are interleaved and whatever fails.
THEOREM DesktopAgrees == Spec => [](UpToDate => shown = Status)
  <1>1. Init => NewsInv /\ AgreeInv
    BY DEF Init, NewsInv, AgreeInv, Readers
  <1>2. NewsInv /\ AgreeInv /\ [Next]_vars => AgreeInv'
    BY AgreeStep
  <1>3. NewsInv /\ AgreeInv => (UpToDate => shown = Status)
    BY DEF NewsInv, AgreeInv, UpToDate
  <1>4. QED BY <1>1, <1>2, <1>3, NewsStep, PTL DEF Spec
=============================================================================
