----------------------------- MODULE FuelGauge ------------------------------
(***************************************************************************)
(* The fuel gauge driver, kernel/drivers/sm5705_fuelgauge.c: how the       *)
(* status is made of two registers read one after the other, and how the   *)
(* poll work, the probe and the desktop, which all do so at the same time, *)
(* come to agree on it.  The desktop (upower) reads the status when told   *)
(* of a change, or of its own accord, and keeps showing what it read.  Any *)
(* read may fail, and the registers move at any time.                      *)
(*                                                                         *)
(* Properties that are one register read with no state are left out, but   *)
(* for the conversion of the current, on which the status depends.         *)
(***************************************************************************)
EXTENDS Integers

CONSTANTS
    Currents,   \* values the current register takes in this instance
    Charges     \* and the charge register

LargestWord == 65535
Words == 0..LargestWord

ASSUME RegisterAssumption == Currents \subseteq Words /\ Charges \subseteq Words

VARIABLES
    current, soc,   \* the registers
    bound,          \* probe is done, the poll work scheduled
    at,             \* reader -> where it is in sm5705_fg_get_status
    last_status,
    changed,        \* a change is announced that the desktop has not taken up
    shown,          \* the status the desktop shows
    moved,          \* history: the status has moved since last_status was set
    missed          \* history: the desktop last read, or failed to read, something
                    \* else than was announced

gauge == <<current, soc>>
vars  == <<gauge, bound, at, last_status, changed, shown, moved, missed>>

SM5705_FG_CURRENT_NOISE_UA == 50000
Readers  == {"probe", "poll", "desktop"}
Statuses == {"Charging", "Discharging", "Full", "Not charging"}

TypeOK ==
    /\ current \in Words /\ soc \in Words /\ bound \in BOOLEAN
    /\ at \in [Readers -> {"idle", "current", "soc"}]
    /\ last_status \in Statuses \cup {"Unknown"}
    /\ shown \in Statuses \cup {"Unknown"}
    /\ changed \in BOOLEAN /\ moved \in BOOLEAN /\ missed \in BOOLEAN
-----------------------------------------------------------------------------
(* The status. *)

\* Mutant of sm5705_fg_decode_current_ua: the register as two's complement.
sm5705_fg_decode_current_ua_Signed(raw) ==
    LET n == IF raw >= 32768 THEN raw - 65536 ELSE raw
    IN (n * 15625) \div 32

\* Sign in bit 15, whole amps in bits 12:11, 1/2048ths of one in bits 10:0.
sm5705_fg_decode_current_ua(raw) ==
    LET ua == ((raw \div 2048) % 4) * 1000000 + ((raw % 2048) * 1000000) \div 2048
    IN IF raw >= 32768 THEN -ua ELSE ua

\* What the first read settles; "still" asks for the second.
Flow(raw) ==
    LET cur == sm5705_fg_decode_current_ua(raw)
    IN IF cur > SM5705_FG_CURRENT_NOISE_UA THEN "Charging"
       ELSE IF cur < -SM5705_FG_CURRENT_NOISE_UA THEN "Discharging" ELSE "still"

AtRestStatus(raw) == IF raw \div 256 >= 99 THEN "Full" ELSE "Not charging"

\* The status of the registers as they are now.
Status == IF Flow(current) = "still" THEN AtRestStatus(soc) ELSE Flow(current)

\* The battery and the cable.
Move(c, s) ==
    /\ current' = c /\ soc' = s
    /\ moved' = (moved \/ Status' # Status)
    /\ UNCHANGED <<bound, at, last_status, changed, shown, missed>>
-----------------------------------------------------------------------------
(* The readers. *)

\* A reader is done with status s.
Leave(r) == at' = [at EXCEPT ![r] = "idle"]

\* Mutants of IsNews: every poll is announced (OnlyTransitions), or
\* only the coming of a charger (Noticed).
IsNews_Always(s) == TRUE
IsNews_PlugOnly(s) == s # last_status /\ s = "Charging"
IsNews(s) == s # last_status

Result(r, s) ==
    \/ /\ r = "probe" /\ last_status' = s /\ bound' = TRUE
       /\ moved' = (Status # s)
       /\ UNCHANGED <<changed, shown, missed>>
    \/ /\ r = "poll" /\ IsNews(s) /\ last_status' = s /\ changed' = TRUE
       /\ moved' = (Status # s)
       /\ UNCHANGED <<bound, shown, missed>>
    \/ /\ r = "poll" /\ ~IsNews(s)
       /\ UNCHANGED <<last_status, changed, bound, shown, moved, missed>>
    \/ /\ r = "desktop" /\ shown' = s /\ missed' = (s # last_status)
       /\ UNCHANGED <<last_status, changed, bound, moved>>

ReadCurrent(r) ==
    /\ at[r] = "current"
    /\ \/ /\ Flow(current) = "still"
          /\ at' = [at EXCEPT ![r] = "soc"]
          /\ UNCHANGED <<bound, last_status, changed, shown, moved, missed>>
       \/ Flow(current) # "still" /\ Leave(r) /\ Result(r, Flow(current))
    /\ UNCHANGED gauge

ReadSoc(r) ==
    /\ at[r] = "soc"
    /\ Leave(r) /\ Result(r, AtRestStatus(soc))
    /\ UNCHANGED gauge

\* The bus fails: the probe does without a status, the others without this one.
ReadFails(r) ==
    /\ at[r] # "idle"
    /\ Leave(r)
    /\ IF r = "probe" THEN bound' = TRUE /\ last_status' = "Unknown"
                      ELSE UNCHANGED <<bound, last_status>>
    /\ missed' = (missed \/ r = "desktop")
    /\ UNCHANGED <<gauge, changed, shown, moved>>

\* The work is scheduled again when it ends, five seconds later.
Poll ==
    /\ bound /\ at["poll"] = "idle"
    /\ at' = [at EXCEPT !["poll"] = "current"]
    /\ UNCHANGED <<gauge, bound, last_status, changed, shown, moved, missed>>

\* The desktop takes up an announcement, or looks of its own accord.
DesktopReads ==
    /\ at["desktop"] = "idle"
    /\ changed' = FALSE
    /\ at' = [at EXCEPT !["desktop"] = "current"]
    /\ UNCHANGED <<gauge, bound, last_status, shown, moved, missed>>
-----------------------------------------------------------------------------
\* Registration announces the supply; the probe goes on to seed the status.
Init ==
    /\ current \in Currents /\ soc \in Charges
    /\ bound = FALSE
    /\ at = [r \in Readers |-> IF r = "probe" THEN "current" ELSE "idle"]
    /\ last_status = "Unknown" /\ changed = TRUE /\ shown = "Unknown" /\ moved = FALSE
    /\ missed = FALSE

Reading(r) == ReadCurrent(r) \/ ReadSoc(r) \/ ReadFails(r)

Next ==
    \/ \E c \in Currents, s \in Charges : Move(c, s)
    \/ Poll \/ DesktopReads
    \/ \E r \in Readers : Reading(r)

Spec == Init /\ [][Next]_vars

\* The work queue runs what is scheduled, no read of the bus fails for ever, and the
\* desktop takes up what it is told; it need not look by itself.
FairSpec ==
    /\ Spec /\ WF_vars(Poll) /\ WF_vars(changed /\ DesktopReads)
    /\ \A r \in Readers : SF_vars(ReadCurrent(r)) /\ SF_vars(ReadSoc(r))
-----------------------------------------------------------------------------
(* Properties. *)

\* The current is what the header comment (93-103) says of the register: sign and
\* magnitude, in 1/2048ths of an amp, rounded down.
DecodedRight(raw) ==
    LET ua  == sm5705_fg_decode_current_ua(raw)
        abs == IF raw >= 32768 THEN -ua ELSE ua
        mag == raw % 8192
    IN 32 * abs <= 15625 * mag /\ 15625 * mag < 32 * (abs + 1)
DecodeRight == DecodedRight(current)

\* The poll announces a change only if the status has moved since last_status was
\* set (164-169), unless the probe could not read one.
OnlyTransitions ==
    [][~changed /\ changed' /\ last_status # "Unknown" => moved]_vars

\* Once the status stays, the desktop comes to show it and goes on to (55-64,
\* 164-169) without looking by itself, unless what it last read was something else
\* than the poll had announced.
Noticed ==
    \A s \in Statuses : <>[](Status = s /\ ~missed) => <>[](shown = s)
=============================================================================
