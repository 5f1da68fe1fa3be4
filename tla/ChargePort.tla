----------------------------- MODULE ChargePort -----------------------------
(***************************************************************************)
(* The two scripts that share the SM5705 charger over I2C with no lock     *)
(* between them: tools/tabs6-charge.sh, a service that keeps the current   *)
(* limits up while the chip charges, and tools/usb-role, a command that    *)
(* turns the port into a supply and back.  Around them the chip, which     *)
(* resets its limits by itself, the cable and the battery.                 *)
(*                                                                         *)
(* The two limit registers are whole bytes, as the service reads, compares *)
(* and writes them; the registers that usb-role masks hold the field under *)
(* its mask.  At most one usb-role runs at a time.                         *)
(***************************************************************************)
EXTENDS Integers

CONSTANTS
    INPUT_MA, CHARGE_MA,    \* TABS6_INPUT_MA and TABS6_CHARGE_MA
    RESET_IN, RESET_CHG,    \* limits after a reset (500 mA and 100 mA in the source)
    OtherLimits,            \* bytes somebody else may set
    Hazards                 \* which failures this instance allows

ASSUME TargetsAssumption ==
    /\ INPUT_MA \in Nat /\ INPUT_MA >= 100 /\ CHARGE_MA \in Nat /\ CHARGE_MA >= 100
    /\ RESET_IN \in 0..255 /\ RESET_CHG \in 0..255 /\ OtherLimits \subseteq 0..255
    /\ Hazards \subseteq {"get_error", "set_error", "role_error", "status_error",
                          "kill", "plug_race", "setter_race"}

VARIABLES
    cable,      \* what is in the port
    flow,       \* the battery current: "in", "out" or "still", within its noise
    reg,        \* register -> byte or field
    pc,         \* tabs6-charge.sh
    cur_in, cur_chg,
    at,         \* usb-role: the step it is at, "idle" when none runs
    cmd,        \* its argument
    read,       \* its rmw has read the register
    done,       \* how the last usb-role ended: its argument, "failed", "none"
    role,       \* the role file
    failed      \* history: registers whose last write by usb-role failed

world == <<cable, flow>>
charge == <<pc, cur_in, cur_chg>>
usb   == <<at, cmd, read, done, role, failed>>
vars  == <<reg, world, charge, usb>>

CHG_ON == 5
USB_OTG == 7
BST_OUT_4500MV == 5
BST_OUT_5100MV == 11
OTG_CURRENT_900MA == 2

Limits == {"VBUSCNTL", "CHGCNTL2"}
Regs == Limits \cup {"CNTL", "CHGCNTL6", "FLEDCNTL6"}
Commands == {"host", "device", "none"}

\* The offsets wrap to the width of their field.
INPUT_OFF  == ((INPUT_MA - 100) \div 25) % 128
CHARGE_OFF == ((CHARGE_MA - 100) \div 50) % 64

\* The offset in the byte of a limit register.
Offset(r) == reg[r] % (IF r = "VBUSCNTL" THEN 128 ELSE 64)

TypeOK ==
    /\ cable \in {"none", "charger", "peripheral"} /\ flow \in {"in", "out", "still"}
    /\ reg \in [Regs -> 0..255]
    /\ pc \in {"mode", "read_in", "read_chg", "raise_in", "raise_chg", "sleep"}
    /\ cur_in \in 0..255 /\ cur_chg \in 0..255
    /\ at \in {"idle", "check", "boost_on", "limit_on", "source", "role", "sink",
               "boost_off"}
    /\ cmd \in Commands /\ role \in Commands
    /\ read \in BOOLEAN /\ done \in Commands \cup {"failed"}
    /\ failed \subseteq Regs
-----------------------------------------------------------------------------
(* The chip, the cable and the battery. *)

ResetLimits(r) == [r EXCEPT !["VBUSCNTL"] = RESET_IN, !["CHGCNTL2"] = RESET_CHG]

\* A write of register r; a change of operation mode resets the limits.
Written(r, v) ==
    LET after == [reg EXCEPT ![r] = v]
    IN IF r = "CNTL" /\ v # reg[r] THEN ResetLimits(after) ELSE after

\* Without "plug_race", the cable stays while a usb-role runs.
Plug(c) ==
    /\ cable = "none" /\ (at = "idle" \/ "plug_race" \in Hazards)
    /\ cable' = c /\ reg' = ResetLimits(reg)
    /\ UNCHANGED <<flow, charge, usb>>

Unplug ==
    /\ cable # "none" /\ cable' = "none"
    /\ UNCHANGED <<flow, reg, charge, usb>>

\* What the tablet draws decides the battery current; only a chip that charges from
\* a charger can turn it inwards.
BatteryCurrent ==
    /\ flow' \in {"in", "out", "still"} \ {flow}
    /\ flow' = "in" => cable = "charger" /\ reg["CNTL"] = CHG_ON
    /\ UNCHANGED <<cable, reg, charge, usb>>

\* Somebody else sets a limit, which the service's own comment expects.
OtherSets(r, v) ==
    /\ pc = "sleep" \/ "setter_race" \in Hazards
    /\ reg' = [reg EXCEPT ![r] = v]
    /\ UNCHANGED <<world, charge, usb>>

\* sm5705_fg_get_status: the sign of the current beyond its noise.  Sitting still
\* the charge decides between Full and Not charging, which usb-role treats alike.
Status ==
    CASE flow = "in" -> "Charging" [] flow = "out" -> "Discharging"
      [] OTHER -> "Full or Not charging"
-----------------------------------------------------------------------------
(* tabs6-charge.sh.  A failed i2cget reads as 0; a failed i2cset ends the  *)
(* script and systemd starts it again.                                     *)

GetErrors == "get_error" \in Hazards
Got(r) == {reg[r]} \cup (IF GetErrors THEN {0} ELSE {})

ReadMode ==
    /\ pc = "mode"
    /\ \E m \in Got("CNTL") : pc' = IF m = CHG_ON THEN "read_in" ELSE "sleep"
    /\ UNCHANGED <<cur_in, cur_chg, reg, world, usb>>

ReadIn ==
    /\ pc = "read_in" /\ pc' = "read_chg"
    /\ cur_in' \in Got("VBUSCNTL")
    /\ UNCHANGED <<cur_chg, reg, world, usb>>

ReadChg ==
    /\ pc = "read_chg" /\ pc' = "raise_in"
    /\ cur_chg' \in Got("CHGCNTL2")
    /\ UNCHANGED <<cur_in, reg, world, usb>>

\* Mutant of MustRaise: the limit is set whenever it is not the target.
MustRaise_Differs(cur, off) == cur # off
MustRaise(cur, off) == cur < off

\* What has been read is not used again.
Forget == cur_in' = 0 /\ cur_chg' = IF pc' = "raise_chg" THEN cur_chg ELSE 0

\* Mutant of Raise: only a limit of zero is raised.
Raise_Once(r, cur, off, next) ==
    /\ IF MustRaise(cur, off) /\ cur = 0
       THEN reg' = [reg EXCEPT ![r] = off] ELSE UNCHANGED reg
    /\ pc' = next /\ Forget /\ UNCHANGED <<world, usb>>

Raise(r, cur, off, next) ==
    /\ \/ MustRaise(cur, off) /\ reg' = [reg EXCEPT ![r] = off] /\ pc' = next
       \/ ~MustRaise(cur, off) /\ UNCHANGED reg /\ pc' = next
       \/ "set_error" \in Hazards /\ MustRaise(cur, off) /\ UNCHANGED reg /\ pc' = "mode"
    /\ Forget /\ UNCHANGED <<world, usb>>

RaiseIn  == pc = "raise_in"  /\ Raise("VBUSCNTL", cur_in, INPUT_OFF, "raise_chg")
RaiseChg == pc = "raise_chg" /\ Raise("CHGCNTL2", cur_chg, CHARGE_OFF, "sleep")

WakeUp ==
    /\ pc = "sleep" /\ pc' = "mode"
    /\ UNCHANGED <<cur_in, cur_chg, reg, world, usb>>

ChargeKilled ==
    /\ "kill" \in Hazards /\ pc # "mode" /\ pc' = "mode"
    /\ Forget /\ UNCHANGED <<reg, world, usb>>
-----------------------------------------------------------------------------
(* usb-role.  `vbus_on || exit 1` switches set -e off inside vbus_on; the  *)
(* other commands stop at the first failure.                               *)

RunRole(c) ==
    /\ at = "idle"
    /\ cmd' = c /\ at' = IF c = "host" THEN "check" ELSE "role"
    /\ read' = FALSE /\ done' = "failed"
    /\ UNCHANGED <<role, failed, reg, world, charge>>

\* The register and value each rmw writes.
RmwReg == [boost_on |-> "FLEDCNTL6", limit_on |-> "CHGCNTL6", source |-> "CNTL",
           sink |-> "CNTL", boost_off |-> "FLEDCNTL6"]
RmwValue == [boost_on |-> BST_OUT_5100MV, limit_on |-> OTG_CURRENT_900MA,
             source |-> USB_OTG, sink |-> CHG_ON, boost_off |-> BST_OUT_4500MV]

\* Mutant of After: the boost is lowered while the port still sources.
After_BoostOffFirst(s) ==
    CASE s = "boost_on" -> "limit_on" [] s = "limit_on" -> "source"
      [] s = "source" -> "role" [] s = "role" /\ cmd # "host" -> "boost_off"
      [] s = "boost_off" -> "sink" [] OTHER -> "idle"

\* Mutant of After: device leaves the supply on.
After_NoVbusOff(s) ==
    CASE s = "boost_on" -> "limit_on" [] s = "limit_on" -> "source"
      [] s = "source" -> "role" [] OTHER -> "idle"

After(s) ==
    CASE s = "boost_on" -> "limit_on" [] s = "limit_on" -> "source"
      [] s = "source" -> "role" [] s = "role" /\ cmd # "host" -> "sink"
      [] s = "sink" -> "boost_off" [] OTHER -> "idle"

\* Going on to the next step; the last one ends the command as successful.
Proceed ==
    /\ at' = After(at) /\ read' = FALSE
    /\ done' = IF at' = "idle" THEN cmd ELSE done

Exit == at' = "idle" /\ read' = FALSE /\ UNCHANGED done

\* A status file that cannot be read counts as one that does not say Charging.
CheckStatus ==
    /\ at = "check" /\ read' = FALSE /\ UNCHANGED done
    /\ \/ at' = IF Status = "Charging" THEN "idle" ELSE "boost_on"
       \/ "status_error" \in Hazards /\ at' = "boost_on"
    /\ UNCHANGED <<cmd, role, failed, reg, world, charge>>

\* Inside vbus_on a failed read changes nothing for the field.
RmwGet ==
    /\ at \in DOMAIN RmwReg /\ ~read
    /\ \/ read' = TRUE /\ UNCHANGED <<at, done>>
       \/ GetErrors /\ cmd # "host" /\ Exit
    /\ UNCHANGED <<cmd, role, failed, reg, world, charge>>

\* rmw's status is that of its i2cset, vbus_on's that of its last rmw.
RmwSet ==
    /\ at \in DOMAIN RmwReg /\ read
    /\ \/ /\ reg' = Written(RmwReg[at], RmwValue[at]) /\ failed' = failed \ {RmwReg[at]}
          /\ Proceed
       \/ /\ "set_error" \in Hazards /\ UNCHANGED reg
          /\ failed' = failed \cup {RmwReg[at]}
          /\ IF at \in {"boost_on", "limit_on"} THEN Proceed ELSE Exit
    /\ UNCHANGED <<cmd, role, world, charge>>

SetRole ==
    /\ at = "role"
    /\ \/ role' = cmd /\ Proceed
       \/ "role_error" \in Hazards /\ UNCHANGED role /\ Exit
    /\ UNCHANGED <<cmd, failed, reg, world, charge>>

RoleKilled ==
    /\ "kill" \in Hazards /\ at # "idle" /\ Exit
    /\ UNCHANGED <<cmd, role, failed, reg, world, charge>>
-----------------------------------------------------------------------------
Init ==
    /\ cable \in {"none", "charger", "peripheral"}
    /\ flow \in {"in", "out", "still"} /\ (flow = "in" => cable = "charger")
    /\ reg = [r \in Regs |-> CASE r = "VBUSCNTL" -> RESET_IN
                               [] r = "CHGCNTL2" -> RESET_CHG
                               [] r = "CNTL" -> CHG_ON
                               [] r = "CHGCNTL6" -> OTG_CURRENT_900MA
                               [] OTHER -> BST_OUT_4500MV]
    /\ pc = "mode" /\ cur_in = 0 /\ cur_chg = 0
    /\ at = "idle" /\ cmd = "device" /\ read = FALSE /\ done = "device"
    /\ role = "device" /\ failed = {}

ChargeLoop == ReadMode \/ ReadIn \/ ReadChg \/ RaiseIn \/ RaiseChg \/ WakeUp
UsbRole == CheckStatus \/ RmwGet \/ RmwSet \/ SetRole

Next ==
    \/ ChargeLoop \/ ChargeKilled \/ UsbRole \/ RoleKilled
    \/ \E c \in Commands : RunRole(c)
    \/ \E c \in {"charger", "peripheral"} : Plug(c)
    \/ Unplug \/ BatteryCurrent
    \/ \E r \in Limits, v \in OtherLimits : OtherSets(r, v)

Spec == Init /\ [][Next]_vars

\* systemd keeps the service running; nobody owes a command or a cable.
FairSpec == Spec /\ WF_vars(ChargeLoop)
-----------------------------------------------------------------------------
(* Properties. *)

\* The boost is up, unless the chip did not take the last write of it.
BoostUp == reg["FLEDCNTL6"] = BST_OUT_5100MV \/ "FLEDCNTL6" \in failed

\* The port never sources with the boost or the current limit of the charging mode:
\* vbus_on raises both before CNTL, vbus_off lowers the boost after it (usb-role
\* 56-58 and 62-63), and a usb-role killed half way keeps the order.
BoostFirst ==
    reg["CNTL"] = USB_OTG => BoostUp /\ reg["CHGCNTL6"] = OTG_CURRENT_900MA

\* A usb-role that ended well left what it says: the role it was asked for, and a
\* port that sources 5.1 V exactly as a host.
DoneMatches ==
    at = "idle" /\ done # "failed" =>
        /\ role = done
        /\ done = "host" => reg["CNTL"] = USB_OTG /\ BoostUp
        /\ done # "host" => reg["CNTL"] = CHG_ON /\ reg["FLEDCNTL6"] = BST_OUT_4500MV

\* "Only ever raise" (tabs6-charge.sh:54): no step of the service lowers a limit,
\* even when the chip resets between its read and its write.
OnlyRaises == [][pc' # pc => \A r \in Limits : Offset(r)' >= Offset(r)]_vars

InputWanted == IF INPUT_MA < 3275 THEN INPUT_MA ELSE 3275
InputGiven == reg["VBUSCNTL"] % 128 \in {o \in 0..127 : 100 + 25 * o > InputWanted - 25}

\* The chip charges, and the bit above the offset is clear.
ChipCharges == reg["CNTL"] = CHG_ON /\ reg["VBUSCNTL"] < 128

\* The service is killed or stopped by a failing write.
ServiceFails == pc \notin {"mode", "sleep"} /\ pc' = "mode"

\* A chip that goes on charging gets, again and again, the input current asked for,
\* up to what the field can hold (tabs6-charge.sh 4-14): the service comes back
\* from every failure, and what the chip and others reset it raises again, as long
\* as nobody sets the bit above the offset.
InputGranted ==
    <>[]ChipCharges /\ <>[][~ServiceFails]_vars => []<>InputGiven
=============================================================================
