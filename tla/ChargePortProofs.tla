-------------------------- MODULE ChargePortProofs --------------------------
(***************************************************************************)
(* Proofs about ChargePort: types, the order of boost and mode in usb-role *)
(* and what it leaves when it ends well, under every failure, and a charge *)
(* service that only ever raises when its reads work and nobody else       *)
(* writes between them.                                                    *)
(***************************************************************************)
EXTENDS ChargePort, TLAPS

LEMMA Offsets == INPUT_OFF \in 0..127 /\ CHARGE_OFF \in 0..63
  BY TargetsAssumption DEF INPUT_OFF, CHARGE_OFF

\* Everything a step can do to the registers.
LEMMA ResetType ==
    ASSUME reg \in [Regs -> 0..255]
    PROVE  ResetLimits(reg) \in [Regs -> 0..255]
  <1>1. RESET_IN \in 0..255 /\ RESET_CHG \in 0..255
    BY TargetsAssumption
  <1>2. QED BY <1>1 DEF ResetLimits

LEMMA WrittenType ==
    ASSUME reg \in [Regs -> 0..255], NEW r \in Regs, NEW v \in 0..255
    PROVE  Written(r, v) \in [Regs -> 0..255]
  BY TargetsAssumption DEF Written, ResetLimits, Regs, Limits

LEMMA RmwTypes ==
    ASSUME NEW s \in DOMAIN RmwReg
    PROVE  /\ s \in {"boost_on", "limit_on", "source", "sink", "boost_off"}
           /\ RmwReg[s] \in Regs /\ RmwValue[s] \in 0..255
           /\ RmwReg[s] = CASE s \in {"boost_on", "boost_off"} -> "FLEDCNTL6"
                            [] s = "limit_on" -> "CHGCNTL6"
                            [] OTHER -> "CNTL"
  BY DEF RmwReg, RmwValue, Regs, Limits, BST_OUT_5100MV, OTG_CURRENT_900MA, USB_OTG,
         CHG_ON, BST_OUT_4500MV

Steps == {"idle", "check", "boost_on", "limit_on", "source", "role", "sink", "boost_off"}

LEMMA AfterType == \A s \in Steps : After(s) \in Steps
  BY DEF After, Steps

\* Every variable keeps its type: offsets and resets fit their register, and the
\* step of usb-role and of the service is always one of the listed ones.
THEOREM TypeCorrect == Spec => []TypeOK
  <1>1. ASSUME Init PROVE TypeOK
    <2>1. reg \in [Regs -> 0..255]
      BY <1>1, TargetsAssumption DEF Init, CHG_ON, OTG_CURRENT_900MA, BST_OUT_4500MV
    <2>2. /\ cable \in {"none", "charger", "peripheral"} /\ flow \in {"in", "out", "still"}
          /\ read \in BOOLEAN
      BY <1>1 DEF Init
    <2>3. /\ pc = "mode" /\ cur_in \in 0..255 /\ cur_chg \in 0..255 /\ at = "idle"
          /\ cmd \in Commands /\ role \in Commands /\ done \in Commands
          /\ failed \subseteq Regs
      BY <1>1 DEF Init, Commands
    <2>4. QED BY <2>1, <2>2, <2>3 DEF TypeOK
  <1>2. TypeOK /\ [Next]_vars => TypeOK'
    <2> SUFFICES ASSUME TypeOK, [Next]_vars PROVE TypeOK'
      OBVIOUS
    <2> USE DEF world, charge, usb
    <2>1. CASE ReadMode \/ ReadIn \/ ReadChg
      <3>1. \A r \in Regs : Got(r) \subseteq 0..255
        BY DEF Got, TypeOK
      <3>2. CASE ReadMode
        BY <3>2 DEF ReadMode, TypeOK
      <3>3. CASE ReadIn
        BY <3>1, <3>3 DEF ReadIn, TypeOK, Regs, Limits
      <3>4. CASE ReadChg
        BY <3>1, <3>4 DEF ReadChg, TypeOK, Regs, Limits
      <3>5. QED BY <2>1, <3>2, <3>3, <3>4
    <2>2. CASE RaiseIn \/ RaiseChg
      BY <2>2, Offsets DEF RaiseIn, RaiseChg, Raise, Forget, TypeOK
    <2>3. CASE WakeUp \/ ChargeKilled
      BY <2>3 DEF WakeUp, ChargeKilled, Forget, TypeOK
    <2>4. CASE CheckStatus \/ RmwGet \/ RoleKilled
      <3>1. at' \in {"idle", "boost_on", at} /\ read' \in BOOLEAN
        <4>1. CASE CheckStatus
          BY <4>1 DEF CheckStatus
        <4>2. CASE RmwGet
          BY <4>2 DEF RmwGet, Exit
        <4>3. CASE RoleKilled
          BY <4>3 DEF RoleKilled, Exit
        <4>4. QED BY <2>4, <4>1, <4>2, <4>3
      <3>2. UNCHANGED <<cmd, role, done, failed, reg, world, charge>>
        BY <2>4 DEF CheckStatus, RmwGet, RoleKilled, Exit
      <3>3. QED BY <3>1, <3>2 DEF TypeOK
    <2>5. CASE RmwSet
      <3>1. reg' \in [Regs -> 0..255]
        <4>1. RmwReg[at] \in Regs /\ RmwValue[at] \in 0..255
          BY <2>5, RmwTypes DEF RmwSet
        <4>2. reg' \in {reg, Written(RmwReg[at], RmwValue[at])}
          BY <2>5 DEF RmwSet
        <4>3. reg \in [Regs -> 0..255]
          BY DEF TypeOK
        <4>4. Written(RmwReg[at], RmwValue[at]) \in [Regs -> 0..255]
          BY <4>1, <4>3, WrittenType
        <4>5. QED BY <4>2, <4>3, <4>4
      <3>2. at' \in Steps /\ read' = FALSE /\ done' \in {cmd, done}
        BY <2>5, AfterType DEF RmwSet, Proceed, Exit, TypeOK, Steps
      <3>3. failed' \subseteq Regs
        <4>1. RmwReg[at] \in Regs
          BY <2>5, RmwTypes DEF RmwSet
        <4>2. failed' \in {failed \ {RmwReg[at]}, failed \cup {RmwReg[at]}}
          BY <2>5 DEF RmwSet
        <4>3. QED BY <4>1, <4>2 DEF TypeOK
      <3>4. QED BY <2>5, <3>1, <3>2, <3>3 DEF RmwSet, TypeOK, Steps
    <2>6. CASE SetRole
      <3>1. at' \in Steps /\ read' = FALSE /\ done' \in {cmd, done}
        BY <2>6, AfterType DEF SetRole, Proceed, Exit, TypeOK, Steps
      <3>2. role' \in {cmd, role} /\ UNCHANGED <<cmd, failed, reg, world, charge>>
        BY <2>6 DEF SetRole
      <3>3. at' \in Steps /\ read' \in BOOLEAN /\ done' \in Commands \cup {"failed"}
            /\ role' \in Commands
        BY <3>1, <3>2 DEF TypeOK
      <3>4. QED BY <3>2, <3>3 DEF TypeOK, Steps
    <2>7. ASSUME NEW c \in Commands, RunRole(c) PROVE TypeOK'
      BY <2>7 DEF RunRole, TypeOK
    <2>8. ASSUME NEW c \in {"charger", "peripheral"}, Plug(c) PROVE TypeOK'
      <3>1. reg' \in [Regs -> 0..255]
        BY <2>8, ResetType DEF Plug, TypeOK
      <3>2. QED BY <2>8, <3>1 DEF Plug, TypeOK
    <2>9. CASE Unplug \/ BatteryCurrent
      <3>1. cable' \in {"none", "charger", "peripheral"} /\ flow' \in {"in", "out", "still"}
        BY <2>9 DEF Unplug, BatteryCurrent, TypeOK
      <3>2. UNCHANGED <<reg, charge, usb>>
        BY <2>9 DEF Unplug, BatteryCurrent
      <3>3. QED BY <3>1, <3>2 DEF TypeOK
    <2>10. ASSUME NEW r \in Limits, NEW v \in OtherLimits, OtherSets(r, v) PROVE TypeOK'
      <3>1. v \in 0..255 /\ r \in Regs
        BY TargetsAssumption DEF Regs
      <3>2. reg' \in [Regs -> 0..255]
        BY <2>10, <3>1 DEF OtherSets, TypeOK
      <3>3. QED BY <2>10, <3>2 DEF OtherSets, TypeOK
    <2>11. CASE UNCHANGED vars
      BY <2>11 DEF vars, TypeOK
    <2>12. QED
      BY <2>1, <2>2, <2>3, <2>4, <2>5, <2>6, <2>7, <2>8, <2>9, <2>10, <2>11
      DEF Next, ChargeLoop, UsbRole
  <1>3. QED BY <1>1, <1>2, PTL DEF Spec
-----------------------------------------------------------------------------
(***************************************************************************)
(* Where usb-role is in its sequence says what it has already set: the     *)
(* boost is up before the current limit, both before the mode, and it is   *)
(* only lowered once the mode is back.                                     *)
(***************************************************************************)
BoostInv ==
    /\ BoostFirst
    /\ reg["CHGCNTL6"] = OTG_CURRENT_900MA
    /\ at \in {"limit_on", "source"} => BoostUp
    /\ at = "boost_off" => reg["CNTL"] = CHG_ON

Modes == {"CNTL", "CHGCNTL6", "FLEDCNTL6"}

\* What is left of BoostInv when a step leaves the mode registers alone.
LEMMA BoostKept ==
    ASSUME BoostInv, \A r \in Modes : reg'[r] = reg[r], failed' = failed,
           at' \in {"limit_on", "source", "boost_off"} => at' = at
    PROVE  BoostInv'
  BY DEF BoostInv, BoostFirst, BoostUp, Modes

LEMMA LimitsOnly ==
    ASSUME TypeOK, NEW r \in Limits, NEW v, reg' = [reg EXCEPT ![r] = v]
    PROVE  \A s \in Modes : reg'[s] = reg[s]
  BY DEF TypeOK, Modes, Limits, Regs

LEMMA BoostStep ==
    ASSUME TypeOK, BoostInv, [Next]_vars
    PROVE  BoostInv'
  <1> USE DEF world, charge, usb
  <1>1. CASE ReadMode \/ ReadIn \/ ReadChg \/ WakeUp \/ ChargeKilled \/ Unplug \/ BatteryCurrent
    BY <1>1, BoostKept DEF ReadMode, ReadIn, ReadChg, WakeUp, ChargeKilled, Unplug,
       BatteryCurrent
  <1>2. CASE RaiseIn \/ RaiseChg
    <2>1. at' = at /\ failed' = failed
      BY <1>2 DEF RaiseIn, RaiseChg, Raise
    <2>2. \A s \in Modes : reg'[s] = reg[s]
      BY <1>2, LimitsOnly DEF RaiseIn, RaiseChg, Raise, Limits
    <2>3. QED BY <2>1, <2>2, BoostKept
  <1>3. CASE CheckStatus \/ RmwGet \/ RoleKilled
    BY <1>3, BoostKept DEF CheckStatus, RmwGet, RoleKilled, Exit
  <1>4. CASE RmwSet
    <2>0. at \in DOMAIN RmwReg
      BY <1>4 DEF RmwSet
    <2>1. CASE /\ reg' = Written(RmwReg[at], RmwValue[at]) /\ failed' = failed \ {RmwReg[at]}
               /\ at' = After(at)
      <3>1. \A s \in Modes : reg'[s] = IF s = RmwReg[at] THEN RmwValue[at] ELSE reg[s]
        BY <2>0, <2>1, RmwTypes DEF Written, ResetLimits, TypeOK, Modes, Regs, Limits
      <3>2. CASE at = "boost_on"
        BY <2>1, <3>1, <3>2 DEF RmwReg, RmwValue, After, BoostInv, BoostFirst, BoostUp, Modes
      <3>3. CASE at = "limit_on"
        BY <2>1, <3>1, <3>3 DEF RmwReg, RmwValue, After, BoostInv, BoostFirst, BoostUp, Modes
      <3>4. CASE at = "source"
        BY <2>1, <3>1, <3>4 DEF RmwReg, RmwValue, After, BoostInv, BoostFirst, BoostUp, Modes
      <3>5. CASE at = "sink"
        BY <2>1, <3>1, <3>5 DEF RmwReg, RmwValue, After, BoostInv, BoostFirst, BoostUp, Modes,
           CHG_ON, USB_OTG
      <3>6. CASE at = "boost_off"
        BY <2>1, <3>1, <3>6 DEF RmwReg, RmwValue, After, BoostInv, BoostFirst, BoostUp, Modes,
           CHG_ON, USB_OTG
      <3>7. QED BY <2>0, <3>2, <3>3, <3>4, <3>5, <3>6, RmwTypes
    <2>2. CASE /\ reg' = reg /\ failed' = failed \cup {RmwReg[at]}
               /\ at' = IF at \in {"boost_on", "limit_on"} THEN After(at) ELSE "idle"
      <3>1. CASE at = "boost_on"
        BY <2>2, <3>1 DEF RmwReg, After, BoostInv, BoostFirst, BoostUp
      <3>2. CASE at = "limit_on"
        BY <2>2, <3>2 DEF RmwReg, After, BoostInv, BoostFirst, BoostUp
      <3>3. CASE at \notin {"boost_on", "limit_on"}
        BY <2>2, <3>3 DEF BoostInv, BoostFirst, BoostUp
      <3>4. QED BY <3>1, <3>2, <3>3
    <2>3. QED BY <1>4, <2>1, <2>2 DEF RmwSet, Proceed, Exit
  <1>5. CASE SetRole
    BY <1>5, BoostKept DEF SetRole, Proceed, Exit, After
  <1>6. ASSUME NEW c \in Commands, RunRole(c) PROVE BoostInv'
    BY <1>6, BoostKept DEF RunRole
  <1>7. ASSUME NEW c \in {"charger", "peripheral"}, Plug(c) PROVE BoostInv'
    <2>1. \A s \in Modes : reg'[s] = reg[s]
      BY <1>7 DEF Plug, ResetLimits, TypeOK, Modes, Regs, Limits
    <2>2. QED BY <1>7, <2>1, BoostKept DEF Plug
  <1>8. ASSUME NEW r \in Limits, NEW v \in OtherLimits, OtherSets(r, v) PROVE BoostInv'
    BY <1>8, LimitsOnly, BoostKept DEF OtherSets
  <1>9. CASE UNCHANGED vars
    BY <1>9, BoostKept DEF vars
  <1>10. QED
    BY <1>1, <1>2, <1>3, <1>4, <1>5, <1>6, <1>7, <1>8, <1>9 DEF Next, ChargeLoop, UsbRole

\* Whatever fails, races or is killed, the port never sources at the charging mode's
\* boost, unless the chip did not take the write that raises it.
THEOREM BoostBeforeSource == Spec => []BoostFirst
  <1>1. Init => BoostInv
    BY DEF Init, BoostInv, BoostFirst, Regs, Limits, CHG_ON, USB_OTG
  <1>2. TypeOK /\ BoostInv /\ [Next]_vars => BoostInv'
    BY BoostStep
  <1>3. BoostInv => BoostFirst
    BY DEF BoostInv
  <1>4. QED BY <1>1, <1>2, <1>3, TypeCorrect, PTL DEF Spec
-----------------------------------------------------------------------------
(***************************************************************************)
(* A command counts as failed until its last step, and where it is says    *)
(* what it has already done.                                               *)
(***************************************************************************)
DoneInv ==
    /\ DoneMatches
    /\ at # "idle" => done = "failed"
    /\ at \in {"check", "boost_on", "limit_on", "source"} => cmd = "host"
    /\ at \in {"sink", "boost_off"} => cmd # "host" /\ role = cmd
    /\ at \in {"limit_on", "source"} => BoostUp
    /\ at = "role" /\ cmd = "host" => reg["CNTL"] = USB_OTG /\ BoostUp
    /\ at = "boost_off" => reg["CNTL"] = CHG_ON

\* A step that leaves usb-role and the mode registers alone.
LEMMA DoneKept ==
    ASSUME DoneInv, \A r \in Modes : reg'[r] = reg[r], UNCHANGED usb
    PROVE  DoneInv'
  BY DEF DoneInv, DoneMatches, BoostUp, Modes, usb

\* The end of a command that failed or was killed.
LEMMA ExitStep ==
    ASSUME DoneInv, at # "idle", Exit
    PROVE  DoneInv'
  BY DEF DoneInv, DoneMatches, Exit

\* A write that succeeds.
LEMMA SetStep ==
    ASSUME TypeOK, DoneInv, at \in DOMAIN RmwReg, Proceed, UNCHANGED <<cmd, role>>,
           reg' = Written(RmwReg[at], RmwValue[at]), failed' = failed \ {RmwReg[at]}
    PROVE  DoneInv'
  <1>1. \A s \in Modes : reg'[s] = IF s = RmwReg[at] THEN RmwValue[at] ELSE reg[s]
    BY RmwTypes DEF Written, ResetLimits, TypeOK, Modes, Regs, Limits
  <1>2. at' = After(at) /\ done' = IF at' = "idle" THEN cmd ELSE done
    BY DEF Proceed
  <1>3. CASE at = "boost_on"
    BY <1>1, <1>2, <1>3 DEF RmwReg, RmwValue, After, DoneInv, DoneMatches, BoostUp, Modes
  <1>4. CASE at = "limit_on"
    BY <1>1, <1>2, <1>4 DEF RmwReg, RmwValue, After, DoneInv, DoneMatches, BoostUp, Modes
  <1>5. CASE at = "source"
    BY <1>1, <1>2, <1>5 DEF RmwReg, RmwValue, After, DoneInv, DoneMatches, BoostUp, Modes
  <1>6. CASE at = "sink"
    BY <1>1, <1>2, <1>6 DEF RmwReg, RmwValue, After, DoneInv, DoneMatches, BoostUp, Modes
  <1>7. CASE at = "boost_off"
    <2>1. at' = "idle" /\ done' = cmd /\ cmd # "host" /\ role = cmd
      BY <1>2, <1>7 DEF After, DoneInv
    <2>2. reg'["CNTL"] = CHG_ON /\ reg'["FLEDCNTL6"] = BST_OUT_4500MV
      BY <1>1, <1>7 DEF RmwReg, RmwValue, DoneInv, Modes
    <2>3. QED BY <2>1, <2>2 DEF DoneInv, DoneMatches
  <1>8. QED BY <1>3, <1>4, <1>5, <1>6, <1>7, RmwTypes

LEMMA DoneStep ==
    ASSUME TypeOK, DoneInv, [Next]_vars
    PROVE  DoneInv'
  <1> USE DEF world, charge
  <1>1. CASE ReadMode \/ ReadIn \/ ReadChg \/ WakeUp \/ ChargeKilled \/ Unplug \/ BatteryCurrent
    BY <1>1, DoneKept DEF ReadMode, ReadIn, ReadChg, WakeUp, ChargeKilled, Unplug,
       BatteryCurrent
  <1>2. CASE RaiseIn \/ RaiseChg
    <2>1. UNCHANGED usb
      BY <1>2 DEF RaiseIn, RaiseChg, Raise
    <2>2. \A s \in Modes : reg'[s] = reg[s]
      BY <1>2, LimitsOnly DEF RaiseIn, RaiseChg, Raise, Limits
    <2>3. QED BY <2>1, <2>2, DoneKept
  <1>3. CASE CheckStatus
    <2>1. at' = "idle" => Exit
      BY <1>3 DEF CheckStatus, Exit
    <2>2. CASE at' = "boost_on"
      BY <1>3, <2>2 DEF CheckStatus, DoneInv, DoneMatches
    <2>3. QED BY <1>3, <2>1, <2>2, ExitStep DEF CheckStatus
  <1>4. CASE RmwGet
    <2>1. CASE Exit
      BY <1>4, <2>1, ExitStep DEF RmwGet, RmwReg
    <2>2. CASE UNCHANGED <<at, done>>
      BY <1>4, <2>2 DEF RmwGet, DoneInv, DoneMatches, BoostUp
    <2>3. QED BY <1>4, <2>1, <2>2 DEF RmwGet
  <1>5. CASE RmwSet
    <2>0. at \in DOMAIN RmwReg /\ at # "idle" /\ UNCHANGED <<cmd, role>>
      BY <1>5, RmwTypes DEF RmwSet
    <2>1. CASE /\ reg' = Written(RmwReg[at], RmwValue[at]) /\ Proceed
               /\ failed' = failed \ {RmwReg[at]}
      BY <2>0, <2>1, SetStep
    <2>2. CASE Exit
      BY <2>0, <2>2, ExitStep
    <2>3. CASE /\ reg' = reg /\ failed' = failed \cup {RmwReg[at]}
               /\ at \in {"boost_on", "limit_on"} /\ Proceed
      <3>1. CASE at = "boost_on"
        BY <2>0, <2>3, <3>1 DEF RmwReg, Proceed, After, DoneInv, DoneMatches, BoostUp
      <3>2. CASE at = "limit_on"
        BY <2>0, <2>3, <3>2 DEF RmwReg, Proceed, After, DoneInv, DoneMatches, BoostUp
      <3>3. QED BY <2>3, <3>1, <3>2
    <2>4. QED BY <1>5, <2>1, <2>2, <2>3 DEF RmwSet
  <1>6. CASE SetRole
    <2>1. CASE Exit
      BY <1>6, <2>1, ExitStep DEF SetRole
    <2>2. CASE role' = cmd /\ Proceed
      <3>1. at' = (IF cmd # "host" THEN "sink" ELSE "idle")
            /\ done' = (IF at' = "idle" THEN cmd ELSE done)
        BY <1>6, <2>2 DEF SetRole, Proceed, After
      <3>2. UNCHANGED <<cmd, failed, reg>> /\ at = "role"
        BY <1>6 DEF SetRole
      <3>3. CASE cmd = "host"
        BY <2>2, <3>1, <3>2, <3>3 DEF DoneInv, DoneMatches, BoostUp
      <3>4. CASE cmd # "host"
        BY <2>2, <3>1, <3>2, <3>4 DEF DoneInv, DoneMatches, BoostUp
      <3>5. QED BY <3>3, <3>4
    <2>3. QED BY <1>6, <2>1, <2>2 DEF SetRole
  <1>7. CASE RoleKilled
    BY <1>7, ExitStep DEF RoleKilled
  <1>8. ASSUME NEW c \in Commands, RunRole(c) PROVE DoneInv'
    BY <1>8 DEF RunRole, DoneInv, DoneMatches
  <1>9. ASSUME NEW c \in {"charger", "peripheral"}, Plug(c) PROVE DoneInv'
    <2>1. \A s \in Modes : reg'[s] = reg[s]
      BY <1>9 DEF Plug, ResetLimits, TypeOK, Modes, Regs, Limits
    <2>2. QED BY <1>9, <2>1, DoneKept DEF Plug
  <1>10. ASSUME NEW r \in Limits, NEW v \in OtherLimits, OtherSets(r, v) PROVE DoneInv'
    BY <1>10, LimitsOnly, DoneKept DEF OtherSets
  <1>11. CASE UNCHANGED vars
    BY <1>11, DoneKept DEF vars
  <1>12. QED
    BY <1>1, <1>2, <1>3, <1>4, <1>5, <1>6, <1>7, <1>8, <1>9, <1>10, <1>11
    DEF Next, ChargeLoop, UsbRole

\* Whatever failed before it and whatever races with it, a usb-role that ended well
\* left the role and the supply it was asked for.
THEOREM WellDone == Spec => []DoneMatches
  <1>1. Init => DoneInv
    <2>1. ASSUME Init PROVE /\ at = "idle" /\ role = "device" /\ done = "device"
                            /\ reg["CNTL"] = CHG_ON /\ reg["FLEDCNTL6"] = BST_OUT_4500MV
      BY <2>1 DEF Init, Regs, Limits
    <2>2. QED BY <2>1 DEF DoneInv, DoneMatches
  <1>2. TypeOK /\ DoneInv /\ [Next]_vars => DoneInv'
    BY DoneStep
  <1>3. DoneInv => DoneMatches
    BY DEF DoneInv
  <1>4. QED BY <1>1, <1>2, <1>3, TypeCorrect, PTL DEF Spec
-----------------------------------------------------------------------------
(***************************************************************************)
(* What the service has read bounds the register until it writes: in       *)
(* between only a reset can change it, and a reset is below the target.    *)
(***************************************************************************)
ReadInv ==
    /\ pc \in {"read_chg", "raise_in"} =>
            reg["VBUSCNTL"] <= cur_in \/ reg["VBUSCNTL"] = RESET_IN
    /\ pc \in {"raise_in", "raise_chg"} =>
            reg["CHGCNTL2"] <= cur_chg \/ reg["CHGCNTL2"] = RESET_CHG

\* A step that keeps the service where it is and resets or keeps each limit.
LEMMA ReadKept ==
    ASSUME ReadInv, UNCHANGED charge,
           reg'["VBUSCNTL"] \in {reg["VBUSCNTL"], RESET_IN},
           reg'["CHGCNTL2"] \in {reg["CHGCNTL2"], RESET_CHG}
    PROVE  ReadInv'
  BY DEF ReadInv, charge

\* The registers after a write of usb-role, as far as the service cares.
LEMMA RoleWrite ==
    ASSUME TypeOK, UsbRole
    PROVE  /\ UNCHANGED charge
           /\ reg'["VBUSCNTL"] \in {reg["VBUSCNTL"], RESET_IN}
           /\ reg'["CHGCNTL2"] \in {reg["CHGCNTL2"], RESET_CHG}
  <1>1. CASE CheckStatus \/ RmwGet \/ SetRole
    BY <1>1 DEF CheckStatus, RmwGet, SetRole
  <1>2. CASE RmwSet
    <2>1. RmwReg[at] \in Modes
      BY <1>2, RmwTypes DEF RmwSet, Modes
    <2>2. reg' \in {reg, Written(RmwReg[at], RmwValue[at])} /\ UNCHANGED charge
      BY <1>2 DEF RmwSet
    <2>3. QED
      BY <2>1, <2>2 DEF Written, ResetLimits, TypeOK, Modes, Regs, Limits
  <1>3. QED BY <1>1, <1>2 DEF UsbRole

\* The hypotheses of OnlyRaises: reads that work, no other writer between a read
\* and its write, and targets no lower than what a reset leaves.
GoodReads ==
    /\ "get_error" \notin Hazards /\ "setter_race" \notin Hazards
    /\ RESET_IN <= INPUT_OFF /\ RESET_CHG <= CHARGE_OFF

LEMMA ReadStep ==
    ASSUME TypeOK, ReadInv, [Next]_vars, GoodReads
    PROVE  ReadInv'
  <1> USE DEF world, usb
  <1>0. \A r \in Regs : Got(r) = {reg[r]}
    BY DEF Got, GetErrors, GoodReads
  <1>1. CASE ReadMode \/ WakeUp \/ ChargeKilled
    BY <1>1 DEF ReadMode, WakeUp, ChargeKilled, ReadInv
  <1>2. CASE ReadIn
    BY <1>0, <1>2 DEF ReadIn, ReadInv, TypeOK, Regs, Limits
  <1>3. CASE ReadChg
    BY <1>0, <1>3 DEF ReadChg, ReadInv, TypeOK, Regs, Limits
  <1>4. CASE RaiseIn
    BY <1>4 DEF RaiseIn, Raise, Forget, ReadInv, TypeOK, Regs, Limits
  <1>5. CASE RaiseChg
    BY <1>5 DEF RaiseChg, Raise, ReadInv
  <1>6. CASE UsbRole
    BY <1>6, RoleWrite, ReadKept
  <1>7. CASE RoleKilled \/ Unplug \/ BatteryCurrent \/ UNCHANGED vars
    BY <1>7, ReadKept DEF RoleKilled, Unplug, BatteryCurrent, vars
  <1>8. ASSUME NEW c \in Commands, RunRole(c) PROVE ReadInv'
    BY <1>8, ReadKept DEF RunRole
  <1>9. ASSUME NEW c \in {"charger", "peripheral"}, Plug(c) PROVE ReadInv'
    <2>1. reg'["VBUSCNTL"] = RESET_IN /\ reg'["CHGCNTL2"] = RESET_CHG /\ UNCHANGED charge
      BY <1>9 DEF Plug, ResetLimits, TypeOK, Regs, Limits
    <2>2. QED BY <2>1, ReadKept
  <1>10. ASSUME NEW r \in Limits, NEW v \in OtherLimits, OtherSets(r, v) PROVE ReadInv'
    BY <1>10 DEF OtherSets, ReadInv, charge, GoodReads
  <1>11. QED
    BY <1>1, <1>2, <1>3, <1>4, <1>5, <1>6, <1>7, <1>8, <1>9, <1>10 DEF Next, ChargeLoop

\* A write of its target raises the offset of a register whose byte is no higher.
LEMMA OffsetRaised ==
    ASSUME TypeOK, NEW r \in Limits, NEW off, reg[r] <= off,
           off \in 0..(IF r = "VBUSCNTL" THEN 127 ELSE 63),
           reg' = [reg EXCEPT ![r] = off]
    PROVE  \A s \in Limits : Offset(s)' >= Offset(s)
  <1>1. \A s \in Limits : reg[s] \in 0..255 /\ reg'[s] = IF s = r THEN off ELSE reg[s]
    BY DEF TypeOK, Regs
  <1>2. Offset(r) = reg[r] /\ Offset(r)' = off
    BY <1>1 DEF Offset, Limits
  <1>3. ASSUME NEW s \in Limits, s # r PROVE Offset(s)' = Offset(s) /\ Offset(s) \in Int
    BY <1>1, <1>3 DEF Offset
  <1>4. QED BY <1>1, <1>2, <1>3

\* One step of the service, seen from the limits.
LEMMA RaiseStep ==
    ASSUME TypeOK, ReadInv, [Next]_vars, GoodReads, pc' # pc
    PROVE  \A r \in Limits : Offset(r)' >= Offset(r)
  <1> USE DEF world, charge
  <1>0. ASSUME reg' = reg PROVE \A r \in Limits : Offset(r)' >= Offset(r)
    <2>1. \A r \in Limits : Offset(r)' = Offset(r) /\ Offset(r) \in Int
      BY <1>0 DEF Offset, TypeOK, Regs
    <2>2. QED BY <2>1
  <1>1. ReadMode \/ ReadIn \/ ReadChg \/ WakeUp \/ ChargeKilled \/ RaiseIn \/ RaiseChg
    BY RoleWrite DEF Next, ChargeLoop, vars, RoleKilled, RunRole, Plug, Unplug,
       BatteryCurrent, OtherSets
  <1>2. CASE RaiseIn
    <2>1. CASE reg' = [reg EXCEPT !["VBUSCNTL"] = INPUT_OFF] /\ cur_in < INPUT_OFF
      <3>1. reg["VBUSCNTL"] <= INPUT_OFF
        BY <1>2, <2>1, Offsets DEF RaiseIn, ReadInv, GoodReads, TypeOK, Limits, Regs
      <3>2. QED BY <2>1, <3>1, Offsets, OffsetRaised DEF Limits
    <2>2. QED BY <1>0, <1>2, <2>1 DEF RaiseIn, Raise, MustRaise
  <1>3. CASE RaiseChg
    <2>1. CASE reg' = [reg EXCEPT !["CHGCNTL2"] = CHARGE_OFF] /\ cur_chg < CHARGE_OFF
      <3>1. reg["CHGCNTL2"] <= CHARGE_OFF
        BY <1>3, <2>1, Offsets DEF RaiseChg, ReadInv, GoodReads, TypeOK, Limits, Regs
      <3>2. QED BY <2>1, <3>1, Offsets, OffsetRaised DEF Limits
    <2>2. QED BY <1>0, <1>3, <2>1 DEF RaiseChg, Raise, MustRaise
  <1>4. CASE ReadMode \/ ReadIn \/ ReadChg \/ WakeUp \/ ChargeKilled
    BY <1>0, <1>4 DEF ReadMode, ReadIn, ReadChg, WakeUp, ChargeKilled
  <1>5. QED BY <1>1, <1>2, <1>3, <1>4

\* For all targets at or above the reset values the service never lowers a limit,
\* through resets, restarts, failed writes and every usb-role.
THEOREM NeverLowers ==
    ASSUME GoodReads
    PROVE  Spec => OnlyRaises
  <1>1. Init => ReadInv
    BY DEF Init, ReadInv
  <1>2. TypeOK /\ ReadInv /\ [Next]_vars => ReadInv'
    BY ReadStep
  <1>3. TypeOK /\ ReadInv /\ [Next]_vars
        => [pc' # pc => \A r \in Limits : Offset(r)' >= Offset(r)]_vars
    BY RaiseStep
  <1>4. QED BY <1>1, <1>2, <1>3, TypeCorrect, PTL DEF Spec, OnlyRaises
=============================================================================
