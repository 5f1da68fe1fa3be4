-------------------------- MODULE Fts1ba90aProofs --------------------------
(***************************************************************************)
(* Proofs about Fts1ba90a: under every failure the model has, the handler  *)
(* runs only on a powered chip, a suspended device shows no contact, rails *)
(* and interrupt stay balanced as long as resume finds its power, every    *)
(* variable keeps its type, and no contact outlives its finger.            *)
(***************************************************************************)
EXTENDS Fts1ba90a, TLAPS, SequenceTheorems

(***************************************************************************)
(* The two rails move together, every state of the driver core fixes them  *)
(* and the interrupt, and a handler is only ever in flight in "on".  After *)
(* a resume that found no power the device is "on" without any, and only   *)
(* the interrupt still being disabled keeps the handler away.              *)
(***************************************************************************)
LineInv ==
    /\ state \in {"unbound", "probe", "on", "suspending", "suspended", "resume"}
    /\ requested \in BOOLEAN /\ depth \in Nat
    /\ vdd \in {0, 1} /\ avdd = vdd
    /\ state = "unbound" => vdd = 0 /\ ~requested
    /\ state = "probe" => vdd = 1 /\ ~requested
    /\ state = "resume" => vdd = 1
    /\ state \in {"suspending", "suspended", "resume"} => depth > 0
    /\ state = "suspended" => vdd = 0
    /\ state = "on" /\ depth = 0 => vdd = 1
    /\ irq # "idle" => state = "on" /\ depth = 0 /\ requested

(***************************************************************************)
(* Until a resume finds no power, the nesting is 0 in "on" and 1 from      *)
(* suspend to resume, and the rails are up until suspend turns them off.   *)
(***************************************************************************)
BalanceInv ==
    /\ ~underflow /\ underflow \in BOOLEAN /\ norail \in BOOLEAN
    /\ state \in {"unbound", "probe"} => ~norail
    /\ state = "on" /\ ~norail => vdd = 1 /\ depth = 0
    /\ state \in {"suspending", "suspended", "resume"} /\ ~norail => depth = 1
    /\ state = "suspending" /\ ~norail => vdd = 1

ReleasedInv == LineInv /\ SuspendedReleased

LEMMA PowerOffFacts ==
    ASSUME LineInv, PowerOff
    PROVE  vdd' = 0 /\ avdd' = 0
  BY DEF LineInv, PowerOff

LEMMA UnderflowType ==
    ASSUME underflow \in BOOLEAN, PowerOff
    PROVE  underflow' \in BOOLEAN
  BY Zenon DEF PowerOff

LEMMA LeaveStep ==
    ASSUME LineInv, BringUp, NEW ok \in BOOLEAN, NEW events, Leave(ok, events),
           ok \/ state \in {"probe", "resume"}
    PROVE  LineInv' /\ state' # "suspended"
  <1>1. irq' = irq /\ irq = "idle"
    BY DEF LineInv, BringUp, Leave, hand
  <1>2. CASE state = "resume"
    <2>1. /\ state' = "on" /\ depth' = depth - 1 /\ requested' = requested
          /\ vdd' = vdd /\ avdd' = avdd
      BY <1>2 DEF Leave, ResumeDone, enable_irq, rails
    <2>2. QED BY <1>1, <1>2, <2>1 DEF LineInv
  <1>3. CASE state = "probe" /\ ok
    <2>1. /\ state' = "on" /\ depth' = 0 /\ requested' = TRUE
          /\ vdd' = vdd /\ avdd' = avdd
      BY <1>3 DEF Leave, rails
    <2>2. QED BY <1>1, <1>3, <2>1 DEF LineInv
  <1>4. CASE state = "probe" /\ ~ok
    <2>1. /\ state' = "unbound" /\ depth' = 0 /\ requested' = ok /\ PowerOff
      BY <1>4 DEF Leave, ProbeFailed
    <2>2. QED BY <1>1, <1>4, <2>1, PowerOffFacts DEF LineInv
  <1>5. QED BY <1>2, <1>3, <1>4 DEF BringUp

LEMMA BringUpStep ==
    ASSUME LineInv,
           \/ SystemReset \/ PollReady \/ PollError \/ ReadIds \/ SetTouchFunction
           \/ WriteCommand \/ PollEcho \/ BusError
    PROVE  LineInv' /\ state' # "suspended"
  <1> USE DEF rails, line, hand
  <1>0. BringUp
    BY DEF SystemReset, PollReady, PollError, ReadIds, SetTouchFunction, WriteCommand,
           PollEcho, BusError
  <1>1. CASE UNCHANGED <<state, vdd, avdd, requested, depth, irq>>
    BY <1>0, <1>1 DEF LineInv, BringUp
  <1>2. CASE \E ok \in {TRUE, state = "resume"}, e \in {fifo, Popped} : Leave(ok, e)
    BY <1>0, <1>2, LeaveStep DEF BringUp
  <1>3. CASE \E e \in {fifo, Popped} : Leave(FALSE, e)
    BY <1>0, <1>3, LeaveStep DEF BringUp
  <1>4. CASE SystemReset \/ ReadIds \/ SetTouchFunction \/ WriteCommand
    BY <1>1, <1>3, <1>4 DEF SystemReset, ReadIds, SetTouchFunction, WriteCommand, Advance
  <1>5. CASE PollReady \/ PollError
    BY <1>1, <1>3, <1>5 DEF PollReady, PollError, Advance
  <1>6. CASE BusError
    BY <1>1, <1>3, <1>6 DEF BusError, Advance
  <1>7. CASE PollEcho
    <2>1. CASE (ReadOne = Ev("echo", step) \/ retry > ECHO_POLLS) /\ step = "scan"
      BY <1>2, <1>7, <2>1 DEF PollEcho
    <2>2. CASE ~((ReadOne = Ev("echo", step) \/ retry > ECHO_POLLS) /\ step = "scan")
      BY <1>1, <1>7, <2>2 DEF PollEcho, Advance
    <2>3. QED BY <2>1, <2>2
  <1>8. QED BY <1>4, <1>5, <1>6, <1>7

LEMMA BeginStep ==
    ASSUME LineInv, Probe \/ Resume
    PROVE  LineInv' /\ state' # "suspended"
  <1> USE DEF line, hand, rails
  <1>1. CASE Probe
    BY <1>1 DEF Probe, Begin, LineInv, PowerOn
  <1>2. CASE Resume
    BY <1>2 DEF Resume, Begin, LineInv, PowerOn
  <1>3. QED BY <1>1, <1>2

LEMMA ReleasedStep == ReleasedInv /\ [Next]_vars => ReleasedInv'
  <1> SUFFICES ASSUME ReleasedInv, [Next]_vars PROVE ReleasedInv'
    OBVIOUS
  <1> USE DEF ReleasedInv, SuspendedReleased, rails, line, hand
  <1>1. CASE Probe \/ Resume
    BY <1>1, BeginStep
  <1>2. CASE \/ SystemReset \/ PollReady \/ PollError \/ ReadIds \/ SetTouchFunction
             \/ WriteCommand \/ PollEcho \/ BusError
    BY <1>2, BringUpStep
  <1>3. CASE SuspendBegin
    BY <1>3 DEF SuspendBegin, LineInv
  <1>4. CASE SuspendEnd
    <2>1. vdd' = 0 /\ avdd' = 0 /\ state' = "suspended" /\ irq = "idle"
      BY <1>4, PowerOffFacts DEF SuspendEnd, LineInv
    <2>2. \A t \in Tids : ~slot'[t]
      BY <1>4 DEF SuspendEnd, release_all
    <2>3. LineInv'
      BY <1>4, <2>1 DEF SuspendEnd, LineInv
    <2>4. QED BY <2>2, <2>3
  <1>5. CASE Remove
    BY <1>5, PowerOffFacts DEF Remove, LineInv
  <1>6. CASE Handler
    <2>1. state = "on" /\ depth = 0 /\ requested /\ UNCHANGED <<driver, rails, line>>
      BY <1>6 DEF Handler, IrqBegin, IrqReadAll, IrqReport, IrqEnd, LineInv
    <2>2. state' = "on" /\ depth' = 0 /\ requested' /\ vdd' = vdd /\ avdd' = avdd
      BY <2>1 DEF driver
    <2>3. QED BY <2>1, <2>2 DEF LineInv
  <1>7. CASE UNCHANGED <<state, vdd, avdd, requested, depth, irq, slot>>
    BY <1>7 DEF LineInv
  <1>8. CASE IcBoots
    BY <1>7, <1>8 DEF IcBoots, driver
  <1>9. ASSUME NEW t \in Contacts, FingerDown(t) \/ FingerMove(t) \/ FingerUp(t)
        PROVE ReleasedInv'
    BY <1>7, <1>9 DEF FingerDown, FingerMove, FingerUp, Touch, driver
  <1>10. CASE UNCHANGED vars
    BY <1>7, <1>10 DEF vars, driver
  <1>11. QED
    BY <1>1, <1>2, <1>3, <1>4, <1>5, <1>6, <1>8, <1>9, <1>10
    DEF Next, Core, Environment

LEMMA ReleasedAlways == Spec => []ReleasedInv
  <1>1. ASSUME Init PROVE ReleasedInv
    <2>1. state = "unbound" /\ vdd = 0 /\ avdd = 0
      BY <1>1 DEF Init
    <2>2. requested = FALSE /\ depth = 0 /\ irq = "idle"
      BY <1>1 DEF Init
    <2>3. LineInv
      <3>1. requested \in BOOLEAN /\ ~requested
        BY <2>2, Zenon
      <3>2. QED BY <2>1, <2>2, <3>1 DEF LineInv
    <2>4. QED BY <2>1, <2>3 DEF ReleasedInv, SuspendedReleased
  <1>2. QED BY <1>1, ReleasedStep, PTL DEF Spec

LEMMA BalanceLeave ==
    ASSUME LineInv, BalanceInv, BringUp, NEW ok \in BOOLEAN, NEW events, Leave(ok, events)
    PROVE  BalanceInv'
  <1>1. CASE state = "resume"
    <2>1. state' = "on" /\ depth' = depth - 1 /\ UNCHANGED <<vdd, norail, underflow>>
      BY <1>1 DEF Leave, ResumeDone, enable_irq, rails
    <2>2. QED BY <1>1, <2>1 DEF LineInv, BalanceInv
  <1>2. CASE state = "probe" /\ ok
    <2>1. state' = "on" /\ depth' = 0 /\ UNCHANGED <<vdd, norail, underflow>>
      BY <1>2 DEF Leave, rails
    <2>2. QED BY <1>2, <2>1 DEF LineInv, BalanceInv
  <1>3. CASE state = "probe" /\ ~ok
    <2>1. state' = "unbound" /\ PowerOff
      BY <1>3 DEF Leave, ProbeFailed
    <2>2. ~norail /\ vdd = 1 /\ avdd = 1 /\ ~underflow
      BY <1>3 DEF LineInv, BalanceInv
    <2>3. norail' = FALSE /\ ~underflow'
      BY <1>3, <2>1, <2>2 DEF PowerOff
    <2>4. norail' \in BOOLEAN /\ underflow' \in BOOLEAN
      BY <2>1, <2>3, UnderflowType DEF BalanceInv
    <2>5. QED BY <2>1, <2>3, <2>4 DEF BalanceInv
  <1>4. QED BY <1>1, <1>2, <1>3 DEF BringUp

LEMMA BalanceStep == LineInv /\ BalanceInv /\ [Next]_vars => BalanceInv'
  <1> SUFFICES ASSUME LineInv, BalanceInv, [Next]_vars PROVE BalanceInv'
    OBVIOUS
  <1> USE DEF rails, line, hand
  <1>1. CASE UNCHANGED <<state, vdd, norail, underflow, depth>>
    BY <1>1 DEF BalanceInv
  <1>2. CASE \/ SystemReset \/ PollReady \/ PollError \/ ReadIds \/ SetTouchFunction
             \/ WriteCommand \/ PollEcho \/ BusError
    <2>1. BringUp
      BY <1>2 DEF SystemReset, PollReady, PollError, ReadIds, SetTouchFunction,
         WriteCommand, PollEcho, BusError
    <2>2. \/ UNCHANGED <<state, vdd, norail, underflow, depth>>
          \/ \E ok \in {TRUE, FALSE}, e \in {fifo, Popped} : Leave(ok, e)
      <3>1. CASE SystemReset \/ ReadIds \/ SetTouchFunction \/ WriteCommand
        BY <3>1 DEF SystemReset, ReadIds, SetTouchFunction, WriteCommand, Advance
      <3>2. CASE PollReady \/ PollError
        BY <3>2 DEF PollReady, PollError, Advance
      <3>3. CASE BusError
        BY <3>3 DEF BusError, Advance
      <3>4. CASE PollEcho
        <4>1. CASE (ReadOne = Ev("echo", step) \/ retry > ECHO_POLLS) /\ step = "scan"
          <5>1. PICK ok \in {TRUE, state = "resume"} : Leave(ok, Popped)
            BY <3>4, <4>1 DEF PollEcho
          <5>2. ok \in {TRUE, FALSE}
            BY <5>1
          <5>3. QED BY <5>1, <5>2
        <4>2. CASE ~((ReadOne = Ev("echo", step) \/ retry > ECHO_POLLS) /\ step = "scan")
          BY <3>4, <4>2 DEF PollEcho, Advance
        <4>3. QED BY <4>1, <4>2
      <3>5. QED BY <1>2, <3>1, <3>2, <3>3, <3>4
    <2>3. QED BY <1>1, <2>1, <2>2, BalanceLeave
  <1>3. CASE Probe
    BY <1>3 DEF Probe, Begin, LineInv, BalanceInv, PowerOn
  <1>4. CASE Resume
    <2>1. /\ state = "suspended" /\ depth' = depth /\ ~underflow'
          /\ underflow' = underflow
          /\ \/ state' = "resume" /\ norail' = norail
             \/ state' = "on" /\ norail' = TRUE
      BY <1>4 DEF Resume, Begin, PowerOn, BalanceInv
    <2>2. norail' \in BOOLEAN /\ underflow' \in BOOLEAN
      BY <2>1, Zenon DEF BalanceInv
    <2>3. QED BY <2>1, <2>2 DEF BalanceInv
  <1>5. CASE SuspendBegin
    BY <1>5 DEF SuspendBegin, LineInv, BalanceInv
  <1>6. CASE SuspendEnd
    <2>1. state = "suspending" /\ state' = "suspended" /\ depth' = depth /\ PowerOff
      BY <1>6 DEF SuspendEnd
    <2>2. ~norail' <=> ~norail
      BY <2>1, Zenon DEF PowerOff
    <2>3. ~underflow' /\ norail' \in BOOLEAN
      BY <2>1 DEF PowerOff, LineInv, BalanceInv
    <2>4. underflow' \in BOOLEAN
      BY <2>1, UnderflowType DEF BalanceInv
    <2>5. QED BY <2>1, <2>2, <2>3, <2>4 DEF BalanceInv
  <1>7. CASE Remove
    <2>1. state = "on" /\ state' = "unbound" /\ PowerOff
      BY <1>7 DEF Remove
    <2>2. ~norail'
      BY <2>1, Zenon DEF PowerOff
    <2>3. ~underflow' /\ norail' \in BOOLEAN
      BY <2>1 DEF PowerOff, LineInv, BalanceInv
    <2>4. underflow' \in BOOLEAN
      BY <2>1, UnderflowType DEF BalanceInv
    <2>5. QED BY <2>1, <2>2, <2>3, <2>4 DEF BalanceInv
  <1>8. CASE Handler \/ IcBoots \/ UNCHANGED vars
    BY <1>1, <1>8 DEF Handler, IrqBegin, IrqReadAll, IrqReport, IrqEnd, IcBoots, driver, vars
  <1>9. ASSUME NEW t \in Contacts, FingerDown(t) \/ FingerMove(t) \/ FingerUp(t)
        PROVE BalanceInv'
    BY <1>1, <1>9 DEF FingerDown, FingerMove, FingerUp, Touch, driver
  <1>10. QED
    BY <1>2, <1>3, <1>4, <1>5, <1>6, <1>7, <1>8, <1>9 DEF Next, Core, Environment

LEMMA BalancedAlways == Spec => []BalanceInv
  <1>1. ASSUME Init PROVE BalanceInv
    <2>1. norail = FALSE /\ underflow = FALSE /\ state = "unbound"
      BY <1>1 DEF Init
    <2>2. norail \in BOOLEAN /\ underflow \in BOOLEAN /\ ~norail /\ ~underflow
      BY <2>1, Zenon
    <2>3. QED BY <2>1, <2>2 DEF BalanceInv
  <1>2. ReleasedInv => LineInv
    BY DEF ReleasedInv
  <1>3. QED BY <1>1, <1>2, BalanceStep, ReleasedAlways, PTL DEF Spec

\* Whatever fails and however often suspend and resume are repeated, the interrupt
\* handler never talks to a controller without power.
THEOREM HandlerHasPower == Spec => []IrqOnlyPowered
  <1>1. ReleasedInv => IrqOnlyPowered
    <2> SUFFICES ASSUME ReleasedInv, requested, depth = 0 \/ irq # "idle"
                 PROVE  vdd = 1 /\ avdd = 1
      BY DEF IrqOnlyPowered
    <2>1. depth = 0 /\ state = "on"
      BY DEF ReleasedInv, LineInv
    <2>2. QED BY <2>1 DEF ReleasedInv, LineInv
  <1>2. QED BY <1>1, ReleasedAlways, PTL

\* A suspended touchscreen reports no contact: disable_irq has waited for the
\* handler before release_all, so nothing activates a slot afterwards.
THEOREM NoContactInSuspend == Spec => []SuspendedReleased
  <1>1. ReleasedInv => SuspendedReleased
    BY DEF ReleasedInv
  <1>2. QED BY <1>1, ReleasedAlways, PTL

\* No rail is given back twice, and none is held while unbound or suspended, over
\* any sequence of probe, suspend, resume and remove in which resume finds power.
THEOREM RailsStayBalanced == Spec => []RailsBalanced
  <1>1. ReleasedInv /\ BalanceInv => RailsBalanced
    BY DEF ReleasedInv, LineInv, BalanceInv, RailsBalanced
  <1>2. QED BY <1>1, ReleasedAlways, BalancedAlways, PTL

\* After any number of suspends, bus errors and silent controllers the device that is
\* on is powered and listens, unless a resume found no power.
THEOREM ResumeListens == Spec => []ListensAfterResume
  <1>1. BalanceInv => ListensAfterResume
    BY DEF BalanceInv, ListensAfterResume
  <1>2. QED BY <1>1, BalancedAlways, PTL
-----------------------------------------------------------------------------
(***************************************************************************)
(* Type correctness.  LineInv and BalanceInv already type the driver core, *)
(* the rails and the line; what is left is the rest of TypeOK.             *)
(***************************************************************************)

LEMMA EventType ==
    /\ Coordinate \subseteq Event
    /\ \A k \in {"full", "ready", "error", "none"} : Ev(k, "ic") \in Event
    /\ \A c \in Commands : Ev("echo", c) \in Event
    /\ \A k, i : Ev(k, i).kind = k /\ Ev(k, i).id = i /\ Ev(k, i).listed
  BY DEF Ev, Event, Coordinate

LEMMA PostedType ==
    ASSUME fifo \in Seq(Event), NEW e \in Event
    PROVE  Posted(e) \in Seq(Event)
  BY EventType, AppendProperties DEF Posted

LEMMA PoppedType ==
    ASSUME fifo \in Seq(Event)
    PROVE  Popped \in Seq(Event)
  <1>1. CASE fifo = <<>>
    BY <1>1 DEF Popped
  <1>2. CASE fifo # <<>>
    BY <1>2, HeadTailProperties DEF Popped
  <1>3. QED BY <1>1, <1>2

\* The bring-up's counters stay below the limits of its loops.
LoopType ==
    /\ step \in Steps /\ polling \in BOOLEAN
    /\ retry \in 0..READY_POLLS + ECHO_POLLS + 1 /\ err_cnt \in 0..ERROR_POLLS + 1

LEMMA LoopStep ==
    ASSUME LoopType, [Next]_vars
    PROVE  LoopType'
  <1>0. READY_POLLS \in Nat /\ ECHO_POLLS \in Nat /\ ERROR_POLLS \in Nat
    BY LimitsAssumption
  <1>1. ASSUME NEW s \in Steps, GoTo(s) PROVE LoopType'
    <2>1. polling' \in BOOLEAN
      BY <1>1, Zenon DEF GoTo
    <2>2. step' \in Steps /\ retry' = 0 /\ err_cnt' = 0
      BY <1>1 DEF GoTo
    <2>3. QED BY <1>0, <2>1, <2>2 DEF LoopType
  <1>2. "reset" \in Steps /\ Following \in Steps
    BY DEF Steps, Commands, Following
  <1>3. CASE UNCHANGED <<step, polling, retry, err_cnt>>
    BY <1>3 DEF LoopType
  <1>4. ASSUME NEW ok, NEW events, Leave(ok, events) PROVE LoopType'
    BY <1>1, <1>2, <1>4 DEF Leave
  <1>5. CASE Probe \/ Resume
    BY <1>1, <1>2, <1>5 DEF Probe, Resume, Begin
  <1>6. CASE SystemReset \/ ReadIds \/ SetTouchFunction \/ BusError
    BY <1>1, <1>2, <1>4, <1>6 DEF SystemReset, ReadIds, SetTouchFunction, BusError, Advance
  <1>7. CASE PollReady
    <2>1. CASE ReadOne.kind # "ready" /\ ~(retry > READY_POLLS)
      <3>1. retry' = retry + 1 /\ UNCHANGED <<step, polling, err_cnt>>
        BY <1>7, <2>1 DEF PollReady
      <3>2. QED BY <1>0, <2>1, <3>1 DEF LoopType
    <2>2. CASE ~(ReadOne.kind # "ready" /\ ~(retry > READY_POLLS))
      <3>1. Advance \/ Leave(FALSE, Popped)
        BY <1>7, <2>2 DEF PollReady
      <3>2. QED BY <1>1, <1>2, <1>4, <3>1 DEF Advance
    <2>3. QED BY <2>1, <2>2
  <1>8. CASE PollError
    <2>1. CASE err_cnt > ERROR_POLLS
      BY <1>4, <1>8, <2>1 DEF PollError
    <2>2. CASE ~(err_cnt > ERROR_POLLS)
      BY <1>0, <1>8, <2>2 DEF PollError, LoopType, ErrorsSeen
    <2>3. QED BY <2>1, <2>2
  <1>9. CASE WriteCommand
    BY <1>9 DEF WriteCommand, LoopType
  <1>10. CASE PollEcho
    <2>1. CASE ReadOne = Ev("echo", step) \/ retry > ECHO_POLLS
      BY <1>1, <1>2, <1>4, <1>10, <2>1 DEF PollEcho, Advance
    <2>2. CASE ~(ReadOne = Ev("echo", step) \/ retry > ECHO_POLLS)
      BY <1>0, <1>10, <2>2 DEF PollEcho, LoopType
    <2>3. QED BY <2>1, <2>2
  <1>11. CASE SuspendBegin \/ SuspendEnd \/ Remove \/ IcBoots \/ UNCHANGED vars
    BY <1>3, <1>11 DEF SuspendBegin, SuspendEnd, Remove, IcBoots, driver, vars
  <1>12. CASE Handler
    BY <1>3, <1>12 DEF Handler, IrqBegin, IrqReadAll, IrqReport, IrqEnd, driver
  <1>13. ASSUME NEW t \in Contacts, FingerDown(t) \/ FingerMove(t) \/ FingerUp(t)
         PROVE LoopType'
    BY <1>3, <1>13 DEF FingerDown, FingerMove, FingerUp, Touch, driver
  <1>14. QED
    BY <1>5, <1>6, <1>7, <1>8, <1>9, <1>10, <1>11, <1>12, <1>13
    DEF Next, Core, Environment

\* The handler's variables, the slots, the fingers and the controller's FIFO.
FlowType ==
    /\ irq \in {"idle", "rest", "report"} /\ batch \in Seq(Event) /\ left \in Nat
    /\ missed \subseteq Tids
    /\ slot \in [Tids -> BOOLEAN] /\ finger \in [Contacts -> BOOLEAN]
    /\ ic \in {"off", "cold", "booting", "ready", "scanning"} /\ fifo \in Seq(Event)

\* A read takes a front part of the FIFO and leaves the rest.
LEMMA TakeFacts ==
    ASSUME NEW s \in Seq(Event), NEW n \in 0..Len(s)
    PROVE  /\ SubSeq(s, 1, n) \in Seq(Event) /\ Len(SubSeq(s, 1, n)) = n
           /\ \A i \in 1..n : SubSeq(s, 1, n)[i] = s[i]
           /\ SubSeq(s, n + 1, Len(s)) \in Seq(Event)
           /\ Len(SubSeq(s, n + 1, Len(s))) = Len(s) - n
           /\ \A i \in 1..(Len(s) - n) : SubSeq(s, n + 1, Len(s))[i] = s[n + i]
  <1>1. Len(s) \in Nat /\ \A i \in 1..Len(s) : s[i] \in Event
    BY ElementOfSeq
  <1>2. /\ SubSeq(s, 1, n) \in Seq(Event) /\ Len(SubSeq(s, 1, n)) = n
        /\ \A i \in 1..n : SubSeq(s, 1, n)[i] = s[i]
    BY <1>1, SubSeqProperties
  <1> DEFINE m == n + 1
             rest == SubSeq(s, m, Len(s))
  <1>3. m \in Int /\ \A i \in m..Len(s) : s[i] \in Event
    BY <1>1
  <1>4. /\ rest \in Seq(Event)
        /\ Len(rest) = IF m <= Len(s) THEN Len(s) - m + 1 ELSE 0
        /\ \A i \in 1..(Len(s) - m + 1) : rest[i] = s[m + i - 1]
    BY <1>1, <1>3, SubSeqProperties
  <1> HIDE DEF rest
  <1>5. Len(rest) = Len(s) - n
    BY <1>1, <1>4
  <1>6. \A i \in 1..(Len(s) - n) : rest[i] = s[n + i]
    <2> SUFFICES ASSUME NEW i \in 1..(Len(s) - n) PROVE rest[i] = s[n + i]
      OBVIOUS
    <2>1. m + i - 1 = n + i /\ i \in 1..(Len(s) - m + 1)
      BY <1>1
    <2>2. QED BY <1>4, <2>1
  <1>7. QED BY <1>2, <1>4, <1>5, <1>6 DEF rest

(***************************************************************************)
(* Between two interrupts nothing is read and not yet reported; READ_ALL   *)
(* has one event before it and takes no more than the FIFO holds.          *)
(***************************************************************************)
HandInv ==
    /\ irq = "idle" => batch = <<>>
    /\ irq = "rest" => Len(batch) = 1 /\ left \in 0..Len(fifo)

\* What the steps of probe and resume do to the FIFO, the chip and the state.
LEMMA BringUpEffect ==
    ASSUME \/ SystemReset \/ PollReady \/ PollError \/ ReadIds \/ SetTouchFunction
           \/ WriteCommand \/ PollEcho \/ BusError
    PROVE  /\ BringUp /\ UNCHANGED <<irq, batch, left, missed, slot, finger>>
           /\ \/ state' \in {state, "on"}
              \/ state' = "unbound" /\ fifo' = <<>> /\ ic' = "off"
           /\ \/ fifo' \in {fifo, Popped} /\ (ic' = ic \/ SystemReset)
              \/ fifo' = <<>> /\ ic' = "off"
              \/ WriteCommand
  <1> USE DEF rails, line, hand, chip
  <1>1. ASSUME NEW ok, NEW events, BringUp, Leave(ok, events)
        PROVE  /\ UNCHANGED <<irq, batch, left, missed, slot, finger>>
               /\ \/ state' = "on" /\ fifo' = events /\ ic' = ic
                  \/ state' = "unbound" /\ fifo' = <<>> /\ ic' = "off"
    <2>1. UNCHANGED <<irq, batch, left, missed, slot, finger>>
      BY <1>1 DEF Leave
    <2>2. CASE state = "resume" \/ ok
      BY <1>1, <2>2 DEF Leave
    <2>3. CASE ~(state = "resume" \/ ok)
      BY <1>1, <2>3 DEF Leave, ProbeFailed, PowerOff
    <2>4. QED BY <2>1, <2>2, <2>3
  <1>2. CASE BusError
    BY <1>1, <1>2 DEF BusError, Advance
  <1>3. CASE PollReady
    BY <1>1, <1>3 DEF PollReady, Advance
  <1>4. CASE PollError
    BY <1>1, <1>4 DEF PollError
  <1>5. CASE ReadIds \/ SetTouchFunction \/ SystemReset \/ WriteCommand
    BY <1>1, <1>5 DEF ReadIds, SetTouchFunction, SystemReset, WriteCommand, Advance
  <1>6. CASE PollEcho
    BY <1>1, <1>6 DEF PollEcho, Advance
  <1>7. QED BY <1>2, <1>3, <1>4, <1>5, <1>6

LEMMA BringUpFlow ==
    ASSUME LineInv, FlowType, HandInv,
           \/ SystemReset \/ PollReady \/ PollError \/ ReadIds \/ SetTouchFunction
           \/ WriteCommand \/ PollEcho \/ BusError
    PROVE  FlowType' /\ HandInv'
  <1>1. irq = "idle" /\ UNCHANGED <<irq, batch, left, missed, slot, finger>>
    BY BringUpEffect DEF LineInv, BringUp
  <1>2. <<>> \in Seq(Event) /\ Popped \in Seq(Event)
    BY PoppedType, EmptySeq DEF FlowType
  <1>3. WriteCommand => fifo' \in Seq(Event) /\ ic' \in {ic, "scanning"}
    <2> SUFFICES ASSUME WriteCommand PROVE fifo' \in Seq(Event) /\ ic' \in {ic, "scanning"}
      OBVIOUS
    <2>1. PICK kept \in {<<>>, fifo} : fifo' \in {kept, Append(kept, Ev("echo", step))}
      BY DEF WriteCommand
    <2>2. Ev("echo", step) \in Event
      BY EventType DEF WriteCommand
    <2>3. fifo' \in Seq(Event)
      <3>1. kept \in Seq(Event)
        BY <1>2, <2>1 DEF FlowType
      <3>2. Append(kept, Ev("echo", step)) \in Seq(Event)
        BY <2>2, <3>1, AppendProperties
      <3>3. QED BY <2>1, <3>1, <3>2
    <2>4. QED BY <2>3 DEF WriteCommand
  <1>4. SystemReset => ic' = "booting"
    BY DEF SystemReset
  <1>5. fifo' \in Seq(Event) /\ ic' \in {"off", "cold", "booting", "ready", "scanning"}
    BY <1>2, <1>3, <1>4, BringUpEffect DEF FlowType
  <1>6. QED BY <1>1, <1>5 DEF FlowType, HandInv

LEMMA FlowStep ==
    ASSUME LineInv, FlowType, HandInv, [Next]_vars
    PROVE  FlowType' /\ HandInv'
  <1> USE DEF driver, rails, line, hand, chip
  <1>0. /\ <<>> \in Seq(Event) /\ [t \in Tids |-> FALSE] \in [Tids -> BOOLEAN]
        /\ batch \in Seq(Event) /\ fifo \in Seq(Event) /\ missed \subseteq Tids
        /\ Len(fifo) \in Nat /\ FIFO_MAX \in Nat \ {0}
        /\ irq = "idle" => batch = <<>>
    BY LimitsAssumption DEF FlowType, HandInv
  <1>1. CASE Probe \/ Resume
    BY <1>1 DEF Probe, Resume, Begin, PowerOn, FlowType, HandInv
  <1>2. CASE \/ SystemReset \/ PollReady \/ PollError \/ ReadIds \/ SetTouchFunction
             \/ WriteCommand \/ PollEcho \/ BusError
    BY <1>2, BringUpFlow
  <1>3. CASE SuspendBegin \/ UNCHANGED vars
    BY <1>3 DEF SuspendBegin, vars, FlowType, HandInv
  <1>4. CASE SuspendEnd \/ Remove
    <2>1. irq = "idle" /\ PowerOff /\ release_all /\ UNCHANGED <<irq, batch, left, finger>>
      BY <1>4 DEF SuspendEnd, Remove, LineInv
    <2>2. slot' \in [Tids -> BOOLEAN] /\ missed' = {} /\ ic' = "off" /\ fifo' = <<>>
      BY <1>0, <2>1 DEF release_all, PowerOff
    <2>3. QED BY <1>0, <2>1, <2>2 DEF FlowType, HandInv
  <1>5. ASSUME NEW e \in Event
        PROVE Posted(e) \in Seq(Event) /\ Len(Posted(e)) \in Nat /\ Len(fifo) <= Len(Posted(e))
    <2>1. Posted(e) \in Seq(Event) /\ Ev("full", "ic") \in Event
      BY <1>0, PostedType, EventType
    <2>2. \A x \in Event : Len(Append(fifo, x)) = Len(fifo) + 1
      BY <1>0, AppendProperties
    <2>3. QED BY <1>0, <2>1, <2>2 DEF Posted
  <1>6. CASE IcBoots
    <2>1. /\ \E e \in Event : fifo' = Posted(e)
          /\ ic' \in {ic, "ready"} /\ UNCHANGED <<irq, batch, left, missed, slot, finger>>
      BY <1>6, EventType DEF IcBoots
    <2>2. fifo' \in Seq(Event) /\ Len(fifo') \in Nat /\ Len(fifo) <= Len(fifo')
      BY <1>5, <2>1
    <2>3. QED BY <1>0, <2>1, <2>2 DEF FlowType, HandInv
  <1>7. ASSUME NEW t \in Contacts, FingerDown(t) \/ FingerMove(t) \/ FingerUp(t)
        PROVE FlowType' /\ HandInv'
    <2>1. PICK kind \in {"press", "move", "release"} : Touch(t, kind)
      BY <1>7 DEF FingerDown, FingerMove, FingerUp
    <2>2. finger' \in [Contacts -> BOOLEAN]
      <3>1. (kind # "release") \in BOOLEAN
        OBVIOUS
      <3>2. QED BY <2>1, <3>1 DEF Touch, FlowType
    <2>3. fifo' = fifo \/ \E e \in Event : fifo' = Posted(e)
      BY <2>1, EventType DEF Touch
    <2>4. fifo' \in Seq(Event) /\ Len(fifo') \in Nat /\ Len(fifo) <= Len(fifo')
      BY <1>0, <1>5, <2>3
    <2>5. UNCHANGED <<irq, batch, left, missed, slot, ic>>
      BY <2>1 DEF Touch
    <2>6. QED BY <1>0, <2>2, <2>4, <2>5 DEF FlowType, HandInv
  <1>8. CASE IrqBegin
    <2>1. /\ fifo # <<>> /\ Head(fifo) \in Event /\ Tail(fifo) \in Seq(Event)
          /\ Len(Tail(fifo)) = Len(fifo) - 1
      BY <1>0, <1>8, HeadTailProperties DEF IrqBegin
    <2>2. fifo' = Tail(fifo) /\ UNCHANGED <<slot, ic, finger>> /\ irq = "idle"
      BY <1>8 DEF IrqBegin
    <2>3. CASE /\ batch' = <<Head(fifo)>> /\ irq' = IF left' > 0 THEN "rest" ELSE "report"
               /\ left' = IF Len(fifo) - 1 >= FIFO_MAX THEN FIFO_MAX - 1 ELSE Len(fifo) - 1
               /\ UNCHANGED missed
      <3>1. batch' \in Seq(Event) /\ Len(batch') = 1
        BY <2>1, <2>3
      <3>2. left' \in 0..Len(fifo') /\ left' \in Nat
        <4>1. Len(fifo) # 0
          BY <1>0, <2>1, EmptySeq
        <4>2. QED BY <1>0, <2>1, <2>2, <2>3, <4>1
      <3>3. QED BY <1>0, <2>1, <2>2, <2>3, <3>1, <3>2 DEF FlowType, HandInv
    <2>4. CASE UNCHANGED <<irq, batch, left>> /\ missed' = missed \cup Releases(<<Head(fifo)>>)
      <3>1. missed' \subseteq Tids
        BY <1>0, <2>4 DEF Releases
      <3>2. QED BY <1>0, <2>1, <2>2, <2>4, <3>1 DEF FlowType, HandInv
    <2>5. QED BY <1>8, <2>3, <2>4 DEF IrqBegin
  <1>9. CASE IrqReadAll
    <2>1. irq = "rest" /\ irq' = "report" /\ left' = 0 /\ UNCHANGED <<slot, ic, finger>>
          /\ left \in 0..Len(fifo)
      BY <1>9 DEF IrqReadAll, HandInv
    <2>2. SubSeq(fifo, 1, left) \in Seq(Event) /\ SubSeq(fifo, left + 1, Len(fifo)) \in Seq(Event)
      BY <1>0, <2>1, TakeFacts
    <2>3. batch \o SubSeq(fifo, 1, left) \in Seq(Event)
      BY <1>0, <2>2, ConcatProperties
    <2>4. Releases(SubSeq(fifo, 1, left)) \subseteq Tids
      BY DEF Releases
    <2>5. batch' \in Seq(Event) /\ fifo' \in Seq(Event) /\ missed' \subseteq Tids
      BY <1>0, <1>9, <2>2, <2>3, <2>4 DEF IrqReadAll
    <2>6. QED BY <2>1, <2>5 DEF FlowType, HandInv
  <1>10. CASE IrqReport
    <2>1. /\ irq = "report" /\ batch # <<>> /\ batch' = Tail(batch) /\ Head(batch) \in Event
          /\ Tail(batch) \in Seq(Event) /\ UNCHANGED <<irq, left, ic, fifo, finger>>
          /\ slot' = Reported(Head(batch)) /\ missed' \subseteq Tids
      BY <1>0, <1>10, HeadTailProperties DEF IrqReport, Releases
    <2>2. slot' \in [Tids -> BOOLEAN]
      <3> DEFINE e == Head(batch)
      <3>1. CASE e.kind \in {"press", "move", "release"} /\ e.id \in Tids /\ e.listed
        <4>1. (e.kind # "release") \in BOOLEAN /\ slot' = [slot EXCEPT ![e.id] = e.kind # "release"]
          BY <2>1, <3>1 DEF Reported
        <4> HIDE DEF e
        <4>2. QED BY <4>1 DEF FlowType
      <3>2. CASE ~(e.kind \in {"press", "move", "release"} /\ e.id \in Tids /\ e.listed)
        BY <1>0, <2>1, <3>2 DEF Reported, FlowType
      <3>3. QED BY <3>1, <3>2
    <2>3. QED BY <2>1, <2>2 DEF FlowType, HandInv
  <1>11. CASE IrqEnd
    BY <1>11 DEF IrqEnd, FlowType, HandInv
  <1>12. QED
    BY <1>1, <1>2, <1>3, <1>4, <1>6, <1>7, <1>8, <1>9, <1>10, <1>11
    DEF Next, Core, Handler, Environment

FlowInv == LineInv /\ BalanceInv /\ LoopType /\ FlowType /\ HandInv

LEMMA FlowAlways == Spec => []FlowInv
  <1>1. ASSUME Init PROVE LoopType /\ FlowType /\ HandInv
    <2>1. step = "reset" /\ retry = 0 /\ err_cnt = 0 /\ irq = "idle" /\ left = 0
          /\ batch = <<>> /\ missed = {} /\ ic = "off" /\ fifo = <<>>
          /\ slot = [t \in Tids |-> FALSE] /\ finger = [t \in Contacts |-> FALSE]
      BY <1>1 DEF Init
    <2>2. polling \in BOOLEAN
      BY <1>1, Zenon DEF Init
    <2>3. LoopType
      BY <2>1, <2>2, LimitsAssumption DEF LoopType, Steps
    <2>4. <<>> \in Seq(Event)
      BY EmptySeq
    <2>5. FlowType /\ HandInv
      BY <2>1, <2>4 DEF FlowType, HandInv
    <2>6. QED BY <2>3, <2>5
  <1>2. LineInv /\ LoopType /\ FlowType /\ HandInv /\ [Next]_vars
            => (LoopType /\ FlowType /\ HandInv)'
    BY LoopStep, FlowStep
  <1>3. ReleasedInv => LineInv
    BY DEF ReleasedInv
  <1>4. QED
    BY <1>1, <1>2, <1>3, ReleasedAlways, BalancedAlways, PTL DEF Spec, FlowInv

\* Every variable keeps its type whatever fails: the polling counters stay below
\* their limits and the nesting of the interrupt never goes negative.
THEOREM TypeCorrect == Spec => []TypeOK
  <1>1. FlowInv => TypeOK
    <2> SUFFICES ASSUME FlowInv PROVE TypeOK
      OBVIOUS
    <2>1. underflow \in BOOLEAN /\ norail \in BOOLEAN
      BY Zenon DEF FlowInv, BalanceInv
    <2>2. QED BY <2>1 DEF FlowInv, LineInv, LoopType, FlowType, TypeOK
  <1>2. QED BY <1>1, FlowAlways, PTL
-----------------------------------------------------------------------------
(***************************************************************************)
(* Ghost fingers.  A contact is announced by a press or a move that the    *)
(* driver reports and ended by its release, reported or not, or by an      *)
(* overflow.  What becomes of a slot is settled by the events still in the *)
(* FIFO, and before them by those already read:                            *)
(*                                                                         *)
(*  - a queue announces t as Active when an announcement in it is not      *)
(*    followed by an end;                                                  *)
(*  - a slot that will be active when all is reported either has its       *)
(*    finger, and the FIFO has room to tell of its release, or that        *)
(*    release went with a read that failed or was of a type not listed;    *)
(*  - a read can only have taken that release along when it left just one  *)
(*    event to report.                                                     *)
(*                                                                         *)
(* Room is needed because the controller drops events silently when it     *)
(* holds more than FIFO_DEPTH; by then the overflow is in the FIFO.        *)
(***************************************************************************)

Starts(e, t) == e.kind \in {"press", "move"} /\ e.id = t /\ e.listed
Ends(e, t) == e.kind = "full" \/ (e.kind = "release" /\ e.id = t)
Ended(s, t) == \E i \in 1..Len(s) : Ends(s[i], t)
Active(s, t) ==
    \E i \in 1..Len(s) : Starts(s[i], t) /\ \A j \in (i + 1)..Len(s) : ~Ends(s[j], t)

Room == ic = "scanning" /\ Len(fifo) <= FIFO_DEPTH

Accounted(t) ==
    /\ Active(fifo, t) => finger[t] /\ Room
    /\ ~Ended(fifo, t) /\ Active(batch, t) =>
          \/ t \in missed /\ irq = "report" /\ Len(batch) = 1
          \/ finger[t] /\ Room
    /\ ~Ended(fifo, t) /\ ~Ended(batch, t) /\ slot[t] =>
          t \in missed \/ (finger[t] /\ Room)

GhostInv ==
    /\ \A t \in Tids : Accounted(t)
    /\ state \in {"unbound", "suspended"} => fifo = <<>> /\ ic = "off"
    /\ BringUp /\ ic = "scanning" => step = "scan" /\ polling
    /\ BringUp \/ state \in {"unbound", "suspended"} => \A t \in Tids : ~slot[t]

LEMMA StartsOrEnds ==
    ASSUME NEW e \in Event, NEW t
    PROVE  Starts(e, t) => ~Ends(e, t)
  BY DEF Starts, Ends

LEMMA NoneQueued ==
    ASSUME NEW t
    PROVE  ~Active(<<>>, t) /\ ~Ended(<<>>, t)
  BY EmptySeq DEF Active, Ended

LEMMA OneQueued ==
    ASSUME NEW e, NEW t
    PROVE  /\ Active(<<e>>, t) => Starts(e, t)
           /\ Ended(<<e>>, t) <=> Ends(e, t)
  <1>1. Len(<<e>>) = 1 /\ <<e>>[1] = e /\ 1..1 = {1}
    OBVIOUS
  <1>2. QED BY <1>1 DEF Active, Ended

LEMMA AppendQueued ==
    ASSUME NEW s \in Seq(Event), NEW e \in Event, NEW t
    PROVE  /\ Active(Append(s, e), t) => Starts(e, t) \/ (Active(s, t) /\ ~Ends(e, t))
           /\ Ended(s, t) \/ Ends(e, t) => Ended(Append(s, e), t)
  <1> DEFINE r == Append(s, e)
  <1>1. /\ Len(s) \in Nat /\ Len(r) = Len(s) + 1 /\ r[Len(s) + 1] = e
        /\ \A i \in 1..Len(s) : r[i] = s[i]
    BY AppendProperties
  <1> HIDE DEF r
  <1>2. ASSUME Active(r, t), ~Starts(e, t) PROVE Active(s, t) /\ ~Ends(e, t)
    <2>1. PICK i \in 1..Len(r) : Starts(r[i], t) /\ \A j \in (i + 1)..Len(r) : ~Ends(r[j], t)
      BY <1>2 DEF Active
    <2>2. i \in 1..Len(s)
      BY <1>1, <1>2, <2>1
    <2>3. Len(s) + 1 \in (i + 1)..Len(r) /\ \A j \in (i + 1)..Len(s) : j \in (i + 1)..Len(r) /\ j \in 1..Len(s)
      BY <1>1, <2>2
    <2>4. QED BY <1>1, <2>1, <2>2, <2>3 DEF Active
  <1>3. Ended(s, t) \/ Ends(e, t) => Ended(r, t)
    BY <1>1 DEF Ended
  <1>4. QED BY <1>2, <1>3 DEF r

LEMMA TailQueued ==
    ASSUME NEW s \in Seq(Event), s # <<>>, NEW t
    PROVE  /\ Active(Tail(s), t) => Active(s, t)
           /\ Starts(Head(s), t) /\ ~Ended(Tail(s), t) => Active(s, t)
           /\ Ended(s, t) => Ends(Head(s), t) \/ Ended(Tail(s), t)
  <1> DEFINE r == Tail(s)
  <1>1. /\ Len(s) \in Nat \ {0} /\ Head(s) = s[1] /\ Len(r) = Len(s) - 1
        /\ \A i \in 1..Len(r) : r[i] = s[i + 1]
    BY EmptySeq, HeadTailProperties
  <1> HIDE DEF r
  <1>3. Active(r, t) => Active(s, t)
    <2> SUFFICES ASSUME NEW i \in 1..Len(r), Starts(r[i], t),
                        \A j \in (i + 1)..Len(r) : ~Ends(r[j], t)
                 PROVE  Active(s, t)
      BY DEF Active
    <2>1. i + 1 \in 1..Len(s) /\ Starts(s[i + 1], t)
      BY <1>1
    <2>2. ASSUME NEW j \in (i + 1 + 1)..Len(s) PROVE ~Ends(s[j], t)
      <3>1. j - 1 \in (i + 1)..Len(r) /\ j - 1 \in 1..Len(r) /\ (j - 1) + 1 = j
        BY <1>1
      <3>2. r[j - 1] = s[j]
        BY <1>1, <3>1
      <3>3. QED BY <3>1, <3>2
    <2>3. QED BY <2>1, <2>2 DEF Active
  <1>4. ASSUME Starts(Head(s), t), ~Ended(r, t) PROVE Active(s, t)
    <2>1. ASSUME NEW j \in (1 + 1)..Len(s) PROVE ~Ends(s[j], t)
      <3>1. j - 1 \in 1..Len(r) /\ (j - 1) + 1 = j
        BY <1>1
      <3>2. r[j - 1] = s[j]
        BY <1>1, <3>1
      <3>3. QED BY <1>4, <3>1, <3>2 DEF Ended
    <2>2. 1 \in 1..Len(s) /\ Starts(s[1], t)
      BY <1>1, <1>4
    <2>3. QED BY <2>1, <2>2 DEF Active
  <1>5. Ended(s, t) => Ends(Head(s), t) \/ Ended(r, t)
    <2> SUFFICES ASSUME NEW i \in 1..Len(s), Ends(s[i], t), i # 1 PROVE Ended(r, t)
      BY <1>1 DEF Ended
    <2>1. i - 1 \in 1..Len(r) /\ (i - 1) + 1 = i
      BY <1>1
    <2>2. r[i - 1] = s[i]
      BY <1>1, <2>1
    <2>3. QED BY <2>1, <2>2 DEF Ended
  <1>6. QED BY <1>3, <1>4, <1>5 DEF r

\* A read splits the FIFO in the events it takes and those it leaves.
LEMMA SplitQueued ==
    ASSUME NEW s \in Seq(Event), NEW n \in 0..Len(s), NEW t
    PROVE  LET a == SubSeq(s, 1, n)
               b == SubSeq(s, n + 1, Len(s))
           IN /\ Active(b, t) => Active(s, t)
              /\ Active(a, t) /\ ~Ended(b, t) => Active(s, t)
              /\ Ended(s, t) => Ended(a, t) \/ Ended(b, t)
  <1> DEFINE a == SubSeq(s, 1, n)
             b == SubSeq(s, n + 1, Len(s))
  <1>1. /\ Len(s) \in Nat /\ Len(a) = n /\ Len(b) = Len(s) - n
        /\ \A i \in 1..n : a[i] = s[i]
        /\ \A i \in 1..(Len(s) - n) : b[i] = s[n + i]
    BY TakeFacts
  <1> HIDE DEF a, b
  <1>2. ASSUME NEW j \in (n + 1)..Len(s)
        PROVE  j - n \in 1..Len(b) /\ b[j - n] = s[j]
    <2>1. j - n \in 1..(Len(s) - n) /\ n + (j - n) = j
      BY <1>1
    <2>2. QED BY <1>1, <2>1
  <1>3. Active(b, t) => Active(s, t)
    <2> SUFFICES ASSUME NEW i \in 1..Len(b), Starts(b[i], t),
                        \A j \in (i + 1)..Len(b) : ~Ends(b[j], t)
                 PROVE  Active(s, t)
      BY DEF Active
    <2>1. n + i \in 1..Len(s) /\ s[n + i] = b[i]
      BY <1>1
    <2>2. ASSUME NEW j \in (n + i + 1)..Len(s) PROVE ~Ends(s[j], t)
      <3>1. j \in (n + 1)..Len(s) /\ j - n \in (i + 1)..Len(b)
        BY <1>1
      <3>2. QED BY <1>2, <3>1
    <2>3. QED BY <2>1, <2>2 DEF Active
  <1>4. ASSUME Active(a, t), ~Ended(b, t) PROVE Active(s, t)
    <2>1. PICK i \in 1..Len(a) : Starts(a[i], t) /\ \A j \in (i + 1)..Len(a) : ~Ends(a[j], t)
      BY <1>4 DEF Active
    <2>2. i \in 1..Len(s) /\ s[i] = a[i]
      BY <1>1
    <2>3. ASSUME NEW j \in (i + 1)..Len(s) PROVE ~Ends(s[j], t)
      <3>1. CASE j <= n
        <4>1. j \in (i + 1)..Len(a) /\ a[j] = s[j]
          BY <1>1, <3>1
        <4>2. QED BY <2>1, <4>1
      <3>2. CASE j > n
        <4>1. j \in (n + 1)..Len(s)
          BY <1>1, <3>2
        <4>2. QED BY <1>2, <1>4, <4>1 DEF Ended
      <3>3. QED BY <1>1, <3>1, <3>2
    <2>4. QED BY <2>1, <2>2, <2>3 DEF Active
  <1>5. ASSUME Ended(s, t), ~Ended(b, t) PROVE Ended(a, t)
    <2>1. PICK i \in 1..Len(s) : Ends(s[i], t)
      BY <1>5 DEF Ended
    <2>2. ~(i \in (n + 1)..Len(s))
      BY <1>2, <1>5, <2>1 DEF Ended
    <2>3. i \in 1..Len(a) /\ a[i] = s[i]
      BY <1>1, <2>2
    <2>4. QED BY <2>1, <2>3 DEF Ended
  <1>6. QED BY <1>3, <1>4, <1>5 DEF a, b

\* READ_ALL puts what it takes behind what was read before.
LEMMA JoinQueued ==
    ASSUME NEW u \in Seq(Event), NEW a \in Seq(Event), NEW t
    PROVE  /\ Active(u \o a, t) => Active(a, t) \/ (Active(u, t) /\ ~Ended(a, t))
           /\ Ended(u, t) \/ Ended(a, t) => Ended(u \o a, t)
  <1> DEFINE r == u \o a
  <1>1. /\ Len(u) \in Nat /\ Len(a) \in Nat /\ Len(r) = Len(u) + Len(a)
        /\ \A i \in 1..Len(u) : r[i] = u[i]
    BY ConcatProperties
  <1>2. ASSUME NEW i \in 1..Len(a) PROVE Len(u) + i \in 1..Len(r) /\ r[Len(u) + i] = a[i]
    <2>1. Len(u) + i \in (Len(u) + 1)..(Len(u) + Len(a)) /\ (Len(u) + i) - Len(u) = i
      BY <1>1
    <2>2. r[Len(u) + i] = a[(Len(u) + i) - Len(u)]
      BY <1>1, <2>1, ConcatProperties
    <2>3. QED BY <1>1, <2>1, <2>2
  <1> HIDE DEF r
  <1>3. ASSUME NEW i \in 1..Len(r), i > Len(u)
        PROVE  i - Len(u) \in 1..Len(a) /\ r[i] = a[i - Len(u)]
    <2>1. i - Len(u) \in 1..Len(a) /\ Len(u) + (i - Len(u)) = i
      BY <1>1, <1>3
    <2>2. QED BY <1>2, <2>1
  <1>4. ASSUME Active(r, t), ~Active(a, t) PROVE Active(u, t) /\ ~Ended(a, t)
    <2>1. PICK i \in 1..Len(r) : Starts(r[i], t) /\ \A j \in (i + 1)..Len(r) : ~Ends(r[j], t)
      BY <1>4 DEF Active
    <2>2. ~(i > Len(u))
      <3> SUFFICES ASSUME i > Len(u) PROVE FALSE
        OBVIOUS
      <3>1. i - Len(u) \in 1..Len(a) /\ Starts(a[i - Len(u)], t)
        BY <1>3, <2>1
      <3>2. ASSUME NEW j \in (i - Len(u) + 1)..Len(a) PROVE ~Ends(a[j], t)
        <4>1. Len(u) + j \in (i + 1)..Len(r) /\ j \in 1..Len(a)
          BY <1>1, <3>1
        <4>2. QED BY <1>2, <2>1, <4>1
      <3>3. QED BY <1>4, <3>1, <3>2 DEF Active
    <2>3. i \in 1..Len(u) /\ Starts(u[i], t)
      BY <1>1, <2>1, <2>2
    <2>4. ASSUME NEW j \in (i + 1)..Len(u) PROVE ~Ends(u[j], t)
      <3>1. j \in (i + 1)..Len(r) /\ j \in 1..Len(u)
        BY <1>1, <2>3
      <3>2. QED BY <1>1, <2>1, <3>1
    <2>5. ASSUME NEW j \in 1..Len(a) PROVE ~Ends(a[j], t)
      <3>1. Len(u) + j \in (i + 1)..Len(r)
        BY <1>1, <2>3
      <3>2. QED BY <1>2, <2>1, <3>1
    <2>6. QED BY <2>3, <2>4, <2>5 DEF Active, Ended
  <1>5. Ended(u, t) \/ Ended(a, t) => Ended(r, t)
    <2>1. \A i \in 1..Len(u) : i \in 1..Len(r)
      BY <1>1
    <2>2. QED BY <1>1, <1>2, <2>1 DEF Ended
  <1>6. QED BY <1>4, <1>5 DEF r

\* The history of lost releases covers every end that a failed read took along.
LEMMA LostCovered ==
    ASSUME NEW s \in Seq(Event), NEW t \in Tids, Ended(s, t)
    PROVE  t \in Releases(s)
  <1>1. DOMAIN s = 1..Len(s)
    BY LenProperties
  <1>2. QED BY <1>1 DEF Ended, Ends, Releases

\* A slot stays accounted for when its finger and the room stay, nothing announces
\* it anew in the FIFO, and no end is taken out of it.
LEMMA AccountedQuiet ==
    ASSUME NEW t \in Tids, Accounted(t), UNCHANGED <<batch, slot, missed>>,
           batch = <<>> \/ (irq = "report" => irq' = "report"),
           finger[t] /\ Room => finger'[t] /\ Room',
           Active(fifo', t) => Active(fifo, t) \/ (finger'[t] /\ Room'),
           Ended(fifo, t) => Ended(fifo', t)
    PROVE  Accounted(t)'
  BY NoneQueued DEF Accounted, Active, Ended

\* While probe or resume runs no slot is active and nothing is half read.
LEMMA AccountedReleased ==
    ASSUME NEW t \in Tids, ~slot'[t], batch' = <<>>, ~Active(fifo', t)
    PROVE  Accounted(t)'
  BY NoneQueued DEF Accounted, Active

LEMMA PostedQueued ==
    ASSUME fifo \in Seq(Event), NEW e \in Event, NEW t \in Tids, FIFO_DEPTH \in Nat
    PROVE  /\ Active(Posted(e), t) => Active(fifo, t) \/ (Starts(e, t) /\ Len(fifo) < FIFO_DEPTH)
           /\ Ended(fifo, t) => Ended(Posted(e), t)
           /\ Ends(e, t) /\ Len(fifo) <= FIFO_DEPTH =>
                 Ended(Posted(e), t) /\ ~Active(Posted(e), t)
           /\ Len(fifo) > FIFO_DEPTH => Posted(e) = fifo
           /\ Len(fifo) <= FIFO_DEPTH =>
                 \/ Len(Posted(e)) <= FIFO_DEPTH
                 \/ Ended(Posted(e), t) /\ ~Active(Posted(e), t)
  <1>1. /\ Ev("full", "ic") \in Event /\ Len(fifo) \in Nat
        /\ \A u \in Tids : Ends(Ev("full", "ic"), u) /\ ~Starts(Ev("full", "ic"), u)
    BY EventType DEF Ends, Starts
  <1>2. CASE Len(fifo) < FIFO_DEPTH
    <2>1. Posted(e) = Append(fifo, e) /\ Len(Append(fifo, e)) = Len(fifo) + 1
      BY <1>2, AppendProperties DEF Posted
    <2>2. Starts(e, t) => ~Ends(e, t)
      BY StartsOrEnds
    <2>3. QED BY <1>1, <1>2, <2>1, <2>2, AppendQueued
  <1>3. CASE Len(fifo) = FIFO_DEPTH
    <2>1. Posted(e) = Append(fifo, Ev("full", "ic"))
      BY <1>3 DEF Posted
    <2>2. \A u \in Tids : /\ Ended(Append(fifo, Ev("full", "ic")), u)
                          /\ ~Active(Append(fifo, Ev("full", "ic")), u)
      BY <1>1, AppendQueued
    <2>3. QED BY <1>1, <1>3, <2>1, <2>2
  <1>4. CASE Len(fifo) > FIFO_DEPTH
    BY <1>1, <1>4 DEF Posted
  <1>5. QED BY <1>1, <1>2, <1>3, <1>4

LEMMA EnvironmentAccounts ==
    ASSUME FlowType, NEW t \in Tids, Accounted(t),
           IcBoots \/ \E u \in Contacts : FingerDown(u) \/ FingerMove(u) \/ FingerUp(u)
    PROVE  Accounted(t)'
  <1>0. FIFO_DEPTH \in Nat /\ Len(fifo) \in Nat /\ fifo \in Seq(Event)
        /\ finger \in [Contacts -> BOOLEAN] /\ t \in Contacts
    BY LimitsAssumption DEF FlowType
  <1>1. CASE IcBoots
    <2>1. PICK e \in {Ev("ready", "ic"), Ev("error", "ic")} : fifo' = Posted(e)
      BY <1>1 DEF IcBoots
    <2>2. e \in Event /\ ~Starts(e, t) /\ ~Room
      BY <1>1, <2>1, EventType DEF Starts, Room, IcBoots
    <2>3. UNCHANGED <<finger, batch, slot, missed, irq>>
      BY <1>1 DEF IcBoots, hand
    <2>4. QED BY <1>0, <2>1, <2>2, <2>3, PostedQueued, AccountedQuiet
  <1>2. ASSUME NEW u \in Contacts, FingerDown(u) \/ FingerMove(u) \/ FingerUp(u)
        PROVE Accounted(t)'
    <2>1. PICK kind \in {"press", "move", "release"} : Touch(u, kind)
      BY <1>2 DEF FingerDown, FingerMove, FingerUp
    <2>2. /\ UNCHANGED <<batch, slot, missed, ic, irq>>
          /\ finger'[u] = (kind # "release") /\ (t # u => finger'[t] = finger[t])
      BY <1>0, <2>1 DEF Touch, hand
    <2>3. PICK e \in Event :
             /\ fifo' = (IF ic = "scanning" THEN Posted(e) ELSE fifo)
             /\ kind = "release" /\ t = u => Ends(e, t)
             /\ Starts(e, t) => t = u /\ kind # "release"
      <3>1. CASE ic = "scanning"
        <4>1. PICK e \in Coordinate : e.kind = kind /\ e.id = u /\ fifo' = Posted(e)
          BY <2>1, <3>1 DEF Touch
        <4>2. QED BY <3>1, <4>1, EventType DEF Ends, Starts
      <3>2. CASE ic # "scanning"
        <4>1. fifo' = fifo
          BY <2>1, <3>2 DEF Touch
        <4>2. Ev("full", "ic") \in Event /\ Ends(Ev("full", "ic"), t) /\ ~Starts(Ev("full", "ic"), t)
          BY EventType DEF Ends, Starts
        <4>3. QED BY <3>2, <4>1, <4>2
      <3>3. QED BY <3>1, <3>2
    <2>4. CASE ~Room
      <3>1. fifo' = fifo
        BY <1>0, <2>2, <2>3, <2>4, PostedQueued DEF Room
      <3>2. QED BY <2>2, <2>4, <3>1, AccountedQuiet
    <2>5. CASE Room
      <3>1. fifo' = Posted(e) /\ Len(fifo) <= FIFO_DEPTH
        BY <2>2, <2>3, <2>5 DEF Room
      <3>2. CASE Ended(fifo', t) /\ ~Active(fifo', t)
        BY <3>2 DEF Accounted, Ended, Active
      <3>3. CASE ~(Ended(fifo', t) /\ ~Active(fifo', t))
        <4>1. Len(fifo') <= FIFO_DEPTH /\ ~(kind = "release" /\ t = u)
          BY <1>0, <2>2, <2>3, <3>1, <3>3, PostedQueued
        <4>2. Room'
          BY <2>2, <2>5, <4>1 DEF Room
        <4>3. t = u => finger'[t]
          BY <2>2, <4>1
        <4>4. QED BY <1>0, <2>2, <2>3, <3>1, <4>2, <4>3, PostedQueued, AccountedQuiet
      <3>4. QED BY <3>2, <3>3
    <2>6. QED BY <2>4, <2>5
  <1>3. QED BY <1>1, <1>2

\* The handler moves events on, or a failed read loses them.
LEMMA HandlerAccounts ==
    ASSUME FlowType, HandInv, NEW t \in Tids, Accounted(t), Handler
    PROVE  Accounted(t)'
  <1>0. /\ fifo \in Seq(Event) /\ batch \in Seq(Event) /\ slot \in [Tids -> BOOLEAN]
        /\ Len(fifo) \in Nat /\ FIFO_DEPTH \in Nat
        /\ ~Active(<<>>, t) /\ ~Ended(<<>>, t)
    BY LimitsAssumption, NoneQueued DEF FlowType
  <1>1. CASE IrqBegin
    <2>1. /\ fifo # <<>> /\ batch = <<>> /\ fifo' = Tail(fifo)
          /\ UNCHANGED <<slot, ic, finger>>
      BY <1>1 DEF IrqBegin, HandInv
    <2>2. /\ Len(fifo') <= Len(fifo)
          /\ Active(fifo', t) => Active(fifo, t)
          /\ Starts(Head(fifo), t) /\ ~Ended(fifo', t) => Active(fifo, t)
          /\ Ended(fifo, t) => Ends(Head(fifo), t) \/ Ended(fifo', t)
      BY <1>0, <2>1, HeadTailProperties, TailQueued
    <2>3. Room => Room'
      <3>1. Len(fifo') \in Nat
        BY <1>0, <2>1, HeadTailProperties
      <3>2. QED BY <1>0, <2>1, <2>2, <3>1 DEF Room
    <2>4. CASE batch' = <<Head(fifo)>> /\ UNCHANGED missed
      <3>1. /\ Active(batch', t) => Starts(Head(fifo), t)
            /\ Ended(batch', t) <=> Ends(Head(fifo), t)
        BY <2>4, OneQueued
      <3>2. QED BY <1>0, <2>1, <2>2, <2>3, <2>4, <3>1 DEF Accounted
    <2>5. CASE UNCHANGED batch /\ missed' = missed \cup Releases(<<Head(fifo)>>)
      <3>1. Head(fifo) \in Event /\ <<Head(fifo)>> \in Seq(Event)
        BY <1>0, <2>1, HeadTailProperties
      <3>2. Ends(Head(fifo), t) => t \in missed'
        BY <2>5, <3>1, OneQueued, LostCovered
      <3>3. QED BY <1>0, <2>1, <2>2, <2>3, <2>5, <3>2 DEF Accounted, Active, Ended
    <2>6. QED BY <1>1, <2>4, <2>5 DEF IrqBegin
  <1>2. CASE IrqReadAll
    <2> DEFINE a == SubSeq(fifo, 1, left)
               b == SubSeq(fifo, left + 1, Len(fifo))
    <2>1. /\ left \in 0..Len(fifo) /\ Len(batch) = 1 /\ UNCHANGED <<slot, ic, finger>>
          /\ irq = "rest" /\ irq' = "report"
      BY <1>2 DEF IrqReadAll, HandInv
    <2>2. a \in Seq(Event) /\ b \in Seq(Event) /\ Len(b) = Len(fifo) - left
      BY <1>0, <2>1, TakeFacts
    <2>3. /\ Active(b, t) => Active(fifo, t)
          /\ Active(a, t) /\ ~Ended(b, t) => Active(fifo, t)
          /\ Ended(fifo, t) => Ended(a, t) \/ Ended(b, t)
      BY <1>0, <2>1, SplitQueued
    <2>4. \/ batch' = batch \o a /\ fifo' = b /\ UNCHANGED missed
          \/ UNCHANGED <<batch, fifo, missed>>
          \/ fifo' = b /\ missed' = missed \cup Releases(a) /\ UNCHANGED batch
      BY <1>2 DEF IrqReadAll
    <2> HIDE DEF a, b
    <2>5. fifo' = b => (Room => Room')
      BY <1>0, <2>1, <2>2 DEF Room
    <2>6. CASE batch' = batch \o a /\ fifo' = b /\ UNCHANGED missed
      <3>1. /\ Active(batch', t) => Active(a, t) \/ (Active(batch, t) /\ ~Ended(a, t))
            /\ Ended(batch, t) \/ Ended(a, t) => Ended(batch', t)
        BY <1>0, <2>2, <2>6, JoinQueued
      <3>2. QED BY <2>1, <2>3, <2>5, <2>6, <3>1 DEF Accounted
    <2>7. CASE UNCHANGED <<batch, fifo, missed>>
      <3>1. Room <=> Room'
        BY <2>1, <2>7 DEF Room
      <3>2. QED BY <2>1, <2>7, <3>1, AccountedQuiet
    <2>8. CASE fifo' = b /\ missed' = missed \cup Releases(a) /\ UNCHANGED batch
      <3>1. Ended(a, t) => t \in missed'
        BY <2>2, <2>8, LostCovered
      <3>2. Active(batch', t) = Active(batch, t) /\ Ended(batch', t) = Ended(batch, t)
        BY <2>8
      <3>3. QED BY <2>1, <2>3, <2>5, <2>8, <3>1, <3>2 DEF Accounted
    <2>9. QED BY <2>4, <2>6, <2>7, <2>8
  <1>3. CASE IrqReport
    <2> DEFINE e == Head(batch)
    <2>1. /\ batch # <<>> /\ batch' = Tail(batch) /\ slot' = Reported(e) /\ e \in Event
          /\ missed' = (IF e.listed THEN missed \ Releases(<<e>>)
                        ELSE missed \cup {u \in Releases(<<e>>) : slot[u]})
          /\ UNCHANGED <<ic, fifo, finger, irq>> /\ irq = "report"
      BY <1>0, <1>3, HeadTailProperties DEF IrqReport, chip
    <2>2. /\ Active(batch', t) => Active(batch, t)
          /\ Starts(e, t) /\ ~Ended(batch', t) => Active(batch, t)
          /\ Ended(batch, t) => Ends(e, t) \/ Ended(batch', t)
      BY <1>0, <2>1, TailQueued
    <2>3. Len(batch) = 1 => ~Active(batch', t)
      <3>1. Len(batch) = 1 => batch' = <<>>
        BY <1>0, <2>1, HeadTailProperties, EmptySeq
      <3>2. QED BY <1>0, <3>1
    <2>4. t \in Releases(<<e>>) <=> Ends(e, t)
      <3>1. DOMAIN <<e>> = {1} /\ <<e>>[1] = e
        OBVIOUS
      <3>2. QED BY <3>1 DEF Releases, Ends
    <2>5. slot'[t] => slot[t] \/ Starts(e, t)
      <3>1. CASE e.kind \in {"press", "move", "release"} /\ e.id \in Tids /\ e.listed
        <4>1. slot' = [slot EXCEPT ![e.id] = e.kind # "release"]
          BY <2>1, <3>1 DEF Reported
        <4>2. CASE e.id = t
          BY <1>0, <3>1, <4>1, <4>2 DEF Starts
        <4>3. CASE e.id # t
          BY <1>0, <4>1, <4>3
        <4>4. QED BY <4>2, <4>3
      <3>2. CASE ~(e.kind \in {"press", "move", "release"} /\ e.id \in Tids /\ e.listed)
        BY <2>1, <3>2 DEF Reported
      <3>3. QED BY <3>1, <3>2
    <2>6. Ends(e, t) /\ slot'[t] => t \in missed'
      <3>1. CASE e.listed
        <4>1. Ends(e, t) => ~slot'[t]
          BY <1>0, <2>1, <3>1 DEF Ends, Reported
        <4>2. QED BY <4>1
      <3>2. CASE ~e.listed
        <4>1. Ends(e, t) => ~Starts(e, t)
          BY <2>1, StartsOrEnds
        <4>2. QED BY <2>1, <2>4, <2>5, <3>2, <4>1
      <3>3. QED BY <3>1, <3>2
    <2>7. ~Ends(e, t) => (t \in missed <=> t \in missed')
      BY <2>1, <2>4
    <2>8. Room <=> Room'
      BY <2>1 DEF Room
    <2> HIDE DEF e
    <2>9. Active(batch', t) => ~(Len(batch) = 1) /\ Active(batch, t)
      BY <2>2, <2>3
    <2>10. slot'[t] /\ ~Ends(e, t) /\ ~Ended(batch', t) =>
              ~Ended(batch, t) /\ (slot[t] \/ Active(batch, t))
      BY <2>2, <2>5
    <2>11. QED
      BY <2>1, <2>6, <2>7, <2>8, <2>9, <2>10 DEF Accounted, Active, Ended
  <1>4. CASE IrqEnd
    <2>1. UNCHANGED <<batch, slot, missed, fifo, finger, ic>> /\ batch = <<>>
      BY <1>4 DEF IrqEnd, chip
    <2>2. Room <=> Room'
      BY <2>1 DEF Room
    <2>3. QED BY <2>1, <2>2, AccountedQuiet
  <1>5. QED BY <1>1, <1>2, <1>3, <1>4 DEF Handler

LEMMA BringUpGhost ==
    ASSUME LineInv, FlowType, HandInv, GhostInv,
           \/ SystemReset \/ PollReady \/ PollError \/ ReadIds \/ SetTouchFunction
           \/ WriteCommand \/ PollEcho \/ BusError
    PROVE  GhostInv'
  <1>1. /\ BringUp /\ UNCHANGED <<irq, batch, left, missed, slot, finger>>
        /\ batch = <<>> /\ fifo \in Seq(Event) /\ \A t \in Tids : ~slot[t]
    BY BringUpEffect DEF LineInv, BringUp, HandInv, FlowType, GhostInv
  <1>2. \/ state' \in {state, "on"}
        \/ state' = "unbound" /\ fifo' = <<>> /\ ic' = "off"
    BY BringUpEffect
  <1>3. ASSUME NEW t \in Tids PROVE Accounted(t)'
    <2>1. CASE fifo' \in {fifo, Popped} /\ ic' = ic
      <3>1. /\ Active(fifo', t) => Active(fifo, t)
            /\ Room => Room'
        <4>1. CASE fifo' = fifo
          BY <2>1, <4>1 DEF Active, Ends, Starts, Room
        <4>2. CASE fifo' # fifo
          <5>1. fifo # <<>> /\ fifo' = Tail(fifo)
            BY <2>1, <4>2 DEF Popped
          <5>2. Len(fifo') <= Len(fifo) /\ Len(fifo) \in Nat /\ Len(fifo') \in Nat
            BY <1>1, <5>1, HeadTailProperties
          <5>3. FIFO_DEPTH \in Nat
            BY LimitsAssumption
          <5>4. QED BY <1>1, <2>1, <5>1, <5>2, <5>3, TailQueued DEF Room
        <4>3. QED BY <4>1, <4>2
      <3>2. QED BY <1>1, <3>1, NoneQueued DEF GhostInv, Accounted, Active, Ended
    <2>2. CASE fifo' = <<>>
      BY <1>1, <2>2, NoneQueued, AccountedReleased
    <2>3. CASE SystemReset \/ WriteCommand
      <3>1. ~Active(fifo, t)
        <4>1. ic # "scanning"
          BY <2>3 DEF GhostInv, SystemReset, WriteCommand, Commands
        <4>2. QED BY <4>1 DEF GhostInv, Accounted, Room
      <3>2. ~Active(fifo', t)
        <4>1. CASE SystemReset
          BY <3>1, <4>1 DEF SystemReset
        <4>2. CASE WriteCommand
          <5>1. PICK kept \in {<<>>, fifo} : fifo' \in {kept, Append(kept, Ev("echo", step))}
            BY <4>2 DEF WriteCommand
          <5>2. Ev("echo", step) \in Event /\ ~Starts(Ev("echo", step), t)
            BY <4>2, EventType DEF WriteCommand, Starts
          <5>3. kept \in Seq(Event) /\ ~Active(kept, t)
            BY <1>1, <3>1, <5>1, EmptySeq, NoneQueued
          <5>4. QED BY <5>1, <5>2, <5>3, AppendQueued
        <4>3. QED BY <2>3, <4>1, <4>2
      <3>3. QED BY <1>1, <3>2, AccountedReleased
    <2>4. QED BY <2>1, <2>2, <2>3, BringUpEffect
  <1>4. ASSUME BringUp', ic' = "scanning" PROVE step' = "scan" /\ polling'
    <2>1. ~\E ok, events : Leave(ok, events)
      BY <1>1, <1>4, Zenon DEF Leave, BringUp
    <2>2. ic = "scanning" => step = "scan" /\ polling
      BY <1>1 DEF GhostInv
    <2>3. CASE WriteCommand
      BY <1>4, <2>2, <2>3, Zenon DEF WriteCommand
    <2>4. CASE PollEcho
      <3>1. ic' = ic /\ (step # "scan" \/ UNCHANGED <<step, polling>>)
        BY <2>1, <2>4 DEF PollEcho
      <3>2. QED BY <1>4, <2>2, <3>1
    <2>5. CASE \/ SystemReset \/ PollReady \/ PollError \/ ReadIds \/ SetTouchFunction
               \/ BusError
      <3>1. ic' # ic \/ step # "scan"
        BY <2>1, <2>5 DEF SystemReset, PollReady, PollError, ReadIds, SetTouchFunction, BusError
      <3>2. SystemReset \/ ic' = ic
        BY <2>1, <2>5 DEF SystemReset, PollReady, PollError, ReadIds, SetTouchFunction, BusError, chip
      <3>3. SystemReset => ic' = "booting"
        BY DEF SystemReset
      <3>4. QED BY <1>4, <2>2, <3>1, <3>2, <3>3
    <2>6. QED BY <2>3, <2>4, <2>5
  <1>5. QED BY <1>1, <1>2, <1>3, <1>4 DEF GhostInv, BringUp

LEMMA GhostStep == FlowInv /\ GhostInv /\ [Next]_vars => GhostInv'
  <1> SUFFICES ASSUME FlowInv, GhostInv, [Next]_vars PROVE GhostInv'
    OBVIOUS
  <1> USE DEF driver, rails, line, hand, chip
  <1>0. LineInv /\ FlowType /\ HandInv /\ \A t \in Tids : Accounted(t)
    BY DEF FlowInv, GhostInv
  <1>1. CASE Probe \/ Resume
    <2>1. UNCHANGED <<fifo, batch, slot, missed, finger, irq>> /\ ~Room
      BY <1>1 DEF Probe, Resume, Begin, GhostInv, Room
    <2>2. \A t \in Tids : Accounted(t)'
      BY <1>0, <2>1, AccountedQuiet
    <2>3. ic' # "scanning" /\ ~(state' = "unbound" /\ ic' # "off") /\ state' # "suspended"
          /\ (state' = "unbound" => state = "unbound") /\ state \in {"unbound", "suspended"}
      BY <1>1 DEF Probe, Resume, Begin, PowerOn, GhostInv
    <2>4. QED BY <2>1, <2>2, <2>3 DEF GhostInv, BringUp
  <1>2. CASE \/ SystemReset \/ PollReady \/ PollError \/ ReadIds \/ SetTouchFunction
             \/ WriteCommand \/ PollEcho \/ BusError
    BY <1>0, <1>2, BringUpGhost
  <1>3. CASE SuspendBegin \/ IrqEnd \/ UNCHANGED vars
    <2>1. /\ UNCHANGED <<fifo, batch, slot, missed, finger, ic, step, polling>>
          /\ state' = state \/ state' = "suspending"
          /\ batch = <<>> \/ irq' = irq
      BY <1>3 DEF SuspendBegin, IrqEnd, vars
    <2>2. \A t \in Tids : Accounted(t)'
      BY <1>0, <2>1, AccountedQuiet DEF Room
    <2>3. QED BY <2>1, <2>2 DEF GhostInv, BringUp
  <1>4. CASE SuspendEnd \/ Remove
    <2>1. irq = "idle" /\ PowerOff /\ release_all /\ UNCHANGED batch
          /\ state' \in {"suspended", "unbound"}
      BY <1>0, <1>4 DEF SuspendEnd, Remove, LineInv
    <2>2. batch' = <<>> /\ ic' = "off" /\ fifo' = <<>> /\ \A t \in Tids : ~slot'[t]
      BY <1>0, <2>1 DEF HandInv, PowerOff, release_all
    <2>3. \A t \in Tids : Accounted(t)'
      BY <2>2, AccountedReleased, NoneQueued
    <2>4. QED BY <2>1, <2>2, <2>3 DEF GhostInv, BringUp
  <1>5. CASE IcBoots \/ \E u \in Contacts : FingerDown(u) \/ FingerMove(u) \/ FingerUp(u)
    <2>1. \A t \in Tids : Accounted(t)'
      BY <1>0, <1>5, EnvironmentAccounts
    <2>2. /\ UNCHANGED <<state, step, polling, slot>>
          /\ ic' = ic \/ (ic = "booting" /\ ic' = "ready")
          /\ ic = "off" => fifo' = fifo
      BY <1>5 DEF IcBoots, FingerDown, FingerMove, FingerUp, Touch
    <2>3. QED BY <2>1, <2>2 DEF GhostInv, BringUp
  <1>6. CASE Handler
    <2>1. \A t \in Tids : Accounted(t)'
      BY <1>0, <1>6, HandlerAccounts
    <2>2. state' = "on"
      BY <1>0, <1>6 DEF Handler, IrqBegin, IrqReadAll, IrqReport, IrqEnd, LineInv
    <2>3. QED BY <2>1, <2>2 DEF GhostInv, BringUp
  <1>7. QED
    BY <1>1, <1>2, <1>3, <1>4, <1>5, <1>6 DEF Next, Core, Environment

\* Over any number of touches, overflows, failed reads, suspends and resumes, and for
\* every depth of the controller's FIFO and of a read: once everything is reported, an
\* active contact has its finger, or its release went with a read that failed or was
\* of a touch type that the driver does not report.
THEOREM NoGhosts == Spec => []NoGhostFinger
  <1>1. ASSUME Init PROVE GhostInv
    <2>1. /\ state = "unbound" /\ batch = <<>> /\ fifo = <<>> /\ ic = "off"
          /\ \A t \in Tids : ~slot[t]
      BY <1>1 DEF Init
    <2>2. \A t \in Tids : Accounted(t)
      BY <2>1, NoneQueued DEF Accounted
    <2>3. QED BY <2>1, <2>2 DEF GhostInv, BringUp
  <1>2. FlowInv /\ GhostInv => NoGhostFinger
    <2> SUFFICES ASSUME FlowInv, GhostInv, irq = "idle", fifo = <<>>, NEW t \in Tids, slot[t]
                 PROVE  finger[t] \/ t \in missed
      BY DEF NoGhostFinger
    <2>1. batch = <<>> /\ Accounted(t)
      BY DEF FlowInv, HandInv, GhostInv
    <2>2. QED BY <2>1, NoneQueued DEF Accounted
  <1>3. QED BY <1>1, <1>2, GhostStep, FlowAlways, PTL DEF Spec
=============================================================================

