----------------------------- MODULE Fts1ba90a -----------------------------
(***************************************************************************)
(* The touchscreen driver, kernel/drivers/fts1ba90a.c: probe, remove,      *)
(* suspend and resume on the driver core's thread, the threaded interrupt  *)
(* handler, and around them the controller (its event FIFO and the fingers *)
(* it sees), the two regulators and the I2C bus, any of which may fail.    *)
(*                                                                         *)
(* Register contents, coordinates and delays are left out; of a touch type *)
(* only whether the driver reports it is kept.  A polling loop keeps its   *)
(* retry counters, with smaller limits than the source's.                  *)
(***************************************************************************)
EXTENDS Integers, Sequences

CONSTANTS
    Tids,          \* finger slots (FTS_FINGER_MAX of them)
    Contacts,      \* ids the controller gives contacts, slots or not
    FIFO_MAX,      \* events the driver takes per interrupt (FTS_FIFO_MAX)
    READY_POLLS,   \* limit of retry in wait_for_ready (150 in the source)
    ERROR_POLLS,   \* limit of err_cnt in wait_for_ready (32)
    ECHO_POLLS,    \* limit of retry in write_wait_echo
    FIFO_DEPTH,    \* bound: events the controller holds
    MAX_DEPTH,     \* bound: nested disable_irq calls
    Hazards        \* which failures this instance allows

ASSUME LimitsAssumption ==
    /\ FIFO_MAX \in Nat \ {0} /\ READY_POLLS \in Nat /\ ERROR_POLLS \in Nat
    /\ ECHO_POLLS \in Nat /\ FIFO_DEPTH \in Nat /\ MAX_DEPTH \in Nat
    /\ Tids \subseteq Contacts
    /\ Hazards \subseteq
          {"i2c_error", "read_lost", "rail_error", "ic_error", "unlisted_type"}

VARIABLES
    state,      \* what the driver core is doing with the device
    step,       \* how far probe or resume has come
    polling,    \* the command of this step is written, its answer awaited
    retry, err_cnt,
    vdd, avdd,  \* the driver's use counts of its two rails
    norail,     \* history: a resume since probe found no power
    underflow,  \* history: a rail was disabled more often than enabled otherwise
    requested,  \* the interrupt has been requested
    depth,      \* disable_irq nesting
    irq,        \* the handler: "idle", "rest" (READ_ALL due), "report"
    batch,      \* events it has read and not yet reported
    left,       \* events it has yet to read
    missed,     \* history: active slots whose release a failed read may have taken
                \* along, or came with a touch type that is not reported
    slot,       \* tid -> active in the input device
    ic,         \* the controller
    fifo,       \* its events, oldest first
    finger      \* contact -> is it on the glass

driver == <<state, step, polling, retry, err_cnt>>
rails  == <<vdd, avdd, norail, underflow>>
line   == <<requested, depth>>
hand   == <<irq, batch, left, missed>>
chip   == <<ic, fifo>>
vars == <<driver, rails, line, hand, slot, chip, finger>>

Commands == {"cal", "clear", "scan"}
Steps == {"reset", "ready", "ids", "touch_fn"} \cup Commands

\* listed: the touch type is one of normal, palm, wet and glove.
Ev(kind, id) == [kind |-> kind, id |-> id, listed |-> TRUE]
Coordinate == [kind : {"press", "move", "release"}, id : Contacts, listed : BOOLEAN]
Event == Coordinate
    \cup [kind : {"echo"}, id : Commands, listed : {TRUE}]
    \cup {Ev(k, "ic") : k \in {"full", "ready", "error", "none"}}

TypeOK ==
    /\ state \in {"unbound", "probe", "on", "suspending", "suspended", "resume"}
    /\ step \in Steps /\ polling \in BOOLEAN
    /\ retry \in 0..READY_POLLS + ECHO_POLLS + 1 /\ err_cnt \in 0..ERROR_POLLS + 1
    /\ vdd \in {0, 1} /\ avdd \in {0, 1} 
    /\ norail \in BOOLEAN /\ underflow \in BOOLEAN /\ missed \subseteq Tids
    /\ requested \in BOOLEAN /\ depth \in Nat
    /\ irq \in {"idle", "rest", "report"} /\ batch \in Seq(Event) /\ left \in Nat
    /\ slot \in [Tids -> BOOLEAN] /\ finger \in [Contacts -> BOOLEAN]
    /\ ic \in {"off", "cold", "booting", "ready", "scanning"} /\ fifo \in Seq(Event)
-----------------------------------------------------------------------------
(* The controller and the fingers. *)

\* What the FIFO becomes when an event is posted; a full one loses it and says so.
Posted(e) ==
    IF Len(fifo) < FIFO_DEPTH THEN Append(fifo, e)
    ELSE IF Len(fifo) = FIFO_DEPTH THEN Append(fifo, Ev("full", "ic"))
    ELSE fifo

Touch(t, kind) ==
    /\ finger' = [finger EXCEPT ![t] = kind # "release"]
    /\ IF ic = "scanning"
       THEN \E e \in Coordinate :
               /\ e.kind = kind /\ e.id = t
               /\ e.listed \/ "unlisted_type" \in Hazards
               /\ fifo' = Posted(e)
       ELSE UNCHANGED fifo
    /\ UNCHANGED <<driver, rails, line, hand, slot, ic>>

FingerDown(t) == ~finger[t] /\ Touch(t, "press")
FingerMove(t) == finger[t] /\ ic = "scanning" /\ Touch(t, "move")
FingerUp(t)   == finger[t] /\ Touch(t, "release")

\* The firmware boots after the reset; it may report errors first, or never boot.
IcBoots ==
    /\ ic = "booting"
    /\ \/ ic' = "ready" /\ fifo' = Posted(Ev("ready", "ic"))
       \/ "ic_error" \in Hazards /\ UNCHANGED ic /\ fifo' = Posted(Ev("error", "ic"))
    /\ UNCHANGED <<driver, rails, line, hand, slot, finger>>

\* FTS_READ_ONE_EVENT: an empty FIFO reads as zeroes.
ReadOne == IF fifo = <<>> THEN Ev("none", "ic") ELSE Head(fifo)
Popped  == IF fifo = <<>> THEN <<>> ELSE Tail(fifo)

BusMayFail == "i2c_error" \in Hazards
-----------------------------------------------------------------------------
(* Rails and interrupt line. *)

PowerOn ==
    /\ vdd' = vdd + 1 /\ avdd' = avdd + 1 /\ ic' = "cold"
    /\ UNCHANGED <<norail, underflow>>

\* regulator_disable refuses, with a warning, to go below zero.
PowerOff ==
    /\ vdd' = IF vdd > 0 THEN vdd - 1 ELSE 0
    /\ avdd' = IF avdd > 0 THEN avdd - 1 ELSE 0
    /\ underflow' = IF ~norail /\ (vdd = 0 \/ avdd = 0) THEN TRUE ELSE underflow
    /\ norail' = IF state = "suspending" THEN norail ELSE FALSE
    /\ ic' = "off" /\ fifo' = <<>>

release_all == slot' = [t \in Tids |-> FALSE] /\ missed' = {}
enable_irq  == depth' = depth - 1
-----------------------------------------------------------------------------
(* Probe and resume: the same bring-up, in steps. *)

\* Entering a step clears the counters of its loop.
GoTo(s) == step' = s /\ polling' = FALSE /\ retry' = 0 /\ err_cnt' = 0

Following ==
    CASE step = "reset"    -> "ready"
      [] step = "ready"    -> IF state = "probe" THEN "ids" ELSE "touch_fn"
      [] step = "ids"      -> "touch_fn"
      [] step = "touch_fn" -> IF state = "probe" THEN "cal" ELSE "clear"
      [] step = "cal"      -> "clear"
      [] OTHER             -> "scan"

BringUp == state \in {"probe", "resume"}

Begin(from, to) ==
    /\ state = from
    /\ GoTo("reset")
    /\ \/ PowerOn /\ state' = to
       \/ /\ "rail_error" \in Hazards
          /\ IF from = "suspended" THEN state' = "on" /\ norail' = TRUE
                                  ELSE UNCHANGED <<state, norail>>
          /\ UNCHANGED <<vdd, avdd, underflow, ic>>
    /\ UNCHANGED <<line, hand, slot, fifo, finger>>

Probe == Begin("unbound", "probe")

\* Mutant of Resume: on a dead rail it gives up after enabling the interrupt.
Resume_Enables ==
    \/ Begin("suspended", "resume")
    \/ /\ state = "suspended" /\ state' = "on" /\ GoTo("reset") /\ enable_irq
       /\ UNCHANGED <<rails, chip, requested, hand, slot, finger>>

Resume == Begin("suspended", "resume")

\* Mutant of ResumeDone: a resume that failed leaves the interrupt disabled.
ResumeDone_Early(ok) == IF ok THEN enable_irq ELSE UNCHANGED depth

\* Resume enables the interrupt whether or not the controller answered.
ResumeDone(ok) == enable_irq

ProbeFailed == PowerOff

\* The end of the bring-up; events is what it leaves in the FIFO.
Leave(ok, events) ==
    /\ GoTo("reset")
    /\ IF state = "resume"
       THEN /\ state' = "on" /\ ResumeDone(ok)
            /\ fifo' = events /\ UNCHANGED <<rails, ic, requested>>
       ELSE /\ state' = IF ok THEN "on" ELSE "unbound"
            /\ requested' = ok /\ depth' = 0
            /\ IF ok THEN fifo' = events /\ UNCHANGED <<rails, ic>> ELSE ProbeFailed
    /\ UNCHANGED <<hand, slot, finger>>

Advance == GoTo(Following) /\ UNCHANGED state

\* A transfer of this step failed three times: only the calibration carries on.
BusError ==
    /\ BringUp /\ BusMayFail
    /\ IF step = "cal"
       THEN Advance /\ UNCHANGED <<rails, line, hand, slot, chip, finger>>
       ELSE Leave(FALSE, fifo)

SystemReset ==
    /\ BringUp /\ step = "reset"
    /\ ic' = "booting"
    /\ Advance
    /\ UNCHANGED <<rails, line, hand, slot, fifo, finger>>

\* One turn of wait_for_ready.
PollReady ==
    /\ BringUp /\ step = "ready" /\ ReadOne.kind # "error" 
    /\ IF ReadOne.kind # "ready" /\ retry > READY_POLLS
       THEN Leave(FALSE, Popped)
       ELSE /\ IF ReadOne.kind = "ready" THEN Advance
               ELSE retry' = retry + 1 /\ UNCHANGED <<state, step, polling, err_cnt>>
            /\ fifo' = Popped
            /\ UNCHANGED <<rails, line, hand, slot, ic, finger>>

\* The number of error events seen so far, after this one; its mutant forgets.
ErrorsSeen_Uncounted == 0
ErrorsSeen == err_cnt + 1

\* The error branch of wait_for_ready: its own counter, no delay.
PollError ==
    /\ BringUp /\ step = "ready" /\ ReadOne.kind = "error"
    /\ IF err_cnt > ERROR_POLLS
       THEN Leave(FALSE, Popped)
       ELSE /\ err_cnt' = ErrorsSeen
            /\ fifo' = Popped
            /\ UNCHANGED <<state, step, polling, retry, rails, line, hand, slot, ic,
                           finger>>

\* A chip that answers with another part's id is refused.
ReadIds ==
    /\ BringUp /\ step = "ids"
    /\ \/ Advance /\ UNCHANGED <<rails, line, hand, slot, chip, finger>>
       \/ "ic_error" \in Hazards /\ Leave(FALSE, fifo)

SetTouchFunction ==
    /\ BringUp /\ step = "touch_fn"
    /\ Advance
    /\ UNCHANGED <<rails, line, hand, slot, chip, finger>>

\* write_wait_echo, the write.  The firmware may or may not echo the command.
WriteCommand ==
    /\ BringUp /\ step \in Commands /\ ~polling
    /\ polling' = TRUE
    /\ LET kept == IF step = "clear" THEN <<>> ELSE fifo
       IN fifo' \in {kept, Append(kept, Ev("echo", step))}
    /\ ic' = IF step = "scan" /\ ic = "ready" THEN "scanning" ELSE ic
    /\ UNCHANGED <<state, step, retry, err_cnt, rails, line, hand, slot, finger>>

\* write_wait_echo, one turn of the loop.  A missing echo is not an error.  After
\* the last command probe may still fail to register its input or interrupt.
PollEcho ==
    /\ BringUp /\ step \in Commands /\ polling
    /\ IF ReadOne = Ev("echo", step) \/ retry > ECHO_POLLS
       THEN IF step = "scan"
            THEN \E ok \in {TRUE, state = "resume"} : Leave(ok, Popped)
            ELSE /\ Advance /\ fifo' = Popped
                 /\ UNCHANGED <<rails, line, hand, slot, ic, finger>>
       ELSE /\ retry' = retry + 1 /\ fifo' = Popped
            /\ UNCHANGED <<state, step, polling, err_cnt, rails, line, hand, slot, ic,
                           finger>>
-----------------------------------------------------------------------------
(* Suspend and remove. *)

\* disable_irq returns once a running handler has finished.
SuspendBegin ==
    /\ state = "on" /\ requested /\ irq = "idle" /\ depth < MAX_DEPTH
    /\ depth' = depth + 1
    /\ state' = "suspending"
    /\ UNCHANGED <<step, polling, retry, err_cnt, rails, requested, hand, slot, chip,
                   finger>>

\* Mutant of SuspendEnd: the contacts are left as they were.
SuspendEnd_Keeps ==
    /\ state = "suspending"
    /\ PowerOff
    /\ state' = "suspended"
    /\ UNCHANGED <<step, polling, retry, err_cnt, line, hand, slot, finger>>

SuspendEnd ==
    /\ state = "suspending"
    /\ release_all
    /\ PowerOff
    /\ state' = "suspended"
    /\ UNCHANGED <<step, polling, retry, err_cnt, line, irq, batch, left, finger>>

\* Mutant of Remove: the rails are not turned off.
Remove_Powered ==
    /\ state = "on" /\ requested /\ irq = "idle"
    /\ state' = "unbound" /\ requested' = FALSE /\ depth' = 0
    /\ release_all
    /\ UNCHANGED <<step, polling, retry, err_cnt, rails, chip, irq, batch, left, finger>>

\* disable_irq, power off; the core then frees the interrupt and the input device.
Remove ==
    /\ state = "on" /\ requested /\ irq = "idle"
    /\ state' = "unbound" /\ requested' = FALSE /\ depth' = 0
    /\ release_all
    /\ PowerOff
    /\ UNCHANGED <<step, polling, retry, err_cnt, irq, batch, left, finger>>
-----------------------------------------------------------------------------
(* The interrupt handler; the line is low while the FIFO holds events. *)

\* The slots whose release is among these events, or went with an overflow that is.
Releases(events) ==
    {t \in Tids : \E i \in DOMAIN events :
        events[i].kind = "full" \/ (events[i].kind = "release" /\ events[i].id = t)}

\* The first event and how many follow it; a read that fails may lose it.
IrqBegin ==
    /\ irq = "idle" /\ requested /\ depth = 0 /\ fifo # <<>>
    /\ fifo' = Tail(fifo)
    /\ \/ /\ LET n == Len(fifo) - 1
             IN left' = IF n >= FIFO_MAX THEN FIFO_MAX - 1 ELSE n
          /\ batch' = <<Head(fifo)>>
          /\ irq' = IF left' > 0 THEN "rest" ELSE "report"
          /\ UNCHANGED missed
       \/ /\ "read_lost" \in Hazards
          /\ missed' = missed \cup Releases(<<Head(fifo)>>)
          /\ UNCHANGED <<irq, batch, left>>
    /\ UNCHANGED <<driver, rails, line, slot, ic, finger>>

\* READ_ALL.  When it fails the events stay in the FIFO, or are lost with it.
IrqReadAll ==
    /\ irq = "rest"
    /\ irq' = "report" /\ left' = 0
    /\ \/ /\ batch' = batch \o SubSeq(fifo, 1, left)
          /\ fifo' = SubSeq(fifo, left + 1, Len(fifo))
          /\ UNCHANGED missed
       \/ BusMayFail /\ UNCHANGED <<batch, fifo, missed>>
       \/ /\ "read_lost" \in Hazards
          /\ fifo' = SubSeq(fifo, left + 1, Len(fifo))
          /\ missed' = missed \cup Releases(SubSeq(fifo, 1, left))
          /\ UNCHANGED batch
    /\ UNCHANGED <<driver, rails, line, slot, ic, finger>>

\* Mutant of Reported: a full queue is only logged.
Reported_FullIgnored(e) ==
    IF e.kind \in {"press", "move", "release"} /\ e.id \in Tids /\ e.listed
    THEN [slot EXCEPT ![e.id] = e.kind # "release"] ELSE slot

\* handle_coordinate, which drops an id past the slots and a touch type that is not
\* listed, and handle_status.
Reported(e) ==
    CASE e.kind \in {"press", "move", "release"} /\ e.id \in Tids /\ e.listed ->
            [slot EXCEPT ![e.id] = e.kind # "release"]
      [] e.kind = "full" -> [t \in Tids |-> FALSE]
      [] OTHER -> slot

\* A release that is acted on ends the excuse of its slot; one whose type is not
\* listed leaves an active contact behind.
IrqReport ==
    /\ irq = "report" /\ batch # <<>>
    /\ slot' = Reported(Head(batch))
    /\ batch' = Tail(batch)
    /\ LET ended == Releases(<<Head(batch)>>)
       IN missed' = IF Head(batch).listed THEN missed \ ended
                    ELSE missed \cup {t \in ended : slot[t]}
    /\ UNCHANGED <<driver, rails, line, irq, left, chip, finger>>

IrqEnd ==
    /\ irq = "report" /\ batch = <<>>
    /\ irq' = "idle"
    /\ UNCHANGED <<driver, rails, line, batch, left, missed, slot, chip, finger>>
-----------------------------------------------------------------------------
Init ==
    /\ state = "unbound" /\ step = "reset" /\ polling = FALSE
    /\ retry = 0 /\ err_cnt = 0
    /\ vdd = 0 /\ avdd = 0 /\ norail = FALSE /\ underflow = FALSE
    /\ requested = FALSE /\ depth = 0
    /\ irq = "idle" /\ batch = <<>> /\ left = 0 /\ missed = {}
    /\ slot = [t \in Tids |-> FALSE] /\ finger = [t \in Contacts |-> FALSE]
    /\ ic = "off" /\ fifo = <<>>

Core ==
    \/ SystemReset \/ PollReady \/ PollError \/ ReadIds \/ SetTouchFunction
    \/ WriteCommand \/ PollEcho \/ BusError \/ SuspendEnd

Handler == IrqBegin \/ IrqReadAll \/ IrqReport \/ IrqEnd

Environment ==
    \/ Probe \/ Resume \/ SuspendBegin \/ Remove \/ IcBoots
    \/ \E t \in Contacts : FingerDown(t) \/ FingerMove(t) \/ FingerUp(t)

Next == Core \/ Handler \/ Environment

Spec == Init /\ [][Next]_vars

\* The driver core's thread and the interrupt thread are run by the kernel; the
\* controller, the fingers and suspend requests owe nothing.
FairSpec == Spec /\ WF_vars(Core) /\ WF_vars(Handler)
-----------------------------------------------------------------------------
(* Properties. *)

\* The handler is never let at a chip that has no power (suspend 588-591,
\* resume 601-603 and 618).
IrqOnlyPowered ==
    requested /\ (depth = 0 \/ irq # "idle") => vdd = 1 /\ avdd = 1

\* A suspended touchscreen reports no contact (suspend 588-590): no handler puts
\* one back after release_all.
SuspendedReleased == state = "suspended" => \A t \in Tids : ~slot[t]

\* No rail is disabled more often than enabled, unless a resume found no power, and
\* a driver that is not bound or is suspended holds none.
RailsBalanced ==
    /\ ~underflow
    /\ state \in {"unbound", "suspended"} => vdd = 0 /\ avdd = 0

\* With nothing left to report, no contact is active that has no finger, an
\* overflowed FIFO included (handle_status 438-440), but for one whose release a
\* read that failed took along or handle_coordinate dropped for its touch type
\* (410-413); the slot's next release that is acted on, an overflow and suspend end
\* those too.
NoGhostFinger ==
    state = "on" /\ depth = 0 /\ irq = "idle" /\ fifo = <<>>
        => \A t \in Tids : slot[t] => finger[t] \/ t \in missed

\* Suspend and resume leave power and interrupt nesting balanced however often they
\* are repeated and whatever the bus does, as long as resume finds its rails.
ListensAfterResume == state = "on" /\ ~norail => vdd = 1 /\ depth = 0

\* A device that is on and has power listens to its interrupt: "touchscreen
\* survives it" (README.md:63), without the excuse above.
OnMeansListening == state = "on" /\ vdd = 1 => depth = 0

\* Probe and resume end, whatever the controller answers (wait_for_ready's two
\* counters and write_wait_echo's one).
BringUpEnds == BringUp ~> ~BringUp
=============================================================================
