----------------------------- MODULE IdleDaemon -----------------------------
(***************************************************************************)
(* The idle daemon, tools/tabs6-idled.py: it measures idleness on the      *)
(* input devices it opened at its start, asks two services whether         *)
(* somebody wants the tablet awake, and suspends it.  Around it the user   *)
(* and the devices, the power supply, the inhibitors and systemd.          *)
(*                                                                         *)
(* Time passes in units of POLL while the tablet is awake (the daemon's    *)
(* clock stops in s2idle).  Ages stop at CAP.                              *)
(***************************************************************************)
EXTENDS Integers

CONSTANTS
    Devs,               \* input devices
    IDLE_ON_AC, IDLE_ON_BATTERY, FAILURE_BACKOFF, POST_RESUME_GRACE,
    CAP,                \* bound: ages are not counted further
    PowerStates,        \* what the supply may say in this instance
    Hazards             \* what else may happen in it

ASSUME TimesAssumption ==
    /\ IDLE_ON_AC \in Nat /\ IDLE_ON_BATTERY \in Nat \ {0} /\ FAILURE_BACKOFF \in Nat
    /\ POST_RESUME_GRACE \in Nat /\ CAP \in Nat
    /\ IDLE_ON_BATTERY <= IDLE_ON_AC /\ IDLE_ON_AC <= CAP
    /\ PowerStates \subseteq {"Charging", "Full", "Discharging"}
    /\ Hazards \subseteq {"hotplug", "query_error", "suspend_error", "crash",
                          "status_error"}

VARIABLES
    pc,         \* the daemon
    threshold,  \* as read at the top of the loop
    idle,       \* now - last_activity, negative in the grace after a resume
    stamp,      \* age of the `now` taken at the check, while the queries run
    blocked,    \* time left until blocked_until
    watched,    \* devices whose node it has open
    dead,       \* nodes it has open whose device is gone
    unread,     \* watched devices with events waiting
    present,    \* devices there are
    power,      \* the status of the supply
    inhibit,    \* who wants the tablet awake
    sleep,      \* "awake", "entering", "asleep"
    quiet,      \* time since the user's last input on a device it watches
    since,      \* time since the last attempt to suspend ended
    held        \* who has wanted it awake ever since the last check began, but for
                \* those a query of it failed to ask

fds   == <<watched, dead, unread>>
clock == <<idle, stamp, blocked, quiet, since>>
vars  == <<pc, threshold, clock, fds, present, power, inhibit, sleep, held>>

Inhibitors == {"kde", "systemd"}

TypeOK ==
    /\ pc \in {"top", "select", "check", "kde", "systemd", "suspend"}
    /\ threshold \in {IDLE_ON_AC, IDLE_ON_BATTERY}
    /\ idle \in -POST_RESUME_GRACE..CAP /\ blocked \in 0..FAILURE_BACKOFF
    /\ watched \subseteq present /\ dead \subseteq Devs /\ unread \subseteq watched
    /\ present \subseteq Devs /\ power \in PowerStates
    /\ inhibit \subseteq Inhibitors /\ held \subseteq inhibit
    /\ sleep \in {"awake", "entering", "asleep"}
    /\ quiet \in 0..CAP /\ since \in 0..CAP /\ stamp \in 0..CAP
-----------------------------------------------------------------------------
(* The user, the devices and the system. *)

Asking == {"kde", "systemd"}
Older(age) == IF age < CAP THEN age + 1 ELSE CAP

Tick ==
    /\ sleep # "asleep"
    /\ idle' = Older(idle) /\ quiet' = Older(quiet) /\ since' = Older(since)
    /\ stamp' = IF pc \in Asking THEN Older(stamp) ELSE stamp
    /\ blocked' = IF blocked > 0 THEN blocked - 1 ELSE 0
    /\ UNCHANGED <<pc, threshold, fds, present, power, inhibit, sleep, held>>

Input(d) ==
    /\ d \in present /\ sleep # "asleep"
    /\ quiet' = IF d \in watched THEN 0 ELSE quiet
    /\ unread' = unread \cup ({d} \cap watched)
    /\ UNCHANGED <<pc, threshold, idle, stamp, blocked, since, watched, dead, present, power,
                   inhibit, sleep, held>>

\* A device attached after the start: nobody opens its node.
Attach(d) ==
    /\ "hotplug" \in Hazards /\ d \notin present
    /\ present' = present \cup {d}
    /\ UNCHANGED <<pc, threshold, clock, fds, power, inhibit, sleep, held>>

Detach(d) ==
    /\ d \in present
    /\ present' = present \ {d} /\ watched' = watched \ {d} /\ unread' = unread \ {d}
    /\ dead' = dead \cup ({d} \cap watched)
    /\ UNCHANGED <<pc, threshold, clock, power, inhibit, sleep, held>>

PowerChange ==
    /\ power' \in PowerStates
    /\ UNCHANGED <<pc, threshold, clock, fds, present, inhibit, sleep, held>>

InhibitChange(i) ==
    /\ \/ i \in inhibit /\ inhibit' = inhibit \ {i}
       \/ i \notin inhibit /\ inhibit' = inhibit \cup {i}
    /\ held' = held \cap inhibit'
    /\ UNCHANGED <<pc, threshold, clock, fds, present, power, sleep>>

FallAsleep ==
    /\ sleep = "entering" /\ sleep' = "asleep"
    /\ UNCHANGED <<pc, threshold, clock, fds, present, power, inhibit, held>>

WakeUp ==
    /\ sleep = "asleep" /\ sleep' = "awake"
    /\ UNCHANGED <<pc, threshold, clock, fds, present, power, inhibit, held>>
-----------------------------------------------------------------------------
(* The daemon. *)

\* Anything but Charging is battery; a status that cannot be read is not.
on_battery ==
    {power # "Charging"} \cup (IF "status_error" \in Hazards THEN {FALSE} ELSE {})
Readable == unread # {} \/ dead # {}

\* The heartbeat has no effect; the threshold is read before the wait.
LoopTop ==
    /\ pc = "top" /\ pc' = "select"
    /\ \E battery \in on_battery :
          threshold' = IF battery THEN IDLE_ON_BATTERY ELSE IDLE_ON_AC
    /\ UNCHANGED <<clock, fds, present, power, inhibit, sleep, held>>

\* Mutant of DropDead: a node whose device is gone stays open.
DropDead_Keeps == UNCHANGED dead
DropDead == dead' = {}

\* Mutant of Activity: events are drained and nothing else.
Activity_Ignored == UNCHANGED clock
Activity == idle' = 0 /\ UNCHANGED <<stamp, blocked, quiet, since>>

\* select reports input, or a node whose read fails: it is closed.
SelectReady ==
    /\ pc = "select" /\ Readable
    /\ pc' = "top"
    /\ unread' = {} /\ DropDead /\ Activity
    /\ UNCHANGED <<threshold, watched, present, power, inhibit, sleep, held>>

SelectTimeout ==
    /\ pc = "select" /\ ~Readable
    /\ pc' = "check"
    /\ UNCHANGED <<threshold, clock, fds, present, power, inhibit, sleep, held>>

Check ==
    /\ pc = "check"
    /\ pc' = IF idle < threshold \/ blocked > 0 THEN "top" ELSE "kde"
    /\ held' = inhibit
    /\ UNCHANGED <<threshold, clock, fds, present, power, inhibit, sleep>>

\* Nobody wants it awake, as far as this query knows.
GoOn(next) ==
    /\ pc' = next /\ stamp' = IF next \in Asking THEN stamp ELSE 0
    /\ UNCHANGED <<idle, blocked, quiet, since>>

\* Mutant of StandDown: an inhibited daemon asks the other service all the same.
StandDown_AsksOn(next) == GoOn(next)

\* Somebody wants the tablet awake: the idle time starts again, at the check.
StandDown(next) ==
    /\ pc' = "top" /\ idle' = stamp /\ stamp' = 0
    /\ UNCHANGED <<blocked, quiet, since>>

\* One query: go on if nobody answers or it fails, stand down otherwise.
Ask(i, next) ==
    /\ pc = i
    /\ \/ i \in inhibit /\ StandDown(next) /\ UNCHANGED held
       \/ i \notin inhibit /\ GoOn(next) /\ UNCHANGED held
       \/ "query_error" \in Hazards /\ GoOn(next) /\ held' = held \ {i}
    /\ UNCHANGED <<threshold, fds, present, power, inhibit, sleep>>

kde_inhibited == Ask("kde", "systemd")
systemd_block_inhibited == Ask("systemd", "suspend")

\* Mutant of Restarted: only a success restarts the clock.
Restarted_OnSuccess(ok) == IF ok THEN -POST_RESUME_GRACE ELSE idle

\* now - last_activity after an attempt.
Restarted(ok) == IF ok THEN -POST_RESUME_GRACE ELSE 0

SuspendDone(ok) ==
    /\ pc' = "top"
    /\ idle' = Restarted(ok)
    /\ blocked' = IF ok THEN blocked ELSE FAILURE_BACKOFF
    /\ since' = 0 /\ UNCHANGED <<stamp, quiet>>

\* systemctl suspend returns once the request is queued.
Suspend ==
    /\ pc = "suspend"
    /\ \/ /\ SuspendDone(TRUE)
          /\ sleep' = IF sleep = "awake" THEN "entering" ELSE sleep
       \/ "suspend_error" \in Hazards /\ SuspendDone(FALSE) /\ UNCHANGED sleep
    /\ UNCHANGED <<threshold, fds, present, power, inhibit, held>>

\* It dies (a systemctl that hangs for a minute is one way) and systemd starts it
\* again: it opens the nodes there are, and exits if there are none.
Restart ==
    /\ "crash" \in Hazards /\ present # {}
    /\ pc' = "top" /\ idle' = 0 /\ stamp' = 0 /\ blocked' = 0
    /\ watched' = present /\ dead' = {} /\ unread' = {}
    /\ UNCHANGED <<threshold, quiet, since, present, power, inhibit, sleep, held>>
-----------------------------------------------------------------------------
Init ==
    /\ pc = "top" /\ threshold = IDLE_ON_AC
    /\ idle = 0 /\ stamp = 0 /\ blocked = 0 /\ quiet = 0 /\ since = CAP
    /\ present \in SUBSET Devs \ {{}} /\ watched = present /\ dead = {} /\ unread = {}
    /\ power \in PowerStates /\ inhibit \in SUBSET Inhibitors /\ held = {}
    /\ sleep = "awake"

Daemon ==
    /\ sleep # "asleep"
    /\ \/ LoopTop \/ SelectReady \/ SelectTimeout \/ Check
       \/ kde_inhibited \/ systemd_block_inhibited \/ Suspend

Environment ==
    \/ \E d \in Devs : Input(d) \/ Attach(d) \/ Detach(d)
    \/ PowerChange \/ FallAsleep \/ WakeUp \/ Restart
    \/ \E i \in Inhibitors : InhibitChange(i)

Next == Daemon \/ Tick \/ Environment

Spec == Init /\ [][Next]_vars

\* The daemon runs, time passes while the tablet is awake, and systemd carries a
\* queued suspend out; nobody owes a wake-up.
FairSpec == Spec /\ WF_vars(Daemon) /\ WF_vars(Tick) /\ WF_vars(FallAsleep)
-----------------------------------------------------------------------------
(* Properties. *)

Attempts == pc = "suspend" /\ pc' = "top" /\ since' = 0

\* The tablet is suspended only when the user has been away for the threshold the
\* daemon read (docs/SLEEP.md 236-240), whatever devices come and go, unless the
\* input came after its last look and still waits to be read.
NeverInUse == [][Attempts => quiet >= threshold \/ Readable]_vars

\* Attempts are at least the shorter threshold apart, so a suspend that fails, or
\* is undone at once, is not hammered (39-41, 214-220).
NotHammered == [][Attempts => since >= IDLE_ON_BATTERY]_vars

\* Who wanted the tablet awake before the queries began, and still does, is heard
\* by every query that works (203-207), however the other one comes and goes.
InhibitorHeard == [][Attempts => held = {}]_vars

Alone == quiet > 0 /\ inhibit = {} /\ power = "Discharging"
Trying == sleep = "asleep" \/ pc = "suspend"

\* A tablet left alone with nobody keeping it awake is asleep or is sent to sleep
\* again and again: after wake-ups, failed suspends and input devices that died.
AloneSuspends == <>[]Alone /\ <>[][~Restart]_vars => []<>Trying
=============================================================================
