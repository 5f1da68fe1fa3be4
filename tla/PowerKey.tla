------------------------------ MODULE PowerKey ------------------------------
(***************************************************************************)
(* The power-key daemon, tools/tabs6-powerkeyd.py, with what surrounds it: *)
(* the finger on the two PMIC keys, the kernel's per-device event buffers, *)
(* KWin (which reads the same keys and lights the panel), the detached     *)
(* kscreen-doctor processes that set DPMS, and systemd restarting it.      *)
(*                                                                         *)
(* Time.  The daemon reads the clock once per select() into `now`, and     *)
(* everything it compares is relative to that stamp.  So down[k] is the    *)
(* age of the press at the last stamp, guard what is left of the wake      *)
(* guard at the last stamp, and elapsed how far the clock has run since.   *)
(***************************************************************************)
EXTENDS Integers, Sequences

CONSTANTS
    LONG_PRESS,    \* ticks a lone power press is held before the menu
    COMBO_WINDOW,  \* ticks within which both keys make a chord
    WAKE_GUARD,    \* ticks after a wake in which a short press is ignored
    READ_EVENTS,   \* key events one os.read can return
    MAX_LAG,       \* bound: ticks between two stamps of the clock
    MAX_QUEUE,     \* bound: unread events per device
    MAX_JOBS,      \* bound: kscreen-doctor processes when a key is pressed
    Hazards        \* which environment hazards this instance allows

\* The durations come from the environment; the defaults are 1.5, 0.6, 2.5 s.
ASSUME TimingAssumption ==
    /\ LONG_PRESS \in Nat /\ COMBO_WINDOW \in Nat /\ WAKE_GUARD \in Nat
    /\ COMBO_WINDOW < LONG_PRESS
    /\ READ_EVENTS \in Nat \ {0} /\ MAX_LAG \in Nat /\ MAX_QUEUE \in Nat
    /\ MAX_JOBS \in Nat
    /\ Hazards \subseteq {"idle_blank", "panel_race", "dpms_race", "unplug"}

VARIABLES
    held,            \* key -> is the finger on it
    queue,           \* key -> events the kernel holds for the daemon's fd
    gone,            \* keys whose input device died under the open fd
    panel,           \* is the panel lit (the connector's dpms attribute)
    kwin,            \* KWin has a key press it has not yet acted on
    jobs,            \* kscreen-doctor processes not yet done, oldest first
    pc,              \* where the daemon is
    devices,         \* keys whose fd is registered
    ready,           \* fds select() returned and not yet read
    batch,           \* events read and not yet handled
    elapsed,         \* clock minus `now`
    down, combo_fired, long_fired, asleep_at_press, soft_sleep,
    guard,           \* wake_guard_until minus `now`, never below 0
    acts,            \* history: actions taken since the power key went down
    since_wake,      \* history: ticks since the last wake press, saturating
    found            \* history: what the finger found the panel doing

input   == <<held, queue, gone>>
desktop == <<panel, kwin>>
loop    == <<pc, devices, ready, batch>>
stamp   == <<elapsed, guard>>
keys    == <<down, combo_fired, long_fired, asleep_at_press>>
history == <<acts, since_wake, found>>
vars == <<input, desktop, jobs, loop, stamp, keys, soft_sleep, history>>

POWER == "KEY_POWER"
VOLDOWN == "KEY_VOLUMEDOWN"
Keys == {POWER, VOLDOWN}
Other(k) == IF k = POWER THEN VOLDOWN ELSE POWER
None == -1
Sights == {"lit", "dark", "changing"}
Event == [code : Keys, value : {0, 1}, sight : Sights]

TypeOK ==
    /\ held \in [Keys -> BOOLEAN] /\ queue \in [Keys -> Seq(Event)]
    /\ gone \subseteq Keys
    /\ panel \in BOOLEAN /\ kwin \in BOOLEAN /\ jobs \in Seq({"on", "off"})
    /\ pc \in {"select", "events", "lock", "menu", "dead"}
    /\ devices \subseteq Keys /\ ready \subseteq Keys /\ batch \in Seq(Event)
    /\ elapsed \in 0..MAX_LAG /\ guard \in 0..(MAX_LAG + WAKE_GUARD)
    /\ down \in [Keys -> {None} \cup (0..LONG_PRESS)]
    /\ combo_fired \in BOOLEAN /\ long_fired \in BOOLEAN
    /\ asleep_at_press \in BOOLEAN /\ soft_sleep \in BOOLEAN
    /\ acts \in Nat /\ since_wake \in 0..WAKE_GUARD /\ found \in Sights
-----------------------------------------------------------------------------
(* Helpers. *)

AtMost(n, cap) == IF n > cap THEN cap ELSE n
Aged(age) == IF age = None THEN None ELSE AtMost(age + elapsed, LONG_PRESS)

\* What is left of the wake guard at this instant.
GuardLeft == IF guard > elapsed THEN guard - elapsed ELSE 0

\* now = clock(): everything kept relative to the old stamp moves to the new.
StampNow ==
    /\ elapsed' = 0
    /\ guard' = GuardLeft
    /\ down' = [k \in Keys |-> Aged(down[k])]

\* Mutant of is_asleep: only the daemon's own flag, the panel is not read.
is_asleep_FlagOnly == soft_sleep

is_asleep == soft_sleep \/ ~panel

set_dpms(state) == jobs' = Append(jobs, state)

\* Mutant of WakeIf: light is asked for, soft_sleep is left stale.
WakeIf_Stale(asleep) ==
    /\ UNCHANGED soft_sleep
    /\ IF asleep THEN set_dpms("on") ELSE UNCHANGED jobs

\* The wake half that the chord, the menu and the wake press share.
WakeIf(asleep) ==
    IF asleep THEN soft_sleep' = FALSE /\ set_dpms("on")
              ELSE UNCHANGED <<soft_sleep, jobs>>

\* Every key event of the finger has reached the daemon's handlers.
Drained == batch = <<>> /\ \A k \in Keys : queue[k] = <<>>

\* Mutant of Armed: a held volume key also disarms the long press.
Armed_LonePower ==
    /\ down[POWER] # None /\ ~long_fired /\ ~combo_fired
    /\ down[VOLDOWN] = None

\* The timeout of select() is the rest of a long press.
Armed == down[POWER] # None /\ ~long_fired /\ ~combo_fired

Readable == {k \in devices : queue[k] # <<>> \/ k \in gone}
-----------------------------------------------------------------------------
(* The finger, the panel and the clock. *)

\* What the user sees at this instant: a steady panel, or one about to change
\* on account of an earlier key.
Sight ==
    IF kwin \/ jobs # <<>> \/ pc = "lock" \/ ~Drained THEN "changing"
    ELSE IF panel THEN "lit" ELSE "dark"

Deliver(k, v) ==
    queue' = IF k \in devices \ gone
             THEN [queue EXCEPT ![k] = Append(@,
                      [code |-> k, value |-> v,
                       sight |-> IF v = 1 THEN Sight ELSE "changing"])]
             ELSE queue

Press(k) ==
    /\ ~held[k] /\ k \notin gone /\ (k \in devices \/ pc = "dead")
    /\ Len(queue[k]) < MAX_QUEUE /\ Len(jobs) < MAX_JOBS
    /\ held' = [held EXCEPT ![k] = TRUE]
    /\ Deliver(k, 1)
    /\ kwin' = TRUE
    /\ UNCHANGED <<gone, panel, jobs, loop, stamp, keys, soft_sleep, history>>

Release(k) ==
    /\ held[k] /\ Len(queue[k]) < MAX_QUEUE
    /\ held' = [held EXCEPT ![k] = FALSE]
    /\ Deliver(k, 0)
    /\ UNCHANGED <<gone, desktop, jobs, loop, stamp, keys, soft_sleep, history>>

\* KWin lights the panel on a key press.  Only with "panel_race" may it do so
\* before the daemon has handled that press.
KWinWake ==
    /\ kwin /\ (Drained \/ "panel_race" \in Hazards)
    /\ kwin' = FALSE /\ panel' = TRUE
    /\ UNCHANGED <<input, jobs, loop, stamp, keys, soft_sleep, history>>

\* A kscreen-doctor process gets its answer; with "dpms_race", in any order.
DpmsDone(i) ==
    /\ i = 1 \/ "dpms_race" \in Hazards
    /\ (~kwin /\ Drained) \/ "panel_race" \in Hazards
    /\ panel' = (jobs[i] = "on")
    /\ jobs' = SubSeq(jobs, 1, i - 1) \o SubSeq(jobs, i + 1, Len(jobs))
    /\ UNCHANGED <<input, kwin, loop, stamp, keys, soft_sleep, history>>

\* PowerDevil blanks an idle panel: nothing pressed, nothing pending.
IdleBlank ==
    /\ "idle_blank" \in Hazards /\ panel
    /\ Drained /\ ~kwin /\ \A k \in Keys : ~held[k]
    /\ panel' = FALSE
    /\ UNCHANGED <<input, kwin, jobs, loop, stamp, keys, soft_sleep, history>>

Tick ==
    /\ pc # "dead" /\ elapsed < MAX_LAG
    /\ elapsed' = elapsed + 1
    /\ since_wake' = AtMost(since_wake + 1, WAKE_GUARD)
    /\ UNCHANGED <<input, desktop, jobs, loop, guard, keys, soft_sleep, acts, found>>

\* An input device dies: evdev then answers ENODEV, whatever it had buffered.
Unplug(k) ==
    /\ "unplug" \in Hazards /\ k \in devices \ gone
    /\ gone' = gone \cup {k}
    /\ queue' = [queue EXCEPT ![k] = <<>>]
    /\ held' = [held EXCEPT ![k] = FALSE]
    /\ UNCHANGED <<desktop, jobs, loop, stamp, keys, soft_sleep, history>>
-----------------------------------------------------------------------------
(* The daemon's loop. *)

\* main() from the top: the resin is optional, the power key is not.
Fresh ==
    /\ devices' \in {Keys, {POWER}} /\ gone' = {}
    /\ pc' = "select" /\ ready' = {} /\ batch' = <<>>
    /\ elapsed' = 0 /\ guard' = 0
    /\ down' = [k \in Keys |-> None]
    /\ combo_fired' = FALSE /\ long_fired' = FALSE
    /\ asleep_at_press' = FALSE /\ soft_sleep' = FALSE
    /\ since_wake' = WAKE_GUARD /\ found' = "changing"

Restart ==
    /\ pc = "dead"
    /\ Fresh
    /\ UNCHANGED <<held, queue, desktop, jobs, acts>>

SelectReady ==
    /\ pc = "select" /\ Readable # {}
    /\ ready' = Readable
    /\ pc' = "events"
    /\ StampNow
    /\ UNCHANGED <<input, desktop, jobs, devices, batch, combo_fired, long_fired,
                   asleep_at_press, soft_sleep, history>>

\* A timeout with nothing to do: it only moves the stamp.
SelectTimeout ==
    /\ pc = "select" /\ Readable = {} /\ ~Armed /\ elapsed > 0
    /\ StampNow
    /\ UNCHANGED <<input, desktop, jobs, loop, combo_fired, long_fired,
                   asleep_at_press, soft_sleep, history>>

\* do_long_press: on a dark screen it asks for light and sleeps (pc "menu").
LongPress ==
    /\ pc = "select" /\ Readable = {} /\ Armed
    /\ down[POWER] + elapsed >= LONG_PRESS
    /\ StampNow
    /\ long_fired' = TRUE
    /\ WakeIf(asleep_at_press)
    /\ pc' = IF asleep_at_press THEN "menu" ELSE "select"
    /\ acts' = acts + 1
    /\ UNCHANGED <<input, desktop, devices, ready, batch, combo_fired,
                   asleep_at_press, since_wake, found>>

\* prompt_power_menu after the half-second sleep, and back to select.
MenuPrompt ==
    /\ pc = "menu"
    /\ pc' = "select"
    /\ UNCHANGED <<input, desktop, jobs, devices, ready, batch, stamp, keys,
                   soft_sleep, history>>

ReadKey(k) ==
    /\ pc = "events" /\ batch = <<>> /\ k \in ready \ gone
    /\ LET n == AtMost(Len(queue[k]), READ_EVENTS)
       IN /\ batch' = SubSeq(queue[k], 1, n)
          /\ queue' = [queue EXCEPT ![k] = SubSeq(@, n + 1, Len(@))]
    /\ ready' = ready \ {k}
    /\ UNCHANGED <<held, gone, desktop, jobs, pc, devices, stamp, keys, soft_sleep,
                   history>>

\* The fds left after one failed; its mutant only logs, and keeps the fd.
Remaining_All(k) == devices
Remaining(k) == devices \ {k}

\* os.read raises: drop the fd, and exit if it was the power key's.
ReadError(k) ==
    /\ pc = "events" /\ batch = <<>> /\ k \in ready \cap gone
    /\ IF k = POWER
       THEN /\ pc' = "dead" /\ devices' = {} /\ ready' = {}
            /\ queue' = [j \in Keys |-> <<>>]
       ELSE /\ devices' = Remaining(k) /\ ready' = ready \ {k}
            /\ UNCHANGED <<pc, queue>>
    /\ UNCHANGED <<held, gone, desktop, jobs, batch, stamp, keys, soft_sleep,
                   history>>

\* Both fds read and every event handled: back to the top of the loop.
LoopBack ==
    /\ pc = "events" /\ batch = <<>> /\ ready = {}
    /\ pc' = "select"
    /\ UNCHANGED <<input, desktop, jobs, devices, ready, batch, stamp, keys,
                   soft_sleep, history>>
-----------------------------------------------------------------------------
(* One event of the batch. *)

NextEvent(code, value) ==
    /\ pc = "events" /\ batch # <<>>
    /\ Head(batch).code = code /\ Head(batch).value = value
    /\ batch' = Tail(batch)

\* The sample of the screen state belongs to the press of the power key.
Sampled(code) == IF code = POWER THEN is_asleep ELSE asleep_at_press

\* Mutant of IsChord: any two keys held together are a chord.
IsChord_AnyTime(code) == down[Other(code)] # None /\ ~combo_fired

IsChord(code) ==
    /\ down[Other(code)] # None /\ ~combo_fired
    /\ down[Other(code)] <= COMBO_WINDOW

KeyDown(code) ==
    /\ NextEvent(code, 1)
    /\ down' = [down EXCEPT ![code] = 0]
    /\ asleep_at_press' = Sampled(code)
    /\ IF IsChord(code)
       THEN combo_fired' = TRUE /\ long_fired' = TRUE /\ WakeIf(Sampled(code))
       ELSE /\ long_fired' = (long_fired /\ code # POWER)
            /\ UNCHANGED <<combo_fired, soft_sleep, jobs>>
    /\ acts' = (IF code = POWER THEN 0 ELSE acts) + (IF IsChord(code) THEN 1 ELSE 0)
    /\ found' = IF code = POWER THEN Head(batch).sight ELSE found
    /\ UNCHANGED <<input, desktop, pc, devices, ready, stamp, since_wake>>

\* Mutant of LetGo: only the power key's release looks for the end of the chord.
LetGo_PowerOnly(code) ==
    LET up == [down EXCEPT ![code] = None]
        free == code = POWER /\ \A k \in Keys : up[k] = None
    IN /\ down' = up
       /\ combo_fired' = (combo_fired /\ ~free)
       /\ long_fired' = (long_fired /\ ~free)

\* What every release does: the chord ends only when both keys are up.
LetGo(code) ==
    LET up == [down EXCEPT ![code] = None]
        free == \A k \in Keys : up[k] = None
    IN /\ down' = up
       /\ combo_fired' = (combo_fired /\ ~free)
       /\ long_fired' = (long_fired /\ ~free)

\* The release of the power key is a short press.
IsShort == down[POWER] # None /\ ~combo_fired /\ ~long_fired

\* A release that does nothing more, one inside the wake guard included.
KeyUp(code) ==
    /\ NextEvent(code, 0)
    /\ code = POWER /\ IsShort => guard > 0
    /\ LetGo(code)
    /\ UNCHANGED <<input, desktop, jobs, pc, devices, ready, stamp,
                   asleep_at_press, soft_sleep, history>>

\* clock() + WAKE_GUARD_S, the clock read anew; its mutant adds to `now`.
GuardUntil_FromNow == WAKE_GUARD
GuardUntil == elapsed + WAKE_GUARD

ShortPressWake ==
    /\ NextEvent(POWER, 0) /\ IsShort /\ guard = 0 /\ asleep_at_press
    /\ LetGo(POWER)
    /\ WakeIf(TRUE)
    /\ guard' = GuardUntil
    /\ acts' = acts + 1 /\ since_wake' = 0
    /\ UNCHANGED <<input, desktop, pc, devices, ready, elapsed, asleep_at_press, found>>

\* lock-sessions, then the 0.8 s sleep in which the daemon reads nothing.
ShortPressLock ==
    /\ NextEvent(POWER, 0) /\ IsShort /\ guard = 0 /\ ~asleep_at_press
    /\ LetGo(POWER)
    /\ pc' = "lock"
    /\ acts' = acts + 1
    /\ UNCHANGED <<input, desktop, jobs, devices, ready, stamp, asleep_at_press,
                   soft_sleep, since_wake, found>>

\* Mutant of LockBlank: the daemon does not remember that it blanked.
LockBlank_Forgets ==
    /\ pc = "lock"
    /\ set_dpms("off") /\ UNCHANGED soft_sleep
    /\ pc' = "events"
    /\ UNCHANGED <<input, desktop, devices, ready, batch, stamp, keys, history>>

LockBlank ==
    /\ pc = "lock"
    /\ set_dpms("off") /\ soft_sleep' = TRUE
    /\ pc' = "events"
    /\ UNCHANGED <<input, desktop, devices, ready, batch, stamp, keys, history>>
-----------------------------------------------------------------------------
Init ==
    /\ held = [k \in Keys |-> FALSE] /\ queue = [k \in Keys |-> <<>>]
    /\ gone = {} /\ panel = TRUE /\ kwin = FALSE /\ jobs = <<>>
    /\ pc = "select" /\ devices \in {Keys, {POWER}}
    /\ ready = {} /\ batch = <<>> /\ elapsed = 0 /\ guard = 0
    /\ down = [k \in Keys |-> None]
    /\ combo_fired = FALSE /\ long_fired = FALSE
    /\ asleep_at_press = FALSE /\ soft_sleep = FALSE
    /\ acts = 0 /\ since_wake = WAKE_GUARD /\ found = "changing"

Daemon ==
    \/ Restart \/ SelectReady \/ SelectTimeout \/ LongPress \/ MenuPrompt
    \/ LoopBack \/ ShortPressWake \/ ShortPressLock \/ LockBlank
    \/ \E k \in Keys : ReadKey(k) \/ ReadError(k) \/ KeyDown(k) \/ KeyUp(k)

Environment ==
    \/ \E k \in Keys : Press(k) \/ Release(k) \/ Unplug(k)
    \/ KWinWake \/ IdleBlank \/ Tick
    \/ \E i \in 1..Len(jobs) : DpmsDone(i)

Next == Daemon \/ Environment

Spec == Init /\ [][Next]_vars

\* The daemon is a running process that systemd restarts (Restart=always), and
\* time passes.  The finger, KWin and kscreen-doctor owe nothing.
FairSpec == Spec /\ WF_vars(Daemon) /\ WF_vars(Tick)
-----------------------------------------------------------------------------
(* Properties. *)

\* The finger is off both keys and the daemon has heard all about it.
AtRest ==
    /\ pc = "select" /\ Drained /\ devices \cap gone = {}
    /\ \A k \in Keys : ~held[k]

\* One hold of the power key leads to at most one action, whatever the order in
\* which the two devices are read, however late, and across a restart of the
\* daemon during the hold (combo_fired and long_fired, tabs6-powerkeyd.py:340-341).
OneActionPerHold == acts <= 1

\* After a chord or a menu the daemon does not believe the screen is off, so the
\* next power press locks (the reconciliation of tabs6-powerkeyd.py:274-282, 312).
ActionClearsSleep == combo_fired \/ long_fired => ~soft_sleep

\* The daemon never locks within the wake guard of the press that woke the tablet
\* (tabs6-powerkeyd.py:51-62), although it compares with a stale `now`.
GuardedLock == pc = "lock" => since_wake = WAKE_GUARD

\* A chord is over once both keys have been let go (tabs6-powerkeyd.py:438-442):
\* no suppression outlives it.
ChordEnds == AtRest => ~combo_fired /\ ~long_fired

\* A power press that found a dark panel never locks and blanks again
\* (tabs6-powerkeyd.py:343-353).
DarkPressNeverLocks == pc = "lock" => found # "dark"

\* When the last kscreen-doctor has finished, a panel it leaves dark is one the
\* daemon remembers blanking (soft_sleep, tabs6-powerkeyd.py:117-122), so that the
\* next press wakes it.
DarkIsOurs == [][jobs # <<>> /\ jobs' = <<>> /\ ~panel' => soft_sleep']_vars

\* Holding the power key alone long enough does open the menu.
HoldOpensMenu ==
    <>[](down[POWER] # None /\ ~combo_fired /\ queue[VOLDOWN] = <<>>)
        => <>[]long_fired

\* A dead input device is dropped rather than selected forever
\* (tabs6-powerkeyd.py:382-397).
DeadDeviceDropped == devices \cap gone # {} ~> devices \cap gone = {}
=============================================================================
