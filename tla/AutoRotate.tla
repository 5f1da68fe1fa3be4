----------------------------- MODULE AutoRotate -----------------------------
(***************************************************************************)
(* Auto-rotation: the daemon userspace/sensors/tabs6-autorotate, the tray  *)
(* toggle tabs6-rotate-tray.py that sets the lock file and signals it, and *)
(* around them iio-sensor-proxy, which is restarted whenever the sensor    *)
(* DSP recovers, and the hand that turns the tablet.                       *)
(*                                                                         *)
(* The daemon is one GLib loop.  Its calls to the proxy block, so signals  *)
(* wait in its inbox and are handled, in order, after the calls' replies.  *)
(* A claim is three calls, and the proxy may restart between any two.      *)
(***************************************************************************)
EXTENDS Integers, Sequences

CONSTANTS
    Map,         \* orientation -> rotation, DEFAULT_MAP with its override
    MAX_INBOX,   \* bound: unread messages
    Hazards      \* which failures this instance allows

None == "None"

\* A rotation is a word for kscreen-doctor, never Python's None.
ASSUME MapAssumption ==
    /\ DOMAIN Map \subseteq STRING /\ None \notin {Map[o] : o \in DOMAIN Map}
    /\ {"up", "gone", "accel", "undefined"} \cap DOMAIN Map = {}
    /\ MAX_INBOX \in Nat \ {0}
    /\ Hazards \subseteq {"kscreen_error", "tray_killed", "crash"}

VARIABLES
    tilt,        \* how the tablet is held
    proxy,       \* is iio-sensor-proxy running
    accel,       \* its HasAccelerometer
    orient,      \* its AccelerometerOrientation
    granted,     \* it counts the daemon among its clients
    inbox,       \* messages the daemon has not handled
    pc,          \* the daemon
    bound,       \* `props` of the claim in progress still reaches the proxy
    claimed, current, pending, timer,
    handling,    \* the SIGUSR1 handler is installed
    usr1,        \* a SIGUSR1 is pending
    screen,      \* the rotation KWin shows
    lock,        \* the lock file exists
    tray,        \* the tray is "idle" or has yet to "signal" the daemon
    late,        \* history: rotations since the user locked, up to 2
    lost         \* history: a rotation or a signal was lost, none made since

sensor == <<tilt, proxy, accel, orient, granted>>
rot    == <<current, pending, timer>>
sig    == <<handling, usr1>>
user   == <<lock, tray, late>>
vars   == <<sensor, inbox, pc, bound, claimed, rot, sig, screen, lost, user>>

Rotations == {Map[o] : o \in DOMAIN Map}
Orientations == DOMAIN Map \cup {"undefined"}
Messages == Orientations \cup {"up", "gone", "accel"}

TypeOK ==
    /\ tilt \in Orientations /\ orient \in Orientations
    /\ proxy \in BOOLEAN /\ accel \in BOOLEAN /\ granted \in BOOLEAN
    /\ inbox \in Seq(Messages)
    /\ pc \in {"down", "loop", "ask", "claim", "get", "output", "rotate"}
    /\ bound \in BOOLEAN /\ claimed \in BOOLEAN
    /\ current \in Rotations \cup {None} /\ pending \in Rotations \cup {None}
    /\ timer \in BOOLEAN /\ handling \in BOOLEAN /\ usr1 \in BOOLEAN
    /\ screen \in Rotations /\ lock \in BOOLEAN
    /\ tray \in {"idle", "signal"} /\ late \in 0..2 /\ lost \in BOOLEAN
-----------------------------------------------------------------------------
(* The hand, the sensor proxy and its bus. *)

Room == Len(inbox) < MAX_INBOX
Sent(m) == inbox' = IF pc = "down" THEN inbox ELSE Append(inbox, m)

Turn(o) ==
    /\ tilt' = o
    /\ UNCHANGED <<proxy, accel, orient, granted, inbox, pc, bound, claimed, rot, sig,
                   screen, lost, user>>

ProxyDown ==
    /\ proxy /\ Room
    /\ proxy' = FALSE /\ accel' = FALSE /\ orient' = "undefined" /\ granted' = FALSE
    /\ bound' = FALSE
    /\ Sent("gone")
    /\ UNCHANGED <<tilt, pc, claimed, rot, sig, screen, lost, user>>

\* It comes back without an accelerometer, "for about a second".
ProxyUp ==
    /\ ~proxy /\ Room
    /\ proxy' = TRUE
    /\ Sent("up")
    /\ UNCHANGED <<tilt, accel, orient, granted, pc, bound, claimed, rot, sig,
                   screen, lost,
                   user>>

\* The sensor is found; PropertiesChanged is "not always" sent.
AccelFound ==
    /\ proxy /\ ~accel /\ accel' = TRUE
    /\ (Room /\ Sent("accel")) \/ UNCHANGED inbox
    /\ UNCHANGED <<tilt, proxy, orient, granted, pc, bound, claimed, rot, sig,
                   screen, lost,
                   user>>

\* The proxy tells its clients of a new orientation.
Report ==
    /\ accel /\ granted /\ orient # tilt /\ Room
    /\ orient' = tilt
    /\ Sent(tilt)
    /\ UNCHANGED <<tilt, proxy, accel, granted, pc, bound, claimed, rot, sig,
                   screen, lost,
                   user>>
-----------------------------------------------------------------------------
(* claim: three calls.  `props` is bound to the proxy running at its       *)
(* start; the call in the middle goes to whichever is running then.        *)

claim == pc' = "ask" /\ bound' = proxy

Fail ==
    /\ claimed' = FALSE /\ pc' = "loop" /\ handling' = TRUE
    /\ UNCHANGED <<granted, rot>>

\* The debounce: a rotation waits, and a later one takes its place.
apply(o) ==
    IF o \in DOMAIN Map THEN pending' = Map[o] /\ timer' = TRUE
                        ELSE UNCHANGED <<pending, timer>>

AskAccelerometer ==
    /\ pc = "ask"
    /\ \/ bound /\ accel /\ pc' = "claim" /\ UNCHANGED <<granted, claimed, rot,
                                                         handling>>
       \/ ~(bound /\ accel) /\ Fail
    /\ UNCHANGED <<tilt, proxy, accel, orient, inbox, bound, usr1, screen, lost,
                   user>>

ClaimAccelerometer ==
    /\ pc = "claim"
    /\ \/ /\ proxy /\ granted' = TRUE /\ claimed' = TRUE /\ current' = None
          /\ pc' = "get" /\ UNCHANGED <<pending, timer, handling>>
       \/ ~proxy /\ Fail
    /\ UNCHANGED <<tilt, proxy, accel, orient, inbox, bound, usr1, screen, lost,
                   user>>

\* Mutant of Taken: the orientation at the claim is not applied.
Taken_Ignored == UNCHANGED <<pending, timer>>
Taken == apply(orient)

GetOrientation ==
    /\ pc = "get"
    /\ \/ /\ bound /\ Taken /\ pc' = "loop" /\ handling' = TRUE
          /\ UNCHANGED <<granted, claimed, current>>
       \/ ~bound /\ Fail
    /\ UNCHANGED <<tilt, proxy, accel, orient, inbox, bound, usr1, screen, lost,
                   user>>
-----------------------------------------------------------------------------
(* The loop's sources. *)

\* Mutant of OwnerGone: the claim is believed to outlive the proxy.
OwnerGone_Keeps == UNCHANGED claimed
OwnerGone == claimed' = FALSE

\* on_owner and on_props.
Dispatch ==
    /\ pc = "loop" /\ inbox # <<>>
    /\ inbox' = Tail(inbox)
    /\ LET m == Head(inbox)
       IN \/ m = "up" /\ claim /\ UNCHANGED <<claimed, pending, timer>>
          \/ m = "gone" /\ OwnerGone /\ UNCHANGED <<pc, bound, pending, timer>>
          \/ m = "accel" /\ ~claimed /\ claim /\ UNCHANGED <<claimed, pending, timer>>
          \/ m = "accel" /\ claimed /\ UNCHANGED <<pc, bound, claimed, pending,
                                                   timer>>
          \/ m \in Orientations /\ apply(m) /\ UNCHANGED <<pc, bound, claimed>>
    /\ UNCHANGED <<sensor, current, sig, screen, lost, user>>

\* Mutant of RetryDue: it waits for the proxy's word.
RetryDue_Never == FALSE
RetryDue == ~claimed

retry ==
    /\ pc = "loop" /\ RetryDue
    /\ claim
    /\ UNCHANGED <<sensor, inbox, claimed, rot, sig, screen, lost, user>>

resync ==
    /\ pc = "loop" /\ usr1
    /\ usr1' = FALSE
    /\ claim
    /\ UNCHANGED <<sensor, inbox, claimed, rot, handling, screen, lost, user>>

\* Mutant of MayRotate: the lock is not looked at.
MayRotate_Unasked == pending # current
MayRotate == pending # current /\ ~lock

\* The timer fires: commit, up to its query of the output.
commit ==
    /\ pc = "loop" /\ timer
    /\ timer' = FALSE
    /\ pc' = IF MayRotate THEN "output" ELSE "loop"
    /\ UNCHANGED <<sensor, inbox, bound, claimed, current, pending, sig, screen,
                   lost, user>>

KScreenFails ==
    /\ "kscreen_error" \in Hazards
    /\ pc' = "loop" /\ lost' = TRUE /\ UNCHANGED <<current, screen, late>>

output_name ==
    /\ pc = "output"
    /\ \/ pc' = "rotate" /\ UNCHANGED <<current, screen, lost, late>>
       \/ KScreenFails
    /\ UNCHANGED <<sensor, inbox, bound, claimed, pending, timer, sig, lock, tray>>

Rotate ==
    /\ pc = "rotate"
    /\ \/ /\ screen' = pending /\ current' = pending /\ pc' = "loop"
          /\ lost' = FALSE
          /\ late' = IF lock /\ late < 2 THEN late + 1 ELSE late
       \/ KScreenFails
    /\ UNCHANGED <<sensor, inbox, bound, claimed, pending, timer, sig, lock, tray>>
-----------------------------------------------------------------------------
(* The process, and the tray. *)

\* It dies: its connection closes, so the proxy drops its claim.
Dead ==
    /\ pc' = "down" /\ granted' = FALSE /\ inbox' = <<>> /\ bound' = FALSE
    /\ claimed' = FALSE /\ current' = None /\ pending' = None /\ timer' = FALSE
    /\ handling' = FALSE /\ usr1' = FALSE

Crash ==
    /\ "crash" \in Hazards /\ pc # "down"
    /\ Dead
    /\ UNCHANGED <<tilt, proxy, accel, orient, screen, lost, user>>

\* watch_name_owner asks for the owner, and the constructor claims at once.
Restart ==
    /\ pc = "down"
    /\ claim
    /\ inbox' = <<IF proxy THEN "up" ELSE "gone">>
    /\ UNCHANGED <<sensor, claimed, rot, sig, screen, lost, user>>

Lock ==
    /\ tray = "idle" /\ ~lock
    /\ lock' = TRUE /\ late' = 0
    /\ UNCHANGED <<sensor, inbox, pc, bound, claimed, rot, sig, screen, lost, tray>>

\* The file is removed first, the daemon signalled next.
Unlock ==
    /\ tray = "idle" /\ lock
    /\ lock' = FALSE /\ tray' = "signal"
    /\ UNCHANGED <<sensor, inbox, pc, bound, claimed, rot, sig, screen, lost, late>>

\* SIGUSR1 kills a daemon that has not installed its handler yet.
Signal ==
    /\ tray = "signal" /\ tray' = "idle"
    /\ \/ pc = "down" /\ UNCHANGED <<granted, inbox, pc, bound, claimed, rot, sig>>
       \/ /\ handling /\ usr1' = TRUE
          /\ UNCHANGED <<granted, inbox, pc, bound, claimed, rot, handling>>
       \/ pc # "down" /\ ~handling /\ Dead
    /\ UNCHANGED <<tilt, proxy, accel, orient, screen, lost, lock, late>>

TrayKilled ==
    /\ "tray_killed" \in Hazards /\ tray = "signal" /\ tray' = "idle"
    /\ lost' = TRUE
    /\ UNCHANGED <<sensor, inbox, pc, bound, claimed, rot, sig, screen, lock, late>>
-----------------------------------------------------------------------------
Init ==
    /\ tilt \in Orientations /\ proxy \in BOOLEAN /\ accel = FALSE
    /\ orient = "undefined" /\ granted = FALSE /\ inbox = <<>>
    /\ pc = "down" /\ bound = FALSE /\ claimed = FALSE
    /\ current = None /\ pending = None /\ timer = FALSE
    /\ handling = FALSE /\ usr1 = FALSE
    /\ screen \in Rotations /\ lock \in BOOLEAN /\ tray = "idle" /\ late = 0
    /\ lost = FALSE

Daemon ==
    \/ AskAccelerometer \/ ClaimAccelerometer \/ GetOrientation \/ Dispatch
    \/ retry \/ resync \/ commit \/ output_name \/ Rotate \/ Restart

Tray == Lock \/ Unlock \/ Signal \/ TrayKilled

Environment ==
    \/ \E o \in Orientations : Turn(o)
    \/ ProxyDown \/ ProxyUp \/ AccelFound \/ Report \/ Crash

Next == Daemon \/ Tray \/ Environment

Spec == Init /\ [][Next]_vars

\* The daemon runs and systemd restarts it when it is killed; the proxy reports
\* what it senses.  Nobody owes a proxy, an accelerometer or an unlocking.
FairSpec == Spec /\ WF_vars(Daemon) /\ WF_vars(Report)
-----------------------------------------------------------------------------
(* Properties. *)

\* A daemon with nothing left to read that believes in its claim has one with the
\* proxy that is running (on_owner, tabs6-autorotate:113-119), whenever the proxy
\* restarted during the three calls of claim.
ClaimIsReal == pc = "loop" /\ inbox = <<>> /\ claimed => granted

\* Nothing is left that would make the daemon move.
AtRest ==
    /\ pc = "loop" /\ inbox = <<>> /\ ~usr1 /\ ~timer /\ tray = "idle"
    /\ claimed /\ ~lock

\* At rest the screen is as the proxy says the tablet is held (137-155), after
\* restarts of the proxy and the daemon, and after an unlocking (166-171), unless
\* the last rotation failed or the tray died before its signal.
RestsRight == AtRest /\ ~lost /\ orient \in DOMAIN Map => screen = Map[orient]

\* A tap that locks the rotation (tabs6-rotate-tray.py:132) comes too late for at
\* most the one rotation whose commit has looked at the lock (142-149).
OneLateRotation == late <= 1

\* Unlocked, with an accelerometer, and held one way, with no rotation lost.
Held(o) == tilt = o /\ accel /\ ~lock /\ tray = "idle" /\ ~lost
Dies == pc # "down" /\ pc' = "down"

\* A tablet that goes on being held one way is shown that way, whatever messages
\* the proxy did not send (84-92).
Settles ==
    \A o \in DOMAIN Map :
        <>[]Held(o) /\ <>[][~Dies]_vars => <>[](screen = Map[o])
=============================================================================
