----------------------------- MODULE Screenshot -----------------------------
(***************************************************************************)
(* Screenshots: the tray button, which starts tools/tabs6-screenshot, and  *)
(* the chord, for which the power-key daemon starts a thread               *)
(* (tools/tabs6-powerkeyd.py).  Each tries spellings of spectacle's        *)
(* command line until one is accepted, then waits for its file.            *)
(*                                                                         *)
(* Spectacle may hand a capture to an instance already running and return  *)
(* at once: the capture is then written later, or never.  Files are named  *)
(* by the second and both programs write to the same directory.            *)
(***************************************************************************)
EXTENDS TrayItem, FiniteSets

CONSTANTS
    Taps, Chords,               \* requests from either
    TrayLadder, DaemonLadder,   \* the spellings in the order they are tried
    Releases,                   \* what spectacles accept: sets of spellings
    NoShot,                     \* no file yet
    LastSecond,                 \* bound: the clock stops there
    Hazards                     \* what else may happen in this instance

Requests == Taps \cup Chords

ASSUME ShotAssumption ==
    /\ Taps \cap Chords = {} /\ NoShot \notin Requests /\ LastSecond \in Nat
    /\ Hazards \subseteq {"hang", "spawn_error"}

VARIABLES
    step,       \* how far each request is
    rung,       \* the spelling it tries
    name,       \* the second its file is named by
    captures,   \* how often spectacle took it on
    queue,      \* captures spectacle may still write
    shot,       \* by second: whose capture the file holds
    now, accepts

shots == <<step, rung, name, captures, queue, shot, now, accepts>>
vars == <<tray, shots>>

Ladder(r) == IF r \in Taps THEN TrayLadder ELSE DaemonLadder
Go(r, s) == step' = [step EXCEPT ![r] = s]
-----------------------------------------------------------------------------
(* A request begins with its file's name.                                  *)
Start(r) ==
    /\ step[r] = "new"
    /\ Go(r, "try")
    /\ name' = [name EXCEPT ![r] = now]
    /\ UNCHANGED <<rung, captures, queue, shot, now, accepts>>

take_screenshot_blocking(r) == r \in Chords /\ Start(r) /\ UNCHANGED tray

(* A tap starts the script; one that cannot be started, or that no request *)
(* of the instance is left for, is lost.                                   *)
shoot ==
    /\ Take(Tapped)
    /\ \/ \E r \in Taps : Start(r)
       \/ /\ "spawn_error" \in Hazards \/ \A r \in Taps : step[r] # "new"
          /\ UNCHANGED shots
    /\ UNCHANGED <<watcher, known, registered, call, refused, restarts>>
-----------------------------------------------------------------------------
(* One spelling. *)
Spelling(r) == Ladder(r)[rung[r]]

Reject(r) ==
    /\ step[r] = "try" /\ Spelling(r) \notin accepts
    /\ \/ /\ rung[r] < Len(Ladder(r))
          /\ rung' = [rung EXCEPT ![r] = @ + 1] /\ UNCHANGED step
       \/ /\ rung[r] = Len(Ladder(r))
          /\ Go(r, "rejected") /\ UNCHANGED rung
    /\ UNCHANGED <<name, captures, queue, shot, now, accepts>>

TakeOn(r) ==
    /\ captures' = [captures EXCEPT ![r] = @ + 1]
    /\ queue' = queue \cup {r}

(* Mutant of Accept: an accepted spelling is as good as a file.            *)
Accept_TrustsExit(r) ==
    /\ step[r] = "try" /\ Spelling(r) \in accepts
    /\ Go(r, "saved") /\ TakeOn(r)
    /\ UNCHANGED <<rung, name, shot, now, accepts>>

Accept(r) ==
    /\ step[r] = "try" /\ Spelling(r) \in accepts
    /\ Go(r, "wait") /\ TakeOn(r)
    /\ UNCHANGED <<rung, name, shot, now, accepts>>

(* Spectacle does not return: the daemon kills it after 25 s and looks for *)
(* the file once more, the script waits for ever.                          *)
Hang(r) ==
    /\ "hang" \in Hazards /\ step[r] = "try" /\ Spelling(r) \in accepts
    /\ Go(r, IF r \in Chords THEN "wait" ELSE "hung")
    /\ TakeOn(r) \/ UNCHANGED <<captures, queue>>
    /\ UNCHANGED <<rung, name, shot, now, accepts>>

CannotRun(r) ==
    /\ "spawn_error" \in Hazards /\ step[r] = "try" /\ r \in Chords
    /\ Go(r, "failed")
    /\ UNCHANGED <<rung, name, captures, queue, shot, now, accepts>>

(* wait_for_shot, and the script's loop.                                   *)
Found(r) ==
    /\ step[r] = "wait" /\ shot[name[r]] # NoShot
    /\ Go(r, "saved")
    /\ UNCHANGED <<rung, name, captures, queue, shot, now, accepts>>

(* Mutant of NotFound: the next spelling is tried.                         *)
NotFound_TriesNext(r) ==
    /\ step[r] = "wait" /\ shot[name[r]] = NoShot
    /\ rung[r] < Len(Ladder(r))
    /\ Go(r, "try") /\ rung' = [rung EXCEPT ![r] = @ + 1]
    /\ UNCHANGED <<name, captures, queue, shot, now, accepts>>

NotFound(r) ==
    /\ step[r] = "wait" /\ shot[name[r]] = NoShot
    /\ Go(r, "nofile")
    /\ UNCHANGED <<rung, name, captures, queue, shot, now, accepts>>
-----------------------------------------------------------------------------
(* Spectacle and the clock. *)
Write(r) ==
    /\ r \in queue /\ queue' = queue \ {r}
    /\ \/ shot' = [shot EXCEPT ![name[r]] = r]
       \/ UNCHANGED shot
    /\ UNCHANGED <<step, rung, name, captures, now, accepts>>

Second ==
    /\ now < LastSecond /\ now' = now + 1
    /\ UNCHANGED <<step, rung, name, captures, queue, shot, accepts>>

Init ==
    /\ TrayInit
    /\ step = [r \in Requests |-> "new"] /\ rung = [r \in Requests |-> 1]
    /\ name = [r \in Requests |-> 0] /\ captures = [r \in Requests |-> 0]
    /\ queue = {} /\ now = 0 /\ shot = [s \in 0..LastSecond |-> NoShot]
    /\ accepts \in Releases

Loop == on_watcher_vanished \/ register_with_watcher \/ Return

Capture(r) == Reject(r) \/ Accept(r) \/ Hang(r) \/ CannotRun(r) \/ Found(r) \/ NotFound(r)

Next ==
    \/ (WatcherGoes \/ WatcherComes \/ Tap \/ Answer \/ Loop) /\ UNCHANGED shots
    \/ shoot
    \/ \E r \in Requests : take_screenshot_blocking(r)
    \/ (Second \/ \E r \in Requests : Capture(r) \/ Write(r)) /\ UNCHANGED tray

(* The main loop handles what comes and a call ends within five seconds.   *)
FairSpec ==
    /\ Init /\ [][Next]_vars
    /\ WF_vars((Loop /\ UNCHANGED shots) \/ shoot)
    /\ WF_vars(Answer /\ UNCHANGED shots)
-----------------------------------------------------------------------------
(* "Trying another spelling would only queue a second capture": spectacle  *)
(* takes a request on at most once, however it hangs, and one reported as  *)
(* rejected by every spelling not at all.                                  *)
OneCapture ==
    \A r \in Requests : captures[r] <= (IF step[r] = "rejected" THEN 0 ELSE 1)

(* A request reported as saved has a file under its own name, and the      *)
(* capture in it is its own unless another's file had the same second.     *)
SavedIsThere ==
    \A r \in Requests : step[r] = "saved" =>
        \E q \in Requests :
            /\ shot[name[r]] = q /\ captures[q] > 0
            /\ q # r => name[q] = name[r] /\ step[q] # "new"

(* The icon does not "silently disappear for good": if the watcher stays,  *)
(* it comes to show the icon, unless the call to it failed though it was   *)
(* there (the one case in which nothing tries again).                      *)
IconShown == <>[]watcher => <>[](known \/ refused)
=============================================================================
