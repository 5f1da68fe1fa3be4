-------------------------- MODULE ScreenshotProofs --------------------------
(***************************************************************************)
(* Proofs about Screenshot, for any number of taps and chords, any ladders *)
(* and any spectacle: captures and their files, and the tray's icon for    *)
(* any number of watchers.                                                 *)
(***************************************************************************)
EXTENDS Screenshot, TLAPS, SequenceTheorems

(***************************************************************************)
(* Until a request waits or hangs spectacle has not taken it on; what is   *)
(* queued or in a file was taken on, and is in the file its name says.     *)
(***************************************************************************)
ShotInv ==
    /\ step \in [Requests -> {"new", "try", "wait", "hung", "saved", "nofile",
                              "rejected", "failed"}]
    /\ name \in [Requests -> Nat] /\ captures \in [Requests -> Nat]
    /\ shot \in [0..LastSecond -> Requests \cup {NoShot}]
    /\ now \in 0..LastSecond /\ name \in [Requests -> 0..LastSecond]
    /\ queue \subseteq Requests
    /\ \A r \in Requests : captures[r] \in {0, 1}
    /\ \A r \in Requests : step[r] \in {"new", "try", "rejected", "failed"} => captures[r] = 0
    /\ \A r \in queue : captures[r] = 1
    /\ \A s \in 0..LastSecond : shot[s] # NoShot => captures[shot[s]] = 1 /\ name[shot[s]] = s
    /\ \A r \in Requests : step[r] = "saved" => shot[name[r]] # NoShot

LEMMA ShotStep == ShotInv /\ [Next]_vars => ShotInv'
  <1> SUFFICES ASSUME ShotInv, [Next]_vars PROVE ShotInv'
    OBVIOUS
  <1> USE ShotAssumption DEF ShotInv
  <1>1. CASE UNCHANGED shots
    BY <1>1 DEF shots
  <1>2. CASE Second
    BY <1>2 DEF Second
  <1>3. ASSUME NEW r \in Requests, Start(r) PROVE ShotInv'
    <2>1. \A s \in 0..LastSecond : shot[s] # r
      BY <1>3 DEF Start
    <2>2. /\ step' = [step EXCEPT ![r] = "try"] /\ name' = [name EXCEPT ![r] = now]
          /\ step[r] = "new" /\ UNCHANGED <<captures, queue, shot, now>>
      BY <1>3 DEF Start, Go
    <2>3. QED BY <2>1, <2>2
  <1>4. ASSUME NEW r \in Requests, Reject(r) \/ CannotRun(r) PROVE ShotInv'
    <2>1. /\ step[r] = "try" /\ UNCHANGED <<name, captures, queue, shot, now>>
          /\ \/ step' = step
             \/ \E s \in {"rejected", "failed"} : step' = [step EXCEPT ![r] = s]
      BY <1>4 DEF Reject, CannotRun, Go
    <2>2. QED BY <2>1
  <1>5. ASSUME NEW r \in Requests, Accept(r) \/ Hang(r) PROVE ShotInv'
    <2>1. /\ step[r] = "try" /\ UNCHANGED <<name, shot, now>>
          /\ \E s \in {"wait", "hung"} : step' = [step EXCEPT ![r] = s]
          /\ TakeOn(r) \/ UNCHANGED <<captures, queue>>
      BY <1>5 DEF Accept, Hang, Go
    <2>2. CASE TakeOn(r)
      <3>1. captures[r] = 0 /\ captures[r] + 1 = 1
        BY <2>1
      <3>2. captures' = [captures EXCEPT ![r] = 1] /\ queue' = queue \cup {r}
        BY <2>2, <3>1 DEF TakeOn
      <3>3. PICK t \in {"wait", "hung"} : step' = [step EXCEPT ![r] = t]
        BY <2>1
      <3>4. \A q \in Requests :
                /\ captures'[q] = (IF q = r THEN 1 ELSE captures[q])
                /\ step'[q] = (IF q = r THEN t ELSE step[q])
        BY <3>2, <3>3
      <3>5. \A q \in queue' : captures'[q] = 1
        BY <3>2, <3>4
      <3>6. \A s \in 0..LastSecond : shot[s] # NoShot => captures'[shot[s]] = 1
        BY <3>4
      <3>7. /\ captures' \in [Requests -> Nat] /\ queue' \subseteq Requests
            /\ step' \in [Requests -> {"new", "try", "wait", "hung", "saved", "nofile",
                                       "rejected", "failed"}]
        BY <3>2, <3>3
      <3>8. \A q \in Requests :
                /\ captures'[q] \in {0, 1}
                /\ step'[q] \in {"new", "try", "rejected", "failed"} => captures'[q] = 0
                /\ step'[q] = "saved" => step[q] = "saved"
        BY <3>3, <3>4
      <3>9. QED BY <2>1, <3>5, <3>6, <3>7, <3>8
    <2>3. CASE UNCHANGED <<captures, queue>>
      <3>1. PICK t \in {"wait", "hung"} : step' = [step EXCEPT ![r] = t]
        BY <2>1
      <3>2. /\ step' \in [Requests -> {"new", "try", "wait", "hung", "saved", "nofile",
                                       "rejected", "failed"}]
            /\ \A q \in Requests : step'[q] = (IF q = r THEN t ELSE step[q])
        BY <3>1
      <3>3. QED BY <2>1, <2>3, <3>2
    <2>4. QED BY <2>1, <2>2, <2>3
  <1>6. ASSUME NEW r \in Requests, Found(r) \/ NotFound(r) PROVE ShotInv'
    <2>1. /\ step[r] = "wait" /\ UNCHANGED <<name, captures, queue, shot, now>>
          /\ \/ step' = [step EXCEPT ![r] = "saved"] /\ shot[name[r]] # NoShot
             \/ step' = [step EXCEPT ![r] = "nofile"]
      BY <1>6 DEF Found, NotFound, Go
    <2>3. CASE step' = [step EXCEPT ![r] = "saved"] /\ shot[name[r]] # NoShot
      BY <2>1, <2>3
    <2>4. CASE step' = [step EXCEPT ![r] = "nofile"]
      BY <2>1, <2>4
    <2>5. QED BY <2>1, <2>3, <2>4
  <1>7. ASSUME NEW r \in Requests, Write(r) PROVE ShotInv'
    BY <1>7 DEF Write
  <1>8. UNCHANGED shots \/ Second \/ \E r \in Requests : Start(r) \/ Capture(r) \/ Write(r)
    BY DEF Next, shoot, take_screenshot_blocking, vars, Requests
  <1>9. QED BY <1>1, <1>2, <1>3, <1>4, <1>5, <1>6, <1>7, <1>8 DEF Capture

LEMMA ShotSafe == FairSpec => []ShotInv
  <1>1. Init => ShotInv
    BY ShotAssumption DEF Init, ShotInv
  <1>2. QED BY <1>1, ShotStep, PTL DEF FairSpec

(* No request is captured twice, whatever spectacle does with its spelling, *)
(* and one that was rejected to the end is not captured at all.             *)
THEOREM CapturedOnce == FairSpec => []OneCapture
  <1>1. ShotInv => OneCapture
    <2> SUFFICES ASSUME ShotInv, NEW r \in Requests
                 PROVE  captures[r] <= (IF step[r] = "rejected" THEN 0 ELSE 1)
      BY DEF OneCapture
    <2>1. captures[r] \in {0, 1} /\ (step[r] = "rejected" => captures[r] = 0)
      BY DEF ShotInv
    <2>2. QED BY <2>1
  <1>2. QED BY <1>1, ShotSafe, PTL

(* What is reported as saved is there, and is its own but for one that was  *)
(* taken in the same second.                                                *)
THEOREM SavedIsOwn == FairSpec => []SavedIsThere
  <1>1. ShotInv => SavedIsThere
    BY DEF ShotInv, SavedIsThere
  <1>2. QED BY <1>1, ShotSafe, PTL
-----------------------------------------------------------------------------
(***************************************************************************)
(* The button.  While the watcher is there without our icon, and has not   *)
(* failed us, either the call is on its way or the word of its coming is   *)
(* in the inbox: after the word of its last going, and, for a button that  *)
(* believes itself registered, with a going before it.                     *)
(***************************************************************************)
Words == {"acquired", "appeared", "vanished", Tapped}

Believes == registered \/ call = "answered"
Vanishes == \E i \in 1..Len(inbox) : inbox[i] = "vanished"
Appears ==
    \E i \in 1..Len(inbox) :
        /\ inbox[i] = "appeared"
        /\ \A j \in (i + 1)..Len(inbox) : inbox[j] # "vanished"
        /\ Believes => \E j \in 1..(i - 1) : inbox[j] = "vanished"

IconInv ==
    /\ inbox \in Seq(Words) /\ call \in {"none", "sent", "answered", "failed"}
    /\ call # "none" => ~registered
    /\ known \/ call = "sent" => watcher
    /\ ~known /\ Believes => Vanishes
    /\ watcher /\ ~known /\ ~refused => call = "sent" \/ Appears

\* The inbox after a message more, and after the first one is taken.
LEMMA Arrives ==
    ASSUME inbox \in Seq(Words), NEW m \in Words, inbox' = Append(inbox, m)
    PROVE  /\ inbox' \in Seq(Words) /\ Len(inbox') = Len(inbox) + 1 /\ Len(inbox) \in Nat
           /\ inbox'[Len(inbox) + 1] = m
           /\ \A i \in 1..Len(inbox) : inbox'[i] = inbox[i]
  OBVIOUS

LEMMA Taken ==
    ASSUME inbox \in Seq(Words), NEW m, Take(m)
    PROVE  /\ inbox' \in Seq(Words) /\ Len(inbox) \in Nat /\ Len(inbox) >= 1
           /\ Len(inbox') = Len(inbox) - 1 /\ inbox[1] = m /\ call = "none"
           /\ \A i \in 1..Len(inbox') : inbox'[i] = inbox[i + 1]
  <1>1. inbox # <<>> /\ Head(inbox) = m /\ inbox' = Tail(inbox) /\ call = "none"
    BY DEF Take
  <1>2. Head(inbox) = inbox[1] /\ Len(inbox) >= 1 /\ Len(inbox) \in Nat
    BY <1>1, EmptySeq, HeadTailProperties
  <1>3. QED BY <1>1, <1>2, HeadTailProperties

\* What waits behind a message that is not of a going still waits.
LEMMA StillWaits ==
    ASSUME inbox \in Seq(Words), NEW m, Take(m), m # "vanished", Believes' => Believes
    PROVE  /\ Vanishes => Vanishes'
           /\ Appears /\ (m # "appeared" \/ Believes) => Appears'
  <1>1. ASSUME Vanishes PROVE Vanishes'
    <2>1. PICK i \in 1..Len(inbox) : inbox[i] = "vanished"
      BY <1>1 DEF Vanishes
    <2>2. i - 1 \in 1..Len(inbox') /\ inbox'[i - 1] = "vanished"
      BY <2>1, Taken
    <2>3. QED BY <2>2 DEF Vanishes
  <1>2. ASSUME Appears, m # "appeared" \/ Believes PROVE Appears'
    <2>1. PICK i \in 1..Len(inbox) :
              /\ inbox[i] = "appeared"
              /\ \A j \in (i + 1)..Len(inbox) : inbox[j] # "vanished"
              /\ Believes => \E j \in 1..(i - 1) : inbox[j] = "vanished"
      BY <1>2 DEF Appears
    <2>2. i # 1
      BY <1>2, <2>1, Taken
    <2>3. i - 1 \in 1..Len(inbox') /\ inbox'[i - 1] = "appeared"
      BY <2>1, <2>2, Taken
    <2>4. \A j \in i..Len(inbox') : inbox'[j] # "vanished"
      BY <2>1, Taken
    <2>5. ASSUME Believes PROVE \E j \in 1..(i - 2) : inbox'[j] = "vanished"
      <3>1. PICK j \in 1..(i - 1) : inbox[j] = "vanished"
        BY <2>1, <2>5
      <3>2. j # 1 /\ j - 1 \in 1..Len(inbox')
        BY <2>1, <3>1, Taken
      <3>3. inbox'[j - 1] = "vanished"
        BY <3>1, <3>2, Taken
      <3>4. j - 1 \in 1..(i - 2)
        BY <2>1, <3>1, <3>2, Taken
      <3>5. QED BY <3>3, <3>4
    <2>6. Len(inbox') \in Nat /\ i \in Nat
      BY Taken
    <2>7. (i - 1) + 1 = i /\ (i - 1) - 1 = i - 2
      BY <2>6
    <2>8. QED BY <2>3, <2>4, <2>5, <2>7 DEF Appears
  <1>3. QED BY <1>1, <1>2

LEMMA IconStep ==
    ASSUME IconInv, [Next]_vars
    PROVE  IconInv'
  <1> USE TrayAssumption
  <1>0. CASE UNCHANGED tray
    BY <1>0 DEF tray, IconInv, Believes, Vanishes, Appears
  <1>1. CASE WatcherGoes
    <2>1. /\ inbox' = Append(inbox, "vanished") /\ ~watcher' /\ ~known'
          /\ call' = (IF call = "sent" THEN "failed" ELSE call) /\ registered' = registered
      BY <1>1 DEF WatcherGoes
    <2>2. inbox' \in Seq(Words) /\ Vanishes'
      BY <2>1, Arrives DEF IconInv, Words, Vanishes
    <2>3. QED BY <2>1, <2>2 DEF IconInv
  <1>2. CASE WatcherComes
    <2>1. /\ inbox' = Append(inbox, "appeared") /\ ~watcher /\ watcher'
          /\ UNCHANGED <<known, registered, call, refused>>
      BY <1>2 DEF WatcherComes
    <2>2. ~known /\ (Believes' <=> Believes)
      BY <2>1 DEF IconInv, Believes
    <2>3. inbox' \in Seq(Words) /\ (Vanishes => Vanishes')
      BY <2>1, Arrives DEF IconInv, Words, Vanishes
    <2>4. Appears'
      <3>1. /\ Len(inbox) \in Nat /\ Len(inbox') = Len(inbox) + 1
            /\ inbox'[Len(inbox) + 1] = "appeared"
            /\ \A i \in 1..Len(inbox) : inbox'[i] = inbox[i]
        BY <2>1, Arrives DEF IconInv, Words
      <3>2. Believes => \E j \in 1..Len(inbox) : inbox'[j] = "vanished"
        BY <2>2, <3>1 DEF IconInv, Vanishes
      <3>3. QED BY <2>2, <3>1, <3>2 DEF Appears
    <2>5. QED BY <2>1, <2>2, <2>3, <2>4 DEF IconInv
  <1>3. CASE Tap
    <2>1. /\ known /\ known' /\ inbox' = Append(inbox, Tapped)
          /\ UNCHANGED <<watcher, registered, call, refused>>
      BY <1>3 DEF Tap
    <2>2. inbox' \in Seq(Words)
      BY <2>1, Arrives DEF IconInv, Words
    <2>3. QED BY <2>1, <2>2 DEF IconInv
  <1>4. CASE Answer
    <2>1. /\ call = "sent" /\ UNCHANGED <<watcher, inbox, registered>>
          /\ \/ known' /\ call' = "answered" /\ refused' = refused
             \/ call' = "failed" /\ refused'
      BY <1>4 DEF Answer
    <2>2. QED BY <2>1 DEF IconInv, Believes
  <1>5. CASE on_watcher_vanished
    <2>1. Take("vanished") /\ ~registered' /\ UNCHANGED <<watcher, known, call, refused>>
      BY <1>5 DEF on_watcher_vanished
    <2>2. inbox' \in Seq(Words) /\ call = "none" /\ ~Believes'
      BY <2>1, Taken DEF IconInv, Believes
    <2>3. Appears => Appears'
      <3>1. SUFFICES ASSUME Appears PROVE Appears'
        OBVIOUS
      <3>2. PICK i \in 1..Len(inbox) :
                /\ inbox[i] = "appeared"
                /\ \A j \in (i + 1)..Len(inbox) : inbox[j] # "vanished"
        BY <3>1 DEF Appears
      <3>3. i - 1 \in 1..Len(inbox') /\ inbox'[i - 1] = "appeared"
        BY <2>1, <3>2, Taken DEF IconInv
      <3>4. \A j \in ((i - 1) + 1)..Len(inbox') : inbox'[j] # "vanished"
        BY <2>1, <3>2, Taken DEF IconInv
      <3>5. QED BY <2>2, <3>3, <3>4 DEF Appears
    <2>4. QED BY <2>1, <2>2, <2>3 DEF IconInv
  <1>6. CASE register_with_watcher
    <2>1. PICK m \in {"acquired", "appeared"} : Take(m)
      BY <1>6 DEF register_with_watcher
    <2>2. /\ UNCHANGED <<watcher, known, registered>> /\ call = "none"
          /\ \/ registered /\ call' = "none" /\ (refused' <=> refused)
             \/ ~registered /\ watcher /\ call' = "sent" /\ ~refused'
             \/ ~registered /\ ~watcher /\ call' = "failed" /\ ~refused'
      BY <1>6, <2>1, Taken DEF register_with_watcher, IconInv
    <2>3. inbox' \in Seq(Words) /\ (Believes' <=> Believes) /\ (Believes <=> registered)
      BY <2>1, <2>2, Taken DEF IconInv, Believes
    <2>4. registered => (Vanishes => Vanishes') /\ (Appears => Appears')
      BY <2>1, <2>3, StillWaits DEF IconInv
    <2>5. QED BY <2>2, <2>3, <2>4 DEF IconInv
  <1>7. CASE Return
    <2>1. /\ call \in {"answered", "failed"} /\ call' = "none"
          /\ (registered' <=> call = "answered")
          /\ UNCHANGED <<watcher, known, inbox, refused>>
      BY <1>7 DEF Return
    <2>2. Believes' => Believes
      BY <2>1 DEF Believes
    <2>3. (Vanishes' <=> Vanishes) /\ (Appears => Appears')
      BY <2>1, <2>2 DEF Vanishes, Appears
    <2>4. QED BY <2>1, <2>2, <2>3 DEF IconInv
  <1>8. CASE shoot
    <2>1. Take(Tapped) /\ UNCHANGED <<watcher, known, registered, call, refused>>
      BY <1>8 DEF shoot
    <2>2. inbox' \in Seq(Words) /\ (Believes' <=> Believes)
      BY <2>1, Taken DEF IconInv, Believes
    <2>3. (Vanishes => Vanishes') /\ (Appears => Appears')
      BY <2>1, <2>2, StillWaits DEF IconInv
    <2>4. QED BY <2>1, <2>2, <2>3 DEF IconInv
  <1>9. QED
    BY <1>0, <1>1, <1>2, <1>3, <1>4, <1>5, <1>6, <1>7, <1>8
    DEF Next, Loop, take_screenshot_blocking, vars

\* The part of IconShown that is not about time: whenever the button has nothing left
\* to do and a watcher is there, that watcher shows the icon or has failed the call,
\* however often it went and came, also while the call to it was under way.
IconAtRest == inbox = <<>> /\ call = "none" /\ watcher => known \/ refused

THEOREM IconStays == FairSpec => []IconAtRest
  <1>1. Init => IconInv
    <2> SUFFICES ASSUME Init PROVE IconInv
      OBVIOUS
    <2>1. /\ ~known /\ ~registered /\ call = "none" /\ ~refused
          /\ inbox \in {<<"acquired", "appeared">>, <<"appeared", "acquired">>,
                        <<"acquired", "vanished">>, <<"vanished", "acquired">>}
          /\ watcher => inbox \in {<<"acquired", "appeared">>, <<"appeared", "acquired">>}
      BY DEF Init, TrayInit
    <2>2. inbox \in Seq(Words)
      BY <2>1 DEF Words
    <2>3. watcher => Appears
      <3>1. inbox = <<"acquired", "appeared">> => Appears
        BY <2>1 DEF Appears, Believes
      <3>2. inbox = <<"appeared", "acquired">> => Appears
        BY <2>1 DEF Appears, Believes
      <3>3. QED BY <2>1, <3>1, <3>2
    <2>4. QED BY <2>1, <2>2, <2>3 DEF IconInv, Believes
  <1>2. IconInv => IconAtRest
    <2>1. inbox = <<>> => ~Appears
      BY DEF Appears
    <2>2. QED BY <2>1 DEF IconInv, IconAtRest
  <1>3. QED BY <1>1, <1>2, IconStep, PTL DEF FairSpec
=============================================================================
