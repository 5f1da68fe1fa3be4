-------------------------- MODULE AutoRotateProofs --------------------------
(***************************************************************************)
(* Proofs about AutoRotate, for every map, every length of the inbox and   *)
(* every failure: the claim the daemon believes in, how late a rotation    *)
(* may come after a lock, what a daemon at rest has made of the readings   *)
(* it was sent, and the types.                                             *)
(***************************************************************************)
EXTENDS AutoRotate, TLAPS, SequenceTheorems

USE DEF sensor, rot, sig, user

(***************************************************************************)
(* A daemon that believes in a claim it does not have has been told: the   *)
(* proxy's going is in the inbox, or breaks the call that is under way.    *)
(***************************************************************************)
Told == \E i \in 1..Len(inbox) : inbox[i] = "gone"

ClaimInv ==
    /\ inbox \in Seq(Messages)
    /\ pc \in {"down", "loop", "ask", "claim", "get", "output", "rotate"}
    /\ orient \in Orientations /\ tilt \in Orientations
    /\ proxy \in BOOLEAN
    /\ claimed => granted \/ Told
    /\ pc = "get" => claimed
    /\ pc = "down" => ~claimed

\* A message more, and the first one less, keep what was told.
LEMMA ToldAppend ==
    ASSUME inbox \in Seq(Messages), NEW m \in Messages, inbox' = Append(inbox, m)
    PROVE  inbox' \in Seq(Messages) /\ (Told \/ m = "gone" => Told')
  BY DEF Told

LEMMA ToldTail ==
    ASSUME inbox \in Seq(Messages), inbox # <<>>, inbox' = Tail(inbox)
    PROVE  /\ inbox' \in Seq(Messages) /\ Head(inbox) \in Messages
           /\ Told /\ Head(inbox) # "gone" => Told'
  <1>1. Head(inbox) = inbox[1] /\ Head(inbox) \in Messages /\ Len(inbox) >= 1
    BY EmptySeq, HeadTailProperties
  <1>2. Tail(inbox) \in Seq(Messages) /\ Len(Tail(inbox)) = Len(inbox) - 1
    BY HeadTailProperties
  <1>3. ASSUME Told, Head(inbox) # "gone" PROVE Told'
    <2>1. PICK i \in 1..Len(inbox) : inbox[i] = "gone"
      BY <1>3 DEF Told
    <2>2. i - 1 \in 1..Len(Tail(inbox)) /\ Tail(inbox)[i - 1] = inbox[i]
      BY <1>1, <1>2, <1>3, <2>1
    <2>3. QED BY <2>1, <2>2 DEF Told
  <1>4. QED BY <1>1, <1>2, <1>3

LEMMA SentTold ==
    ASSUME ClaimInv, NEW m \in Messages, Sent(m)
    PROVE  /\ inbox' \in Seq(Messages)
           /\ Told => Told'
           /\ m = "gone" /\ pc # "down" => Told'
  BY ToldAppend DEF Sent, ClaimInv, Told

\* Every step of the daemon keeps ClaimInv.
LEMMA ClaimDaemon == ClaimInv /\ Daemon => ClaimInv'
  <1> SUFFICES ASSUME ClaimInv, Daemon PROVE ClaimInv'
    OBVIOUS
  <1>1. CASE AskAccelerometer
    BY <1>1 DEF ClaimInv, AskAccelerometer, Fail, Told
  <1>2. CASE ClaimAccelerometer
    BY <1>2 DEF ClaimInv, ClaimAccelerometer, Fail, Told
  <1>3. CASE GetOrientation
    BY <1>3 DEF ClaimInv, GetOrientation, Fail, Taken, apply, Told
  <1>4. CASE Dispatch
    <2>1. /\ inbox' \in Seq(Messages) /\ Head(inbox) \in Messages
          /\ Told /\ Head(inbox) # "gone" => Told'
      BY <1>4, ToldTail DEF ClaimInv, Dispatch
    <2>2. CASE Head(inbox) = "gone"
      BY <1>4, <2>1, <2>2, MapAssumption
      DEF ClaimInv, Dispatch, OwnerGone, Orientations
    <2>3. CASE Head(inbox) # "gone"
      BY <1>4, <2>1, <2>3 DEF ClaimInv, Dispatch, claim
    <2>4. QED BY <2>2, <2>3
  <1>5. CASE retry \/ resync
    BY <1>5 DEF ClaimInv, retry, resync, claim, Told
  <1>6. CASE commit \/ output_name \/ Rotate
    BY <1>6 DEF ClaimInv, commit, output_name, Rotate, KScreenFails, Told
  <1>7. CASE Restart
    <2>1. inbox' \in Seq(Messages)
      BY <1>7 DEF Restart, Messages
    <2>2. QED BY <1>7, <2>1 DEF ClaimInv, Restart, claim
  <1>8. QED BY <1>1, <1>2, <1>3, <1>4, <1>5, <1>6, <1>7 DEF Daemon

\* A daemon that dies forgets its claim.
LEMMA DeadClaim ==
    ASSUME ClaimInv, Dead, UNCHANGED <<tilt, proxy, orient>>
    PROVE  ClaimInv'
  BY DEF ClaimInv, Dead

LEMMA ClaimStep == ClaimInv /\ [Next]_vars => ClaimInv'
  <1> SUFFICES ASSUME ClaimInv, [Next]_vars PROVE ClaimInv'
    OBVIOUS
  <1>1. CASE Daemon
    BY <1>1, ClaimDaemon
  <1>2. CASE Tray
    <2>1. CASE Lock \/ Unlock \/ TrayKilled
      BY <2>1 DEF ClaimInv, Lock, Unlock, TrayKilled, Told
    <2>2. CASE Signal
      BY <2>2, DeadClaim DEF ClaimInv, Signal, Told
    <2>3. QED BY <1>2, <2>1, <2>2 DEF Tray
  <1>3. CASE Environment
    <2>1. CASE \E o \in Orientations : Turn(o)
      BY <2>1 DEF ClaimInv, Turn, Told
    <2>2. CASE ProxyDown
      <3>1. "gone" \in Messages
        BY DEF Messages
      <3>2. inbox' \in Seq(Messages) /\ (pc # "down" => Told')
        BY <2>2, <3>1, SentTold DEF ProxyDown
      <3>3. "undefined" \in Orientations
        BY DEF Orientations
      <3>4. QED BY <2>2, <3>2, <3>3 DEF ClaimInv, ProxyDown
    <2>3. CASE ProxyUp
      <3>1. "up" \in Messages
        BY DEF Messages
      <3>2. inbox' \in Seq(Messages) /\ (Told => Told')
        BY <2>3, <3>1, SentTold DEF ProxyUp
      <3>3. QED BY <2>3, <3>2 DEF ClaimInv, ProxyUp
    <2>4. CASE AccelFound
      <3>1. "accel" \in Messages
        BY DEF Messages
      <3>2. inbox' \in Seq(Messages) /\ (Told => Told')
        BY <2>4, <3>1, SentTold DEF AccelFound, ClaimInv, Told
      <3>3. QED BY <2>4, <3>2 DEF ClaimInv, AccelFound
    <2>5. CASE Report
      <3>1. tilt \in Messages
        BY DEF ClaimInv, Messages
      <3>2. inbox' \in Seq(Messages) /\ (Told => Told')
        BY <2>5, <3>1, SentTold DEF Report
      <3>3. QED BY <2>5, <3>2 DEF ClaimInv, Report
    <2>6. CASE Crash
      BY <2>6, DeadClaim DEF Crash
    <2>7. QED BY <1>3, <2>1, <2>2, <2>3, <2>4, <2>5, <2>6 DEF Environment
  <1>4. CASE UNCHANGED vars
    BY <1>4 DEF ClaimInv, vars, Told
  <1>5. QED BY <1>1, <1>2, <1>3, <1>4 DEF Next

\* A daemon with nothing left to read does not believe in a claim it lost with a
\* proxy that restarted, whenever that was (claim, tabs6-autorotate:97-111).
THEOREM ClaimBelieved == Spec => []ClaimIsReal
  <1>1. Init => ClaimInv
    BY DEF Init, ClaimInv, Orientations
  <1>2. ClaimInv => ClaimIsReal
    BY DEF ClaimInv, ClaimIsReal, Told
  <1>3. QED BY <1>1, <1>2, ClaimStep, PTL DEF Spec
-----------------------------------------------------------------------------
(***************************************************************************)
(* A commit looks at the lock once.  One that is under way when the user   *)
(* locks has not rotated yet, and every later one sees the lock.           *)
(***************************************************************************)
LateInv ==
    /\ late \in 0..1
    /\ pc \in {"output", "rotate"} /\ lock => late = 0

LEMMA LateStep == LateInv /\ [Next]_vars => LateInv'
  <1> SUFFICES ASSUME LateInv, [Next]_vars PROVE LateInv'
    OBVIOUS
  <1>1. CASE Daemon
    <2>1. CASE AskAccelerometer \/ ClaimAccelerometer \/ GetOrientation
      BY <2>1
      DEF LateInv, AskAccelerometer, ClaimAccelerometer, GetOrientation, Fail
    <2>2. CASE Dispatch \/ retry \/ resync \/ Restart
      BY <2>2 DEF LateInv, Dispatch, retry, resync, Restart, claim
    <2>3. CASE commit
      BY <2>3 DEF LateInv, commit, MayRotate
    <2>4. CASE output_name
      BY <2>4 DEF LateInv, output_name, KScreenFails
    <2>5. CASE Rotate
      BY <2>5 DEF LateInv, Rotate, KScreenFails
    <2>6. QED BY <1>1, <2>1, <2>2, <2>3, <2>4, <2>5 DEF Daemon
  <1>2. CASE Tray
    BY <1>2 DEF LateInv, Tray, Lock, Unlock, Signal, TrayKilled, Dead
  <1>3. CASE Environment
    BY <1>3
    DEF LateInv, Environment, Turn, ProxyDown, ProxyUp, AccelFound, Report, Crash, Dead
  <1>4. CASE UNCHANGED vars
    BY <1>4 DEF LateInv, vars
  <1>5. QED BY <1>1, <1>2, <1>3, <1>4 DEF Next

\* After a lock at most one rotation is still made, however often the user locks
\* and unlocks and whatever fails (commit, tabs6-autorotate:137-155).
THEOREM LockHolds == Spec => []OneLateRotation
  <1>1. Init => LateInv
    BY DEF Init, LateInv
  <1>2. LateInv => OneLateRotation
    BY DEF LateInv, OneLateRotation
  <1>3. QED BY <1>1, <1>2, LateStep, PTL DEF Spec
-----------------------------------------------------------------------------
(***************************************************************************)
(* What the daemon knows of the orientation, and what it has done about    *)
(* it.  The last turn in its inbox is what the proxy reports now.  With no *)
(* turn to read, a claim that is complete has made that orientation the    *)
(* pending one; and then, unless something is still under way, refused by  *)
(* the lock, or lost, the screen shows it.                                 *)
(***************************************************************************)

LastTurn(s, i) == s[i] \in DOMAIN Map /\ \A j \in (i + 1)..Len(s) : s[j] \notin DOMAIN Map
NoTurn(s) == \A i \in 1..Len(s) : s[i] \notin DOMAIN Map
Settled == pc = "loop" /\ ~usr1 /\ ~timer /\ tray = "idle" /\ ~lock /\ ~lost

TurnsInOrder ==
    orient \in DOMAIN Map => \A i \in 1..Len(inbox) : LastTurn(inbox, i) => inbox[i] = orient

RestInv ==
    /\ current # None => current = screen
    /\ pc = "down" => inbox = <<>>
    /\ TurnsInOrder
    /\ claimed /\ pc # "get" /\ orient \in DOMAIN Map /\ NoTurn(inbox) =>
          /\ pending = Map[orient]
          /\ Settled => screen = Map[orient]

\* A message that is no turn changes nothing of this; a turn is the last one.
LEMMA MessageTurns ==
    ASSUME inbox \in Seq(Messages), NEW m \in Messages, inbox' = Append(inbox, m)
    PROVE  /\ NoTurn(inbox') => NoTurn(inbox) /\ m \notin DOMAIN Map
           /\ \A i \in 1..Len(inbox') : LastTurn(inbox', i) =>
                 \/ inbox'[i] = m /\ m \in DOMAIN Map
                 \/ m \notin DOMAIN Map /\ i \in 1..Len(inbox)
                    /\ LastTurn(inbox, i) /\ inbox'[i] = inbox[i]
  <1>1. /\ Len(inbox) \in Nat /\ Len(inbox') = Len(inbox) + 1
        /\ inbox'[Len(inbox) + 1] = m
        /\ \A i \in 1..Len(inbox) : inbox'[i] = inbox[i]
    BY AppendProperties
  <1>2. NoTurn(inbox') => NoTurn(inbox) /\ m \notin DOMAIN Map
    BY <1>1 DEF NoTurn
  <1>3. ASSUME NEW i \in 1..Len(inbox'), LastTurn(inbox', i), i # Len(inbox) + 1
        PROVE  m \notin DOMAIN Map /\ i \in 1..Len(inbox)
               /\ LastTurn(inbox, i) /\ inbox'[i] = inbox[i]
    <2>1. i \in 1..Len(inbox) /\ Len(inbox) + 1 \in (i + 1)..Len(inbox')
      BY <1>1, <1>3
    <2>2. \A j \in (i + 1)..Len(inbox) : j \in (i + 1)..Len(inbox') /\ inbox'[j] = inbox[j]
      BY <1>1, <2>1
    <2>3. QED BY <1>1, <1>3, <2>1, <2>2 DEF LastTurn
  <1>4. QED BY <1>1, <1>2, <1>3 DEF LastTurn

\* Taking the first message: it was the last turn if none is left.
LEMMA DispatchTurns ==
    ASSUME inbox \in Seq(Messages), inbox # <<>>, inbox' = Tail(inbox)
    PROVE  /\ NoTurn(inbox') =>
                 \/ NoTurn(inbox) /\ Head(inbox) \notin DOMAIN Map
                 \/ LastTurn(inbox, 1) /\ 1 \in 1..Len(inbox) /\ inbox[1] = Head(inbox)
           /\ \A i \in 1..Len(inbox') : LastTurn(inbox', i) =>
                 i + 1 \in 1..Len(inbox) /\ LastTurn(inbox, i + 1) /\ inbox'[i] = inbox[i + 1]
  <1>1. /\ Len(inbox) \in Nat \ {0} /\ Head(inbox) = inbox[1]
        /\ Len(inbox') = Len(inbox) - 1
        /\ \A i \in 1..Len(inbox') : inbox'[i] = inbox[i + 1]
    BY EmptySeq, HeadTailProperties
  <1>2. ASSUME NEW j \in 2..Len(inbox)
        PROVE  j - 1 \in 1..Len(inbox') /\ inbox'[j - 1] = inbox[j]
    <2>1. j - 1 \in 1..Len(inbox') /\ (j - 1) + 1 = j
      BY <1>1
    <2>2. QED BY <1>1, <2>1
  <1>3. ASSUME NEW i \in 1..Len(inbox'), LastTurn(inbox', i)
        PROVE  i + 1 \in 1..Len(inbox) /\ LastTurn(inbox, i + 1) /\ inbox'[i] = inbox[i + 1]
    <2>1. i + 1 \in 1..Len(inbox)
      BY <1>1
    <2>2. ASSUME NEW j \in (i + 1 + 1)..Len(inbox) PROVE inbox[j] \notin DOMAIN Map
      <3>1. j \in 2..Len(inbox) /\ j - 1 \in (i + 1)..Len(inbox')
        BY <1>1
      <3>2. QED BY <1>2, <1>3, <3>1 DEF LastTurn
    <2>3. QED BY <1>1, <1>3, <2>1, <2>2 DEF LastTurn
  <1>4. ASSUME NoTurn(inbox')
        PROVE  \/ NoTurn(inbox) /\ Head(inbox) \notin DOMAIN Map
               \/ LastTurn(inbox, 1) /\ 1 \in 1..Len(inbox) /\ inbox[1] = Head(inbox)
    <2>1. \A j \in 2..Len(inbox) : inbox[j] \notin DOMAIN Map
      BY <1>2, <1>4 DEF NoTurn
    <2>2. \A j \in 1..Len(inbox) : j = 1 \/ j \in 2..Len(inbox)
      BY <1>1
    <2>3. 1 + 1 = 2 /\ 1 \in 1..Len(inbox)
      BY <1>1
    <2>4. QED BY <1>1, <2>1, <2>2, <2>3 DEF NoTurn, LastTurn
  <1>5. QED BY <1>3, <1>4

\* A step that leaves the inbox and the proxy's orientation alone.
LEMMA RestQuiet ==
    ASSUME RestInv, UNCHANGED <<orient, inbox, current, screen, pending>>,
           pc' = "down" => pc = "down", claimed' /\ pc' # "get" => claimed /\ pc # "get",
           claimed' /\ pc' # "get" /\ Settled' => Settled
    PROVE  RestInv'
  BY DEF RestInv, TurnsInOrder, LastTurn, NoTurn

\* A daemon that believes in no claim, or has yet to get the orientation.
LEMMA RestUnclaimed ==
    ASSUME RestInv, ~(claimed' /\ pc' # "get"), UNCHANGED <<orient, inbox, screen>>,
           current' \in {current, None}, pc' = "down" => pc = "down"
    PROVE  RestInv'
  BY DEF RestInv, TurnsInOrder, LastTurn

LEMMA RestDead ==
    ASSUME RestInv, Dead, UNCHANGED <<orient, screen>>
    PROVE  RestInv'
  <1>1. inbox' = <<>> /\ Len(inbox') = 0 /\ ~claimed' /\ current' = None
    BY DEF Dead
  <1>2. QED BY <1>1 DEF RestInv, TurnsInOrder

\* Anything the proxy sends but a turn.
LEMMA RestSent ==
    ASSUME ClaimInv, RestInv, NEW m \in Messages \ DOMAIN Map, Sent(m),
           orient' \in {orient, "undefined"}, claimed' = claimed, current' = current,
           UNCHANGED <<pc, screen, pending, usr1, timer, tray, lock, lost>>
    PROVE  RestInv'
  <1>1. "undefined" \notin DOMAIN Map
    BY MapAssumption
  <1>2. CASE inbox' = inbox
    BY <1>1, <1>2 DEF RestInv, TurnsInOrder, LastTurn, NoTurn, Settled
  <1>3. CASE inbox' = Append(inbox, m)
    <2>1. /\ NoTurn(inbox') => NoTurn(inbox)
          /\ \A i \in 1..Len(inbox') : LastTurn(inbox', i) =>
                i \in 1..Len(inbox) /\ LastTurn(inbox, i) /\ inbox'[i] = inbox[i]
      BY <1>3, MessageTurns DEF ClaimInv
    <2>2. TurnsInOrder'
      BY <1>1, <2>1 DEF RestInv, TurnsInOrder
    <2>3. QED BY <1>1, <2>1, <2>2 DEF RestInv, Settled, Sent
  <1>4. QED BY <1>2, <1>3 DEF Sent

LEMMA RestDaemon ==
    ASSUME ClaimInv, RestInv, Daemon
    PROVE  RestInv'
  <1>0. inbox \in Seq(Messages) /\ (pc = "get" => claimed) /\ (pc = "down" => ~claimed)
    BY DEF ClaimInv
  <1>1. CASE AskAccelerometer
    <2>1. UNCHANGED <<orient, inbox, screen, current, pending>> /\ pc' # "down"
      BY <1>1 DEF AskAccelerometer, Fail
    <2>2. CASE pc' = "claim" /\ UNCHANGED claimed
      BY <1>1, <2>1, <2>2, RestQuiet DEF AskAccelerometer, Settled
    <2>3. CASE ~claimed'
      BY <2>1, <2>3, RestUnclaimed
    <2>4. QED BY <1>1, <2>2, <2>3 DEF AskAccelerometer, Fail
  <1>2. CASE ClaimAccelerometer
    BY <1>2, RestUnclaimed DEF ClaimAccelerometer, Fail
  <1>3. CASE GetOrientation
    <2>1. UNCHANGED <<orient, inbox, screen, current>> /\ pc' = "loop"
      BY <1>3 DEF GetOrientation, Fail
    <2>2. CASE ~claimed'
      BY <2>1, <2>2, RestUnclaimed
    <2>3. CASE Taken
      <3>1. orient \in DOMAIN Map => pending' = Map[orient] /\ timer'
        BY <2>3 DEF Taken, apply
      <3>2. QED BY <2>1, <3>1 DEF RestInv, TurnsInOrder, LastTurn, NoTurn, Settled
    <2>4. QED BY <1>3, <2>2, <2>3 DEF GetOrientation, Fail
  <1>4. CASE Dispatch
    <2>1. /\ inbox # <<>> /\ inbox' = Tail(inbox) /\ pc = "loop"
          /\ UNCHANGED <<orient, screen, current, usr1, tray, lock, lost>>
      BY <1>4 DEF Dispatch
    <2>2. /\ NoTurn(inbox') =>
                \/ NoTurn(inbox) /\ Head(inbox) \notin DOMAIN Map
                \/ LastTurn(inbox, 1) /\ 1 \in 1..Len(inbox) /\ inbox[1] = Head(inbox)
          /\ \A i \in 1..Len(inbox') : LastTurn(inbox', i) =>
                i + 1 \in 1..Len(inbox) /\ LastTurn(inbox, i + 1) /\ inbox'[i] = inbox[i + 1]
      BY <1>0, <2>1, DispatchTurns
    <2>3. TurnsInOrder'
      BY <2>1, <2>2 DEF RestInv, TurnsInOrder
    <2>4. CASE Head(inbox) \in DOMAIN Map
      <3>1. pending' = Map[Head(inbox)] /\ timer' /\ UNCHANGED <<pc, claimed>>
        BY <1>4, <2>4, MapAssumption DEF Dispatch, apply, Orientations
      <3>2. orient \in DOMAIN Map /\ NoTurn(inbox') => Head(inbox) = orient
        BY <2>2, <2>4 DEF RestInv, TurnsInOrder
      <3>3. QED BY <2>1, <2>3, <3>1, <3>2 DEF RestInv, Settled
    <2>5. CASE Head(inbox) \notin DOMAIN Map
      <3>1. /\ UNCHANGED <<pending, timer>>
            /\ claimed' => claimed
            /\ pc' = pc \/ pc' = "ask"
        BY <1>4, <2>5 DEF Dispatch, apply, claim, OwnerGone
      <3>2. NoTurn(inbox') => NoTurn(inbox)
        BY <2>1, <2>2, <2>5 DEF LastTurn
      <3>3. Settled' => Settled
        BY <2>1, <3>1 DEF Settled
      <3>4. QED BY <2>1, <2>3, <3>1, <3>2, <3>3 DEF RestInv
    <2>6. QED BY <2>4, <2>5
  <1>5. CASE retry \/ resync
    BY <1>5, RestQuiet DEF retry, resync, claim, Settled
  <1>6. CASE commit
    <2>1. /\ UNCHANGED <<orient, inbox, claimed, current, pending, screen>>
          /\ UNCHANGED <<usr1, tray, lock, lost>> /\ pc = "loop"
          /\ pc' = IF pending # current /\ ~lock THEN "output" ELSE "loop"
      BY <1>6 DEF commit, MayRotate
    <2>2. ASSUME claimed, orient \in DOMAIN Map, NoTurn(inbox), Settled'
          PROVE  screen = Map[orient]
      <3>1. pending = Map[orient] /\ pending = current
        BY <2>1, <2>2 DEF RestInv, Settled
      <3>2. Map[orient] # None
        BY <2>2, MapAssumption
      <3>3. QED BY <3>1, <3>2 DEF RestInv
    <2>3. QED BY <2>1, <2>2 DEF RestInv, TurnsInOrder, LastTurn, NoTurn
  <1>7. CASE output_name
    BY <1>7, RestQuiet DEF output_name, KScreenFails, Settled
  <1>8. CASE Rotate
    <2>1. /\ pc = "rotate" /\ pc' = "loop" /\ UNCHANGED <<orient, inbox, claimed, pending>>
          /\ \/ screen' = pending /\ current' = pending
             \/ UNCHANGED <<screen, current>> /\ lost'
      BY <1>8 DEF Rotate, KScreenFails
    <2>2. QED BY <2>1 DEF RestInv, TurnsInOrder, LastTurn, NoTurn, Settled
  <1>9. CASE Restart
    <2>1. /\ ~claimed /\ UNCHANGED <<orient, screen, current, claimed>> /\ pc' = "ask"
          /\ inbox' = <<IF proxy THEN "up" ELSE "gone">>
      BY <1>0, <1>9 DEF Restart, claim
    <2>2. TurnsInOrder'
      <3>1. Len(inbox') = 1 /\ inbox'[1] \in {"up", "gone"} /\ 1..1 = {1}
        BY <2>1
      <3>2. QED BY <3>1, MapAssumption DEF TurnsInOrder, LastTurn
    <2>3. QED BY <2>1, <2>2 DEF RestInv
  <1>10. QED
    BY <1>1, <1>2, <1>3, <1>4, <1>5, <1>6, <1>7, <1>8, <1>9 DEF Daemon

LEMMA RestStep == ClaimInv /\ RestInv /\ [Next]_vars => RestInv'
  <1> SUFFICES ASSUME ClaimInv, RestInv, [Next]_vars PROVE RestInv'
    OBVIOUS
  <1>0. {"up", "gone", "accel"} \subseteq Messages \ DOMAIN Map
    BY MapAssumption DEF Messages
  <1>1. CASE Daemon
    BY <1>1, RestDaemon
  <1>2. CASE Lock \/ Unlock \/ TrayKilled
    BY <1>2, RestQuiet DEF Lock, Unlock, TrayKilled, Settled
  <1>3. CASE Signal
    <2>1. CASE Dead /\ UNCHANGED <<orient, screen>>
      BY <2>1, RestDead
    <2>2. CASE pc = "down" /\ UNCHANGED <<orient, inbox, screen, pc, claimed, rot>>
      BY <2>2, RestUnclaimed DEF ClaimInv
    <2>3. CASE usr1' /\ UNCHANGED <<orient, inbox, screen, pc, claimed, rot>>
      BY <2>3, RestQuiet DEF Settled
    <2>4. QED BY <1>3, <2>1, <2>2, <2>3 DEF Signal
  <1>4. CASE \E o \in Orientations : Turn(o)
    BY <1>4, RestQuiet DEF Turn, Settled
  <1>5. CASE ProxyDown
    BY <1>0, <1>5, RestSent DEF ProxyDown
  <1>6. CASE ProxyUp
    BY <1>0, <1>6, RestSent DEF ProxyUp
  <1>7. CASE AccelFound
    <2>1. CASE Sent("accel")
      BY <1>0, <1>7, <2>1, RestSent DEF AccelFound
    <2>2. CASE UNCHANGED inbox
      BY <1>7, <2>2, RestQuiet DEF AccelFound, Settled
    <2>3. QED BY <1>7, <2>1, <2>2 DEF AccelFound
  <1>8. CASE Report
    <2>1. /\ orient' = tilt /\ tilt \in Messages /\ inbox \in Seq(Messages)
          /\ Sent(tilt) /\ UNCHANGED <<pc, claimed, current, screen>>
      BY <1>8 DEF Report, ClaimInv, Messages
    <2>2. CASE pc = "down"
      <3>1. inbox' = inbox /\ ~claimed
        BY <2>1, <2>2 DEF Sent, ClaimInv
      <3>2. inbox' = <<>> /\ Len(<<>>) = 0
        BY <2>2, <3>1 DEF RestInv
      <3>3. QED BY <2>1, <2>2, <3>1, <3>2 DEF RestInv, TurnsInOrder
    <2>3. CASE pc # "down"
      <3>1. inbox' = Append(inbox, tilt)
        BY <2>1, <2>3 DEF Sent
      <3>2. /\ NoTurn(inbox') => tilt \notin DOMAIN Map
            /\ \A i \in 1..Len(inbox') : LastTurn(inbox', i) /\ tilt \in DOMAIN Map
                  => inbox'[i] = tilt
        BY <2>1, <3>1, MessageTurns
      <3>3. QED BY <2>1, <2>3, <3>2 DEF RestInv, TurnsInOrder
    <2>4. QED BY <2>2, <2>3
  <1>9. CASE Crash
    BY <1>9, RestDead DEF Crash
  <1>10. CASE UNCHANGED vars
    BY <1>10, RestQuiet DEF vars, Settled
  <1>11. QED
    BY <1>1, <1>2, <1>3, <1>4, <1>5, <1>6, <1>7, <1>8, <1>9, <1>10
    DEF Next, Tray, Environment

\* At rest, with a claim, the screen is as the proxy says the tablet is held: over
\* every restart of the proxy and of the daemon, lock and unlock, and lost message,
\* unless the last rotation failed or the tray died before its signal.
THEOREM RestIsRight == Spec => []RestsRight
  <1>1. Init => ClaimInv /\ RestInv
    <2> SUFFICES ASSUME Init PROVE ClaimInv /\ RestInv
      OBVIOUS
    <2>1. Len(<<>>) = 0
      OBVIOUS
    <2>2. QED
      BY <2>1, MapAssumption DEF Init, ClaimInv, RestInv, TurnsInOrder, Orientations
  <1>2. ClaimInv /\ RestInv => RestsRight
    BY DEF ClaimInv, RestInv, RestsRight, AtRest, Settled, NoTurn
  <1>3. QED BY <1>1, <1>2, ClaimStep, RestStep, PTL DEF Spec
-----------------------------------------------------------------------------
(***************************************************************************)
(* Type correctness.  What kscreen-doctor is asked for is a rotation: a    *)
(* timer only ever runs for one, and a commit keeps it to its end.         *)
(***************************************************************************)

RotationInv ==
    /\ current \in Rotations \cup {None} /\ pending \in Rotations \cup {None}
    /\ screen \in Rotations /\ timer \in BOOLEAN
    /\ timer \/ pc \in {"output", "rotate"} => pending \in Rotations

LEMMA RotationStep == RotationInv /\ [Next]_vars => RotationInv'
  <1> SUFFICES ASSUME RotationInv, [Next]_vars PROVE RotationInv'
    OBVIOUS
  <1>1. CASE UNCHANGED <<rot, screen>> /\ (pc' \in {pc, "rotate", "loop", "ask", "claim"})
               /\ (pc' = "rotate" => pc \in {"output", "rotate"})
    BY <1>1 DEF RotationInv
  <1>2. ASSUME NEW o, apply(o), UNCHANGED <<current, screen>>, pc' \notin {"output", "rotate"}
        PROVE  RotationInv'
    <2>1. CASE o \in DOMAIN Map
      <3>1. timer' \in BOOLEAN
        BY <1>2, <2>1, Zenon DEF apply
      <3>2. pending' \in Rotations
        BY <1>2, <2>1 DEF apply, Rotations
      <3>3. QED BY <1>2, <3>1, <3>2 DEF RotationInv
    <2>2. CASE o \notin DOMAIN Map
      BY <1>2, <2>2 DEF apply, RotationInv
    <2>3. QED BY <2>1, <2>2
  <1>3. CASE Dead /\ UNCHANGED screen
    <2>1. timer' \in BOOLEAN /\ ~timer'
      BY <1>3, Zenon DEF Dead
    <2>2. QED BY <1>3, <2>1 DEF RotationInv, Dead
  <1>4. CASE AskAccelerometer \/ retry \/ resync \/ output_name \/ Restart
    BY <1>1, <1>4
    DEF AskAccelerometer, retry, resync, output_name, Restart, claim, Fail, KScreenFails
  <1>5. CASE ClaimAccelerometer
    BY <1>5 DEF ClaimAccelerometer, Fail, RotationInv
  <1>6. CASE GetOrientation
    BY <1>1, <1>2, <1>6 DEF GetOrientation, Taken, Fail
  <1>7. CASE Dispatch
    <2>1. pc = "loop" /\ UNCHANGED <<current, screen>>
      BY <1>7 DEF Dispatch
    <2>2. CASE Head(inbox) \in Orientations /\ apply(Head(inbox)) /\ UNCHANGED pc
      BY <1>2, <2>1, <2>2
    <2>3. CASE UNCHANGED <<pending, timer>> /\ pc' \in {pc, "ask"}
      BY <1>1, <2>1, <2>3
    <2>4. QED BY <1>7, <2>2, <2>3 DEF Dispatch, claim
  <1>8. CASE commit
    <2>1. timer' \in BOOLEAN /\ timer /\ ~timer'
      BY <1>8, Zenon DEF commit
    <2>2. QED BY <1>8, <2>1 DEF commit, RotationInv
  <1>9. CASE Rotate
    BY <1>9 DEF Rotate, KScreenFails, RotationInv
  <1>10. CASE Signal \/ Crash
    BY <1>1, <1>3, <1>10 DEF Signal, Crash
  <1>11. CASE \/ Lock \/ Unlock \/ TrayKilled \/ UNCHANGED vars
              \/ \E o \in Orientations : Turn(o)
    BY <1>1, <1>11 DEF Lock, Unlock, TrayKilled, vars, Turn
  <1>12. CASE ProxyDown \/ ProxyUp \/ AccelFound \/ Report
    BY <1>1, <1>12 DEF ProxyDown, ProxyUp, AccelFound, Report
  <1>13. QED
    BY <1>4, <1>5, <1>6, <1>7, <1>8, <1>9, <1>10, <1>11, <1>12
    DEF Next, Daemon, Tray, Environment

FlagType ==
    /\ accel \in BOOLEAN /\ granted \in BOOLEAN /\ bound \in BOOLEAN /\ claimed \in BOOLEAN
    /\ handling \in BOOLEAN /\ usr1 \in BOOLEAN /\ lock \in BOOLEAN /\ lost \in BOOLEAN
    /\ tray \in {"idle", "signal"}

LEMMA FlagStep == ClaimInv /\ FlagType /\ [Next]_vars => FlagType'
  <1> SUFFICES ASSUME ClaimInv, FlagType, [Next]_vars PROVE FlagType'
    OBVIOUS
  <1> USE DEF FlagType
  <1>0. proxy \in BOOLEAN
    BY DEF ClaimInv
  <1>1. CASE AskAccelerometer \/ ClaimAccelerometer \/ GetOrientation
    BY <1>1, Zenon DEF AskAccelerometer, ClaimAccelerometer, GetOrientation, Fail
  <1>2. CASE Dispatch
    BY <1>0, <1>2, Zenon DEF Dispatch, claim, OwnerGone
  <1>3. CASE retry \/ resync \/ Restart
    BY <1>0, <1>3, Zenon DEF retry, resync, Restart, claim
  <1>4. CASE commit \/ output_name \/ Rotate
    BY <1>4, Zenon DEF commit, output_name, Rotate, KScreenFails
  <1>5. CASE Lock \/ Unlock \/ TrayKilled
    BY <1>5, Zenon DEF Lock, Unlock, TrayKilled
  <1>6. CASE Signal \/ Crash
    BY <1>6, Zenon DEF Signal, Crash, Dead
  <1>7. CASE ProxyDown \/ ProxyUp
    BY <1>7, Zenon DEF ProxyDown, ProxyUp
  <1>8. CASE AccelFound \/ Report
    BY <1>8, Zenon DEF AccelFound, Report
  <1>9. ASSUME NEW o \in Orientations, Turn(o) PROVE FlagType'
    BY <1>9, Zenon DEF Turn
  <1>10. CASE UNCHANGED vars
    BY <1>10, Zenon DEF vars
  <1>11. QED
    BY <1>1, <1>2, <1>3, <1>4, <1>5, <1>6, <1>7, <1>8, <1>9, <1>10
    DEF Next, Daemon, Tray, Environment

\* Every variable keeps its type: in particular kscreen-doctor is never asked for
\* None, whatever dies between an orientation and the commit of its rotation.
THEOREM TypeCorrect == Spec => []TypeOK
  <1>1. ASSUME Init PROVE ClaimInv /\ LateInv /\ RotationInv /\ FlagType
    <2>1. ClaimInv /\ LateInv
      BY <1>1 DEF Init, ClaimInv, LateInv, Orientations
    <2>2. timer \in BOOLEAN /\ ~timer /\ pc = "down" /\ screen \in Rotations
          /\ current = None /\ pending = None
      BY <1>1, Zenon DEF Init
    <2>3. RotationInv
      BY <2>2 DEF RotationInv
    <2>4. FlagType
      <3>1. tray = "idle"
        BY <1>1 DEF Init
      <3>2. QED BY <1>1, <3>1, Zenon DEF Init, FlagType
    <2>5. QED BY <2>1, <2>3, <2>4
  <1>2. ClaimInv /\ LateInv /\ RotationInv /\ FlagType => TypeOK
    <2> SUFFICES ASSUME ClaimInv, LateInv, RotationInv, FlagType PROVE TypeOK
      OBVIOUS
    <2>1. late \in 0..2
      BY DEF LateInv
    <2>2. QED BY <2>1, Zenon DEF ClaimInv, RotationInv, FlagType, TypeOK
  <1>3. QED
    BY <1>1, <1>2, ClaimStep, LateStep, RotationStep, FlagStep, PTL DEF Spec
=============================================================================
