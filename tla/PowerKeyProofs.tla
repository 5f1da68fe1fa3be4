--------------------------- MODULE PowerKeyProofs ---------------------------
(***************************************************************************)
(* Proofs about PowerKey, for every value of its constants.  The type      *)
(* invariant and three safety invariants need no assumption on the order   *)
(* in which KWin, kscreen-doctor and the daemon run.  The last three       *)
(* theorems each name the environment hazard they exclude: a panel lit     *)
(* before the press is read, DPMS answers out of order, a dying device.    *)
(***************************************************************************)
EXTENDS PowerKey, TLAPS, SequenceTheorems

USE DEF input, desktop, loop, stamp, keys, history

(***************************************************************************)
(* Facts about the helpers.                                                *)
(***************************************************************************)

LEMMA AtMostBounds ==
    ASSUME NEW n \in Nat, NEW cap \in Nat
    PROVE  AtMost(n, cap) \in 0..cap /\ AtMost(n, cap) <= n
  BY DEF AtMost

\* Restamping keeps ages and guard in range, a key up or down, and only ages.
LEMMA StampFacts ==
    ASSUME TypeOK, StampNow
    PROVE  /\ elapsed' = 0
           /\ guard' \in 0..(MAX_LAG + WAKE_GUARD)
           /\ guard > elapsed => guard' = guard - elapsed
           /\ down' \in [Keys -> {None} \cup (0..LONG_PRESS)]
           /\ \A k \in Keys : down'[k] = None <=> down[k] = None
           /\ \A k \in Keys : down[k] # None => down'[k] >= down[k]
           /\ \A k \in Keys : (down[k] # None /\ down[k] + elapsed >= LONG_PRESS)
                                => down'[k] = LONG_PRESS
  <1>1. elapsed \in Nat /\ elapsed <= MAX_LAG /\ guard \in 0..(MAX_LAG + WAKE_GUARD)
        /\ LONG_PRESS \in Nat /\ WAKE_GUARD \in Nat /\ MAX_LAG \in Nat
    BY TimingAssumption DEF TypeOK
  <1>2. elapsed' = 0 /\ guard' = IF guard > elapsed THEN guard - elapsed ELSE 0
    BY DEF StampNow, GuardLeft
  <1>3. ASSUME NEW k \in Keys
        PROVE  /\ down'[k] \in {None} \cup (0..LONG_PRESS)
               /\ down'[k] = None <=> down[k] = None
               /\ down[k] # None => down'[k] >= down[k]
               /\ (down[k] # None /\ down[k] + elapsed >= LONG_PRESS)
                    => down'[k] = LONG_PRESS
    <2>1. down[k] \in {None} \cup (0..LONG_PRESS)
      BY DEF TypeOK
    <2>2. down'[k] = IF down[k] = None THEN None
                    ELSE IF down[k] + elapsed > LONG_PRESS THEN LONG_PRESS
                    ELSE down[k] + elapsed
      BY DEF StampNow, Aged, AtMost
    <2>3. QED BY <1>1, <2>1, <2>2 DEF None
  <1>4. down' \in [Keys -> {None} \cup (0..LONG_PRESS)]
    BY <1>3 DEF StampNow
  <1>5. guard' \in 0..(MAX_LAG + WAKE_GUARD)
    BY <1>1, <1>2
  <1>6. QED BY <1>1, <1>2, <1>3, <1>4, <1>5

LEMMA LetGoFacts ==
    ASSUME TypeOK, NEW code \in Keys, LetGo(code)
    PROVE  /\ down' \in [Keys -> {None} \cup (0..LONG_PRESS)]
           /\ down'[code] = None
           /\ \A k \in Keys \ {code} : down'[k] = down[k]
           /\ combo_fired' \in BOOLEAN /\ long_fired' \in BOOLEAN
           /\ combo_fired' => combo_fired
           /\ long_fired' => long_fired
           /\ \A k \in Keys : down'[k] # None =>
                 combo_fired' = combo_fired /\ long_fired' = long_fired
  <1>1. /\ down' = [down EXCEPT ![code] = None]
        /\ combo_fired' = (combo_fired /\ ~(\A k \in Keys : down'[k] = None))
        /\ long_fired' = (long_fired /\ ~(\A k \in Keys : down'[k] = None))
    BY DEF LetGo
  <1>2. QED BY <1>1 DEF TypeOK

-----------------------------------------------------------------------------
(***************************************************************************)
(* Type correctness.                                                       *)
(***************************************************************************)

LEMMA NoEvents == [k \in Keys |-> <<>>] \in [Keys -> Seq(Event)]
  <1>1. <<>> \in Seq(Event)
    BY EmptySeq
  <1>2. QED BY <1>1

LEMMA InitType == Init => TypeOK
  <1> SUFFICES ASSUME Init PROVE TypeOK
    OBVIOUS
  <1>1. queue \in [Keys -> Seq(Event)] /\ batch \in Seq(Event)
    BY NoEvents, EmptySeq DEF Init
  <1>2. jobs \in Seq({"on", "off"})
    BY EmptySeq DEF Init
  <1>3. devices \subseteq Keys /\ ready \subseteq Keys /\ gone \subseteq Keys
    BY DEF Init, Keys
  <1>4. /\ elapsed \in 0..MAX_LAG /\ guard \in 0..(MAX_LAG + WAKE_GUARD)
        /\ acts \in Nat /\ since_wake \in 0..WAKE_GUARD
        /\ down \in [Keys -> {None} \cup (0..LONG_PRESS)]
    BY TimingAssumption DEF Init
  <1>5. QED BY <1>1, <1>2, <1>3, <1>4 DEF Init, TypeOK, Sights

\* The event a finger adds to a buffer is an event.
LEMMA DeliverType ==
    ASSUME TypeOK, NEW k \in Keys, NEW v \in {0, 1}, Deliver(k, v)
    PROVE  queue' \in [Keys -> Seq(Event)]
  <1> DEFINE e == [code |-> k, value |-> v,
                   sight |-> IF v = 1 THEN Sight ELSE "changing"]
  <1>1. e \in Event
    BY DEF Event, Sights, Sight
  <1>2. Append(queue[k], e) \in Seq(Event)
    BY <1>1, AppendProperties DEF TypeOK
  <1>3. queue' = queue \/ queue' = [queue EXCEPT ![k] = Append(queue[k], e)]
    BY DEF Deliver
  <1>4. QED BY <1>2, <1>3 DEF TypeOK

LEMMA EnvironmentType == TypeOK /\ Environment => TypeOK'
  <1> SUFFICES ASSUME TypeOK, Environment PROVE TypeOK'
    OBVIOUS
  <1>1. ASSUME NEW k \in Keys, Press(k) PROVE TypeOK'
    BY <1>1, DeliverType DEF TypeOK, Press
  <1>2. ASSUME NEW k \in Keys, Release(k) PROVE TypeOK'
    BY <1>2, DeliverType DEF TypeOK, Release
  <1>3. ASSUME NEW k \in Keys, Unplug(k) PROVE TypeOK'
    BY <1>3 DEF TypeOK, Unplug
  <1>4. CASE KWinWake
    BY <1>4 DEF TypeOK, KWinWake
  <1>5. CASE IdleBlank
    BY <1>5 DEF TypeOK, IdleBlank
  <1>6. CASE Tick
    <2>1. since_wake + 1 \in Nat /\ WAKE_GUARD \in Nat
      BY TimingAssumption DEF TypeOK
    <2>2. since_wake' \in 0..WAKE_GUARD
      BY <1>6, <2>1, AtMostBounds DEF Tick
    <2>3. elapsed' \in 0..MAX_LAG
      BY <1>6, TimingAssumption DEF TypeOK, Tick
    <2>4. QED BY <1>6, <2>2, <2>3 DEF TypeOK, Tick
  <1>7. ASSUME NEW i \in 1..Len(jobs), DpmsDone(i) PROVE TypeOK'
    <2>1. jobs \in Seq({"on", "off"}) /\ Len(jobs) \in Nat
      BY DEF TypeOK
    <2>2. SubSeq(jobs, 1, i - 1) \in Seq({"on", "off"})
      BY <2>1, SubSeqProperties
    <2>3. SubSeq(jobs, i + 1, Len(jobs)) \in Seq({"on", "off"})
      BY <2>1, SubSeqProperties
    <2>4. jobs' \in Seq({"on", "off"})
      BY <1>7, <2>2, <2>3, ConcatProperties DEF DpmsDone
    <2>5. QED BY <1>7, <2>4 DEF TypeOK, DpmsDone
  <1>8. QED
    BY <1>1, <1>2, <1>3, <1>4, <1>5, <1>6, <1>7 DEF Environment

\* The wake half adds at most one process.
LEMMA WakeType ==
    ASSUME TypeOK, NEW asleep \in BOOLEAN, WakeIf(asleep)
    PROVE  /\ soft_sleep' \in BOOLEAN /\ jobs' \in Seq({"on", "off"})
           /\ soft_sleep' = (soft_sleep /\ ~asleep)
  <1>1. CASE asleep
    <2>1. soft_sleep' = FALSE /\ jobs' \in {jobs, Append(jobs, "on")}
      BY <1>1 DEF WakeIf, set_dpms
    <2>2. jobs \in Seq({"on", "off"}) /\ soft_sleep \in BOOLEAN
      BY DEF TypeOK
    <2>3. Append(jobs, "on") \in Seq({"on", "off"})
      BY <2>2, AppendProperties
    <2>4. QED BY <1>1, <2>1, <2>2, <2>3
  <1>2. CASE ~asleep
    BY <1>2 DEF TypeOK, WakeIf
  <1>3. QED BY <1>1, <1>2

\* Taking an event off the batch leaves a batch.
LEMMA NextEventType ==
    ASSUME TypeOK, NEW code \in Keys, NEW value, NextEvent(code, value)
    PROVE  batch' \in Seq(Event) /\ Head(batch).sight \in Sights /\ pc = "events"
  <1>1. batch \in Seq(Event) /\ batch # <<>> /\ batch' = Tail(batch)
    BY DEF TypeOK, NextEvent
  <1>2. Head(batch) \in Event /\ Tail(batch) \in Seq(Event)
    BY <1>1, HeadTailProperties
  <1>3. QED BY <1>1, <1>2 DEF Event, NextEvent

LEMMA DaemonType == TypeOK /\ Daemon => TypeOK'
  <1> SUFFICES ASSUME TypeOK, Daemon PROVE TypeOK'
    OBVIOUS
  <1> USE DEF None
  <1>1. CASE Restart
    <2>1. batch' \in Seq(Event)
      BY <1>1, EmptySeq DEF Restart, Fresh
    <2>2. devices' \subseteq Keys /\ ready' \subseteq Keys /\ gone' \subseteq Keys
      BY <1>1 DEF Restart, Fresh, Keys
    <2>3. /\ elapsed' \in 0..MAX_LAG /\ guard' \in 0..(MAX_LAG + WAKE_GUARD)
          /\ since_wake' \in 0..WAKE_GUARD
          /\ down' \in [Keys -> {None} \cup (0..LONG_PRESS)]
      BY <1>1, TimingAssumption DEF Restart, Fresh
    <2>4. acts' \in Nat
      BY <1>1 DEF TypeOK, Restart
    <2>5. QED
      BY <1>1, <2>1, <2>2, <2>3, <2>4 DEF TypeOK, Restart, Fresh, Sights
  <1>2. CASE SelectReady
    BY <1>2, StampFacts, TimingAssumption DEF TypeOK, SelectReady, Readable
  <1>3. CASE SelectTimeout
    BY <1>3, StampFacts, TimingAssumption DEF TypeOK, SelectTimeout
  <1>4. CASE LongPress
    <2>1. /\ soft_sleep' \in BOOLEAN /\ jobs' \in Seq({"on", "off"})
      BY <1>4, WakeType DEF TypeOK, LongPress
    <2>2. QED
      BY <1>4, <2>1, StampFacts, TimingAssumption DEF TypeOK, LongPress
  <1>5. CASE MenuPrompt
    BY <1>5 DEF TypeOK, MenuPrompt
  <1>6. CASE LoopBack
    BY <1>6 DEF TypeOK, LoopBack
  <1>7. CASE ShortPressWake
    <2>1. batch' \in Seq(Event)
      BY <1>7, NextEventType DEF ShortPressWake, Keys
    <2>2. /\ soft_sleep' \in BOOLEAN /\ jobs' \in Seq({"on", "off"})
      BY <1>7, WakeType DEF ShortPressWake
    <2>3. guard' \in 0..(MAX_LAG + WAKE_GUARD) /\ since_wake' \in 0..WAKE_GUARD
      BY <1>7, TimingAssumption DEF TypeOK, ShortPressWake, GuardUntil
    <2>4. /\ down' \in [Keys -> {None} \cup (0..LONG_PRESS)]
          /\ combo_fired' \in BOOLEAN /\ long_fired' \in BOOLEAN
      BY <1>7, LetGoFacts DEF ShortPressWake, Keys
    <2>5. QED BY <1>7, <2>1, <2>2, <2>3, <2>4 DEF TypeOK, ShortPressWake
  <1>8. CASE ShortPressLock
    <2>1. batch' \in Seq(Event)
      BY <1>8, NextEventType DEF ShortPressLock, Keys
    <2>2. /\ down' \in [Keys -> {None} \cup (0..LONG_PRESS)]
          /\ combo_fired' \in BOOLEAN /\ long_fired' \in BOOLEAN
      BY <1>8, LetGoFacts DEF ShortPressLock, Keys
    <2>3. QED BY <1>8, <2>1, <2>2 DEF TypeOK, ShortPressLock
  <1>9. CASE LockBlank
    <2>1. jobs' \in Seq({"on", "off"})
      BY <1>9, AppendProperties DEF TypeOK, LockBlank, set_dpms
    <2>2. QED BY <1>9, <2>1 DEF TypeOK, LockBlank
  <1>10. ASSUME NEW k \in Keys, ReadKey(k) PROVE TypeOK'
    <2> DEFINE n == AtMost(Len(queue[k]), READ_EVENTS)
    <2>1. queue[k] \in Seq(Event) /\ Len(queue[k]) \in Nat
      BY DEF TypeOK
    <2>2. n \in 0..Len(queue[k])
      BY <2>1, TimingAssumption DEF AtMost
    <2> HIDE DEF n
    <2>3. SubSeq(queue[k], 1, n) \in Seq(Event)
      BY <2>1, <2>2, SubSeqProperties
    <2>4. SubSeq(queue[k], n + 1, Len(queue[k])) \in Seq(Event)
      BY <2>1, <2>2, SubSeqProperties
    <2>5. /\ batch' = SubSeq(queue[k], 1, n)
          /\ queue' = [queue EXCEPT ![k] = SubSeq(queue[k], n + 1, Len(queue[k]))]
      BY <1>10 DEF ReadKey, n
    <2>6. batch' \in Seq(Event) /\ queue' \in [Keys -> Seq(Event)]
      BY <2>3, <2>4, <2>5 DEF TypeOK
    <2>7. QED BY <1>10, <2>6 DEF TypeOK, ReadKey
  <1>11. ASSUME NEW k \in Keys, ReadError(k) PROVE TypeOK'
    <2>1. queue' \in [Keys -> Seq(Event)]
      BY <1>11, NoEvents DEF TypeOK, ReadError
    <2>2. QED BY <1>11, <2>1 DEF TypeOK, ReadError, Remaining
  <1>12. ASSUME NEW k \in Keys, KeyDown(k) PROVE TypeOK'
    <2>1. batch' \in Seq(Event) /\ Head(batch).sight \in Sights
      BY <1>12, NextEventType DEF KeyDown
    <2>2. Sampled(k) \in BOOLEAN
      BY DEF TypeOK, Sampled, is_asleep
    <2>3. /\ soft_sleep' \in BOOLEAN /\ jobs' \in Seq({"on", "off"})
          /\ combo_fired' \in BOOLEAN /\ long_fired' \in BOOLEAN
      BY <1>12, <2>2, WakeType DEF TypeOK, KeyDown
    <2>4. down' \in [Keys -> {None} \cup (0..LONG_PRESS)]
      BY <1>12, TimingAssumption DEF TypeOK, KeyDown
    <2>5. acts' \in Nat
      BY <1>12 DEF TypeOK, KeyDown
    <2>6. QED
      BY <1>12, <2>1, <2>2, <2>3, <2>4, <2>5 DEF TypeOK, KeyDown
  <1>13. ASSUME NEW k \in Keys, KeyUp(k) PROVE TypeOK'
    <2>1. batch' \in Seq(Event)
      BY <1>13, NextEventType DEF KeyUp
    <2>2. /\ down' \in [Keys -> {None} \cup (0..LONG_PRESS)]
          /\ combo_fired' \in BOOLEAN /\ long_fired' \in BOOLEAN
      BY <1>13, LetGoFacts DEF KeyUp
    <2>3. QED BY <1>13, <2>1, <2>2 DEF TypeOK, KeyUp
  <1>14. QED
    BY <1>1, <1>2, <1>3, <1>4, <1>5, <1>6, <1>7, <1>8, <1>9, <1>10, <1>11,
       <1>12, <1>13 DEF Daemon

LEMMA NextType == TypeOK /\ [Next]_vars => TypeOK'
  <1>1. TypeOK /\ UNCHANGED vars => TypeOK'
    BY DEF TypeOK, vars
  <1>2. QED BY <1>1, EnvironmentType, DaemonType DEF Next

\* Every variable keeps its type: the daemon's loop state, the ages of the two
\* presses and the wake guard, for all timings, queues and hazards.
THEOREM TypeCorrect == Spec => []TypeOK
  BY InitType, NextType, PTL DEF Spec
-----------------------------------------------------------------------------
(***************************************************************************)
(* One action per hold, and no stale belief that the screen is off.  The   *)
(* strengthening says why: an action of this hold has set long_fired, and  *)
(* without a chord only a hold of LONG_PRESS sets it, by which time the    *)
(* chord window is over; and while the key is down, the sample taken at    *)
(* its press covers soft_sleep.                                            *)
(***************************************************************************)

HoldInv ==
    /\ acts \in 0..1
    /\ down[POWER] # None /\ acts = 1 => long_fired
    /\ down[POWER] # None /\ long_fired /\ ~combo_fired
          => down[POWER] = LONG_PRESS

SleepInv ==
    /\ ActionClearsSleep
    /\ down[POWER] # None /\ ~asleep_at_press => ~soft_sleep
    /\ pc = "lock" => down[POWER] = None /\ ~combo_fired /\ ~long_fired

LEMMA HoldStep == TypeOK /\ HoldInv /\ [Next]_vars => HoldInv'
  <1> SUFFICES ASSUME TypeOK, HoldInv, [Next]_vars PROVE HoldInv'
    OBVIOUS
  <1> USE DEF None, Keys
  <1>0. /\ LONG_PRESS \in Nat /\ COMBO_WINDOW \in Nat /\ COMBO_WINDOW < LONG_PRESS
        /\ down[POWER] \in {None} \cup (0..LONG_PRESS) /\ acts \in 0..1
    BY TimingAssumption DEF TypeOK, HoldInv
  <1>1. CASE UNCHANGED <<down, combo_fired, long_fired, acts>>
    BY <1>1 DEF HoldInv
  <1>2. CASE Restart
    BY <1>2 DEF HoldInv, Restart, Fresh
  <1>3. CASE SelectReady \/ SelectTimeout
    <2>1. /\ UNCHANGED <<combo_fired, long_fired, acts>> /\ StampNow
      BY <1>3 DEF SelectReady, SelectTimeout
    <2>2. /\ down'[POWER] = None <=> down[POWER] = None
          /\ down[POWER] # None => down'[POWER] >= down[POWER]
          /\ down'[POWER] \in {None} \cup (0..LONG_PRESS)
      BY <2>1, StampFacts
    <2>3. QED BY <1>0, <2>1, <2>2 DEF HoldInv
  <1>4. CASE LongPress
    <2>1. Armed /\ long_fired' = TRUE /\ acts' = acts + 1
      BY <1>4 DEF LongPress
    <2>2. acts = 0
      BY <1>0, <2>1 DEF HoldInv, Armed
    <2>3. down'[POWER] = LONG_PRESS
      BY <1>4, StampFacts DEF LongPress, Armed
    <2>4. QED BY <2>1, <2>2, <2>3 DEF HoldInv
  <1>5. CASE ShortPressWake \/ ShortPressLock
    <2>1. IsShort /\ LetGo(POWER) /\ acts' = acts + 1
      BY <1>5 DEF ShortPressWake, ShortPressLock
    <2>2. acts = 0
      BY <1>0, <2>1 DEF HoldInv, IsShort
    <2>3. down'[POWER] = None
      BY <2>1, LetGoFacts
    <2>4. QED BY <2>1, <2>2, <2>3 DEF HoldInv
  <1>6. ASSUME NEW k \in Keys, KeyUp(k) PROVE HoldInv'
    <2>1. LetGo(k) /\ acts' = acts
      BY <1>6 DEF KeyUp
    <2>2. CASE k = POWER
      BY <2>1, <2>2, LetGoFacts DEF HoldInv
    <2>3. CASE k # POWER
      <3>1. /\ down'[POWER] = down[POWER]
            /\ down'[POWER] # None =>
                  combo_fired' = combo_fired /\ long_fired' = long_fired
        BY <2>1, <2>3, LetGoFacts
      <3>2. QED BY <2>1, <3>1 DEF HoldInv
    <2>4. QED BY <2>2, <2>3
  <1>7. KeyDown(POWER) => HoldInv'
    <2>1. SUFFICES ASSUME KeyDown(POWER) PROVE HoldInv'
      OBVIOUS
    <2>2. down'[POWER] = 0
      BY <2>1 DEF KeyDown, TypeOK
    <2>3. CASE IsChord(POWER)
      <3>1. acts' = 1 /\ combo_fired' = TRUE /\ long_fired' = TRUE
        BY <2>1, <2>3 DEF KeyDown
      <3>2. QED BY <3>1 DEF HoldInv
    <2>4. CASE ~IsChord(POWER)
      <3>1. acts' = 0
        BY <2>1, <2>4 DEF KeyDown
      <3>2. long_fired' = (long_fired /\ POWER # POWER)
        BY <2>1, <2>4, Zenon DEF KeyDown
      <3>3. ~long_fired'
        BY <3>2, Zenon
      <3>4. acts' \in 0..1 /\ acts' # 1
        BY <3>1
      <3>5. QED BY <3>3, <3>4, Zenon DEF HoldInv
    <2>5. QED BY <2>3, <2>4
  <1>8. KeyDown(VOLDOWN) => HoldInv'
    <2>1. SUFFICES ASSUME KeyDown(VOLDOWN) PROVE HoldInv'
      OBVIOUS
    <2>2. down'[POWER] = down[POWER] /\ POWER # VOLDOWN
      BY <2>1 DEF KeyDown, TypeOK, POWER, VOLDOWN
    <2>3. CASE IsChord(VOLDOWN)
      <3>1. down[POWER] # None /\ ~combo_fired /\ down[POWER] <= COMBO_WINDOW
        BY <2>3 DEF IsChord, Other, POWER, VOLDOWN
      <3>2. ~long_fired /\ acts = 0
        BY <1>0, <3>1 DEF HoldInv
      <3>3. acts' = 1 /\ combo_fired' = TRUE /\ long_fired' = TRUE
        BY <2>1, <2>2, <2>3, <3>2 DEF KeyDown
      <3>4. QED BY <3>3 DEF HoldInv
    <2>4. CASE ~IsChord(VOLDOWN)
      <3>1. acts' = acts /\ combo_fired' = combo_fired /\ long_fired' = long_fired
        BY <1>0, <2>1, <2>2, <2>4 DEF KeyDown, TypeOK
      <3>2. QED BY <2>2, <3>1 DEF HoldInv
    <2>5. QED BY <2>3, <2>4
  <1>9. CASE Environment
    BY <1>1, <1>9 DEF Environment, Press, Release, Unplug, KWinWake, IdleBlank,
                      Tick, DpmsDone
  <1>10. CASE MenuPrompt \/ LoopBack \/ LockBlank
    BY <1>1, <1>10 DEF MenuPrompt, LoopBack, LockBlank
  <1>11. ASSUME NEW k \in Keys, ReadKey(k) \/ ReadError(k) PROVE HoldInv'
    BY <1>1, <1>11 DEF ReadKey, ReadError
  <1>12. CASE UNCHANGED vars
    BY <1>1, <1>12 DEF vars
  <1>13. QED
    BY <1>2, <1>3, <1>4, <1>5, <1>6, <1>7, <1>8, <1>9, <1>10, <1>11, <1>12
    DEF Next, Daemon

\* Whatever the keys do, however late the daemon is and whichever device it
\* reads first, one hold of the power key is answered by at most one of lock,
\* wake, menu and screenshot (combo_fired and long_fired in main).
THEOREM OneAction == Spec => []OneActionPerHold
  <1>1. Init => HoldInv
    BY DEF Init, HoldInv, None, Keys
  <1>2. TypeOK /\ HoldInv => OneActionPerHold
    BY DEF TypeOK, HoldInv, OneActionPerHold
  <1>3. QED BY <1>1, <1>2, HoldStep, TypeCorrect, PTL DEF Spec
-----------------------------------------------------------------------------
LEMMA SleepStep == TypeOK /\ SleepInv /\ [Next]_vars => SleepInv'
  <1> SUFFICES ASSUME TypeOK, SleepInv, [Next]_vars PROVE SleepInv'
    OBVIOUS
  <1> USE DEF Keys, SleepInv, ActionClearsSleep
  <1>0. /\ combo_fired \in BOOLEAN /\ long_fired \in BOOLEAN
        /\ asleep_at_press \in BOOLEAN /\ soft_sleep \in BOOLEAN
    BY DEF TypeOK
  <1>1. CASE UNCHANGED <<down, combo_fired, long_fired, asleep_at_press, soft_sleep, pc>>
    BY <1>1
  <1>2. CASE Restart
    BY <1>2 DEF Restart, Fresh
  <1>3. CASE SelectReady \/ SelectTimeout
    <2>1. /\ UNCHANGED <<combo_fired, long_fired, asleep_at_press, soft_sleep>>
          /\ StampNow /\ pc' # "lock"
      BY <1>3 DEF SelectReady, SelectTimeout
    <2>2. down'[POWER] = None <=> down[POWER] = None
      BY <2>1, StampFacts
    <2>3. QED BY <2>1, <2>2
  <1>4. CASE LongPress
    <2>1. /\ down[POWER] # None /\ WakeIf(asleep_at_press)
          /\ asleep_at_press' = asleep_at_press /\ pc' # "lock"
      BY <1>4 DEF LongPress, Armed
    <2>2. soft_sleep' = (soft_sleep /\ ~asleep_at_press)
      BY <1>0, <2>1, WakeType
    <2>3. QED BY <1>0, <2>1, <2>2
  <1>5. CASE ShortPressWake
    <2>1. WakeIf(TRUE) /\ LetGo(POWER) /\ pc' = pc /\ pc = "events"
      BY <1>5 DEF ShortPressWake, NextEvent
    <2>2. soft_sleep' = FALSE
      BY <1>0, <2>1, WakeType
    <2>3. QED BY <2>1, <2>2
  <1>6. CASE ShortPressLock
    <2>1. /\ IsShort /\ LetGo(POWER) /\ UNCHANGED <<soft_sleep, asleep_at_press>>
      BY <1>6 DEF ShortPressLock
    <2>2. down'[POWER] = None /\ ~combo_fired' /\ ~long_fired'
      BY <2>1, LetGoFacts DEF IsShort
    <2>3. QED BY <2>1, <2>2
  <1>7. CASE LockBlank
    <2>1. down'[POWER] = None /\ ~combo_fired' /\ ~long_fired' /\ pc' = "events"
      BY <1>7 DEF LockBlank
    <2>2. QED BY <2>1
  <1>8. ASSUME NEW k \in Keys, KeyUp(k) PROVE SleepInv'
    <2>1. /\ LetGo(k) /\ UNCHANGED <<soft_sleep, asleep_at_press>> /\ pc' # "lock"
      BY <1>8 DEF KeyUp, NextEvent
    <2>2. /\ combo_fired' => combo_fired
          /\ long_fired' => long_fired
          /\ down'[POWER] # None => down[POWER] # None
      BY <2>1, LetGoFacts
    <2>3. QED BY <2>1, <2>2
  <1>9. ASSUME NEW k \in Keys, KeyDown(k) PROVE SleepInv'
    <2>1. /\ asleep_at_press' = Sampled(k) /\ Sampled(k) \in BOOLEAN
          /\ k # POWER => down'[POWER] = down[POWER]
          /\ pc' # "lock"
      BY <1>9 DEF KeyDown, NextEvent, TypeOK, Sampled, is_asleep
    <2>2. k = POWER /\ ~Sampled(k) => ~soft_sleep
      BY DEF Sampled, is_asleep
    <2>3. CASE IsChord(k)
      <3>1. soft_sleep' = (soft_sleep /\ ~Sampled(k))
        BY <1>9, <2>1, <2>3, WakeType DEF KeyDown
      <3>2. k # POWER => down[POWER] # None /\ Sampled(k) = asleep_at_press
        BY <2>3 DEF IsChord, Other, Sampled, VOLDOWN
      <3>3. ~soft_sleep'
        BY <1>0, <2>1, <2>2, <3>1, <3>2
      <3>4. QED BY <2>1, <3>3
    <2>4. CASE ~IsChord(k)
      <3>1. /\ UNCHANGED <<soft_sleep, combo_fired>>
            /\ long_fired' => long_fired
        BY <1>0, <1>9, <2>4 DEF KeyDown
      <3>2. k # POWER => Sampled(k) = asleep_at_press
        BY DEF Sampled
      <3>3. QED BY <2>1, <2>2, <3>1, <3>2
    <2>5. QED BY <2>3, <2>4
  <1>10. CASE Environment
    BY <1>1, <1>10 DEF Environment, Press, Release, Unplug, KWinWake, IdleBlank,
                       Tick, DpmsDone
  <1>11. CASE MenuPrompt \/ LoopBack
    BY <1>11 DEF MenuPrompt, LoopBack
  <1>12. ASSUME NEW k \in Keys, ReadKey(k) \/ ReadError(k) PROVE SleepInv'
    BY <1>12 DEF ReadKey, ReadError
  <1>13. CASE UNCHANGED vars
    BY <1>1, <1>13 DEF vars
  <1>14. QED
    BY <1>2, <1>3, <1>4, <1>5, <1>6, <1>7, <1>8, <1>9, <1>10, <1>11, <1>12, <1>13
    DEF Next, Daemon

\* A chord or a menu is never followed by a stale soft_sleep: the sample taken
\* at the press is enough to know that the flag must be cleared (do_screenshot
\* and do_long_press clear it only if was_asleep).
THEOREM SleepCleared == Spec => []ActionClearsSleep
  <1>1. Init => SleepInv
    BY DEF Init, SleepInv, ActionClearsSleep, Keys
  <1>2. SleepInv => ActionClearsSleep
    BY DEF SleepInv
  <1>3. QED BY <1>1, <1>2, SleepStep, TypeCorrect, PTL DEF Spec
-----------------------------------------------------------------------------
(***************************************************************************)
(* The wake guard.  While the guard has not run out in real time, what the *)
(* daemon would compute from its stale stamp has not run out either.       *)
(***************************************************************************)

GuardInv ==
    /\ since_wake < WAKE_GUARD => guard >= elapsed + (WAKE_GUARD - since_wake)
    /\ GuardedLock

LEMMA GuardStep == TypeOK /\ GuardInv /\ [Next]_vars => GuardInv'
  <1> SUFFICES ASSUME TypeOK, GuardInv, [Next]_vars PROVE GuardInv'
    OBVIOUS
  <1> USE DEF GuardInv, GuardedLock
  <1>0. /\ WAKE_GUARD \in Nat /\ MAX_LAG \in Nat /\ since_wake \in 0..WAKE_GUARD
        /\ elapsed \in 0..MAX_LAG /\ guard \in 0..(MAX_LAG + WAKE_GUARD)
    BY TimingAssumption DEF TypeOK
  <1>1. CASE UNCHANGED <<guard, elapsed, since_wake>> /\ (pc' = "lock" => pc = "lock")
    BY <1>1
  <1>2. CASE Restart
    BY <1>0, <1>2 DEF Restart, Fresh
  <1>3. CASE SelectReady \/ SelectTimeout \/ LongPress
    <2>1. StampNow /\ since_wake' = since_wake /\ pc' # "lock"
      BY <1>3 DEF SelectReady, SelectTimeout, LongPress
    <2>2. elapsed' = 0 /\ (guard > elapsed => guard' = guard - elapsed)
      BY <2>1, StampFacts
    <2>3. QED BY <1>0, <2>1, <2>2
  <1>4. CASE ShortPressWake
    BY <1>0, <1>4 DEF ShortPressWake, GuardUntil, NextEvent
  <1>5. CASE ShortPressLock
    <2>1. guard = 0 /\ UNCHANGED <<guard, elapsed, since_wake>>
      BY <1>5 DEF ShortPressLock
    <2>2. since_wake = WAKE_GUARD
      BY <1>0, <2>1
    <2>3. QED BY <2>1, <2>2
  <1>6. CASE Tick
    <2>1. /\ elapsed' = elapsed + 1 /\ guard' = guard /\ pc' = pc
          /\ since_wake' = IF since_wake + 1 > WAKE_GUARD THEN WAKE_GUARD
                           ELSE since_wake + 1
      BY <1>6 DEF Tick, AtMost
    <2>2. QED BY <1>0, <2>1
  <1>7. CASE Environment /\ ~Tick
    BY <1>1, <1>7 DEF Environment, Press, Release, Unplug, KWinWake, IdleBlank,
                      DpmsDone
  <1>8. CASE MenuPrompt \/ LoopBack \/ LockBlank
    BY <1>1, <1>8 DEF MenuPrompt, LoopBack, LockBlank
  <1>9. ASSUME NEW k \in Keys, ReadKey(k) \/ ReadError(k) \/ KeyDown(k) \/ KeyUp(k)
        PROVE GuardInv'
    BY <1>1, <1>9 DEF ReadKey, ReadError, KeyDown, KeyUp
  <1>10. CASE UNCHANGED vars
    BY <1>1, <1>10 DEF vars
  <1>11. QED
    BY <1>2, <1>3, <1>4, <1>5, <1>6, <1>7, <1>8, <1>9, <1>10 DEF Next, Daemon

\* No short press locks the tablet before WAKE_GUARD has really passed since the
\* press that woke it, although the daemon compares a stale `now` (main 430).
THEOREM GuardHolds == Spec => []GuardedLock
  <1>1. Init => GuardInv
    BY TimingAssumption DEF Init, GuardInv, GuardedLock
  <1>2. GuardInv => GuardedLock
    BY DEF GuardInv
  <1>3. QED BY <1>1, <1>2, GuardStep, TypeCorrect, PTL DEF Spec
-----------------------------------------------------------------------------
(***************************************************************************)
(* What a press on a dark panel leads to.  As long as nothing lights the   *)
(* panel before the daemon has read that press, the panel is still dark    *)
(* when the daemon samples it, and a sample of a dark panel never locks.   *)
(***************************************************************************)

SawDark(events) == \E i \in 1..Len(events) : events[i].sight = "dark"

DarkInv ==
    /\ panel => ~SawDark(batch) /\ \A k \in Keys : ~SawDark(queue[k])
    /\ found = "dark" => asleep_at_press
    /\ pc = "lock" => ~asleep_at_press

\* Events that are taken off a buffer, added to it or dropped.
LEMMA TailFacts ==
    ASSUME NEW s \in Seq(Event), s # <<>>
    PROVE  /\ Head(s) = s[1] /\ Head(s) \in Event /\ Len(s) \in Nat \ {0}
           /\ Tail(s) \in Seq(Event) /\ Len(Tail(s)) = Len(s) - 1
           /\ \A i \in 1..Len(Tail(s)) : i + 1 \in 1..Len(s) /\ Tail(s)[i] = s[i + 1]
           /\ Tail(s) = <<>> => Len(s) = 1
           /\ Tail(s) # <<>> => Tail(s)[Len(Tail(s))] = s[Len(s)]
  <1>1. Len(s) \in Nat /\ Len(s) # 0
    BY EmptySeq
  <1>2. /\ Tail(s) \in Seq(Event) /\ Len(Tail(s)) = Len(s) - 1
        /\ \A i \in 1..Len(Tail(s)) : Tail(s)[i] = s[i + 1]
    BY HeadTailProperties
  <1>3. Tail(s) = <<>> <=> Len(Tail(s)) = 0
    BY <1>2, EmptySeq
  <1>4. Head(s) = s[1] /\ Head(s) \in Event
    BY <1>1, HeadTailProperties
  <1>5. QED BY <1>1, <1>2, <1>3, <1>4

LEMMA DeliverFacts ==
    ASSUME TypeOK, NEW k \in Keys, NEW v \in {0, 1}, Deliver(k, v)
    PROVE  /\ \A j \in Keys \ {k} : queue'[j] = queue[j]
           /\ k \notin devices \ gone => queue' = queue
           /\ k \in devices \ gone => LET e == queue'[k][Len(queue[k]) + 1]
                 IN /\ Len(queue'[k]) = Len(queue[k]) + 1 /\ queue'[k] # <<>>
                    /\ \A i \in 1..Len(queue[k]) : queue'[k][i] = queue[k][i]
                    /\ e.code = k /\ e.value = v
                    /\ e.sight = "dark" => Sight = "dark"
  <1> DEFINE e == [code |-> k, value |-> v,
                   sight |-> IF v = 1 THEN Sight ELSE "changing"]
  <1>1. queue \in [Keys -> Seq(Event)] /\ e \in Event
    BY DEF TypeOK, Event, Sights, Sight
  <1>2. CASE k \in devices \ gone
    <2>1. queue' = [queue EXCEPT ![k] = Append(queue[k], e)]
      BY <1>2 DEF Deliver
    <2>2. queue'[k] = Append(queue[k], e) /\ \A j \in Keys \ {k} : queue'[j] = queue[j]
      BY <1>1, <2>1
    <2>3. /\ Append(queue[k], e) # <<>> /\ Len(Append(queue[k], e)) = Len(queue[k]) + 1
          /\ \A i \in 1..Len(queue[k]) : Append(queue[k], e)[i] = queue[k][i]
          /\ Append(queue[k], e)[Len(queue[k]) + 1] = e
      BY <1>1, AppendProperties
    <2>4. e.code = k /\ e.value = v /\ (e.sight = "dark" => Sight = "dark")
      OBVIOUS
    <2> HIDE DEF e
    <2>5. QED BY <1>2, <2>2, <2>3, <2>4
  <1>3. CASE k \notin devices \ gone
    BY <1>3 DEF Deliver
  <1>4. QED BY <1>2, <1>3

\* What a read takes from the front of a buffer, and what it leaves.
LEMMA ReadFacts ==
    ASSUME TypeOK, NEW k \in Keys, ReadKey(k)
    PROVE  \E n \in 0..Len(queue[k]) :
              /\ Len(queue[k]) \in Nat /\ (n = 0 => queue[k] = <<>>)
              /\ batch' \in Seq(Event) /\ Len(batch') = n
              /\ \A i \in 1..n : batch'[i] = queue[k][i]
              /\ queue'[k] \in Seq(Event) /\ Len(queue'[k]) = Len(queue[k]) - n
              /\ \A i \in 1..(Len(queue[k]) - n) : queue'[k][i] = queue[k][n + i]
              /\ \A j \in Keys \ {k} : queue'[j] = queue[j]
  <1> DEFINE n == AtMost(Len(queue[k]), READ_EVENTS)
  <1>1. queue \in [Keys -> Seq(Event)] /\ queue[k] \in Seq(Event)
        /\ Len(queue[k]) \in Nat /\ (Len(queue[k]) = 0 => queue[k] = <<>>)
    BY EmptySeq DEF TypeOK
  <1>2. n \in 0..Len(queue[k]) /\ (n = 0 => queue[k] = <<>>)
    BY <1>1, TimingAssumption DEF AtMost
  <1>3. /\ batch' = SubSeq(queue[k], 1, n)
        /\ queue' = [queue EXCEPT ![k] = SubSeq(queue[k], n + 1, Len(queue[k]))]
    BY DEF ReadKey
  <1> HIDE DEF n
  <1>4. \A i \in 1..Len(queue[k]) : queue[k][i] \in Event
    BY <1>1, ElementOfSeq
  <1>5. /\ SubSeq(queue[k], 1, n) \in Seq(Event) /\ Len(SubSeq(queue[k], 1, n)) = n
        /\ \A i \in 1..n : SubSeq(queue[k], 1, n)[i] = queue[k][i]
    BY <1>1, <1>2, <1>4, SubSeqProperties
  <1>6. /\ SubSeq(queue[k], n + 1, Len(queue[k])) \in Seq(Event)
        /\ Len(SubSeq(queue[k], n + 1, Len(queue[k]))) = Len(queue[k]) - n
        /\ \A i \in 1..(Len(queue[k]) - n) :
              SubSeq(queue[k], n + 1, Len(queue[k]))[i] = queue[k][n + i]
    <2> DEFINE m == n + 1
               rest == SubSeq(queue[k], m, Len(queue[k]))
    <2>1. m \in Int /\ \A i \in m..Len(queue[k]) : queue[k][i] \in Event
      BY <1>1, <1>2, <1>4
    <2>2. /\ rest \in Seq(Event)
          /\ Len(rest) = IF m <= Len(queue[k]) THEN Len(queue[k]) - m + 1 ELSE 0
          /\ \A i \in 1..(Len(queue[k]) - m + 1) : rest[i] = queue[k][m + i - 1]
      BY <1>1, <2>1, SubSeqProperties
    <2> HIDE DEF rest
    <2>3. Len(rest) = Len(queue[k]) - n
      BY <1>1, <1>2, <2>2
    <2>4. \A i \in 1..(Len(queue[k]) - n) : rest[i] = queue[k][n + i]
      <3> SUFFICES ASSUME NEW i \in 1..(Len(queue[k]) - n) PROVE rest[i] = queue[k][n + i]
        OBVIOUS
      <3>1. m + i - 1 = n + i /\ i \in 1..(Len(queue[k]) - m + 1)
        BY <1>1, <1>2
      <3>2. QED BY <2>2, <3>1
    <2>5. QED BY <2>2, <2>3, <2>4 DEF rest
  <1>7. /\ queue'[k] = SubSeq(queue[k], n + 1, Len(queue[k]))
        /\ \A j \in Keys \ {k} : queue'[j] = queue[j]
    BY <1>1, <1>3
  <1>8. QED BY <1>1, <1>2, <1>3, <1>5, <1>6, <1>7

\* A step that adds nothing to the buffers and does not light the panel.
LEMMA DarkQuiet ==
    ASSUME DarkInv, panel' => panel, UNCHANGED <<queue, found, asleep_at_press>>,
           batch' = batch, pc' = "lock" => pc = "lock"
    PROVE  DarkInv'
  BY DEF DarkInv, SawDark

LEMMA NotDark ==
    /\ ~SawDark(<<>>)
    /\ \A s \in Seq(Event) : s # <<>> /\ ~SawDark(s) =>
            ~SawDark(Tail(s)) /\ Head(s).sight # "dark"
  <1>1. ~SawDark(<<>>)
    BY EmptySeq DEF SawDark
  <1>2. ASSUME NEW s \in Seq(Event), s # <<>>, ~SawDark(s)
        PROVE ~SawDark(Tail(s)) /\ Head(s).sight # "dark"
    BY <1>2, TailFacts DEF SawDark
  <1>3. QED BY <1>1, <1>2

LEMMA DarkStep ==
    ASSUME "panel_race" \notin Hazards, TypeOK, DarkInv, [Next]_vars
    PROVE  DarkInv'
  <1>0. /\ batch \in Seq(Event) /\ \A k \in Keys : queue[k] \in Seq(Event)
        /\ panel \in BOOLEAN
    BY DEF TypeOK
  <1>1. ASSUME NEW k \in Keys, Press(k) PROVE DarkInv'
    <2>1. Deliver(k, 1) /\ UNCHANGED <<panel, batch, found, asleep_at_press, pc>>
      BY <1>1 DEF Press
    <2>2. Sight = "dark" => ~panel
      BY DEF Sight
    <2>3. panel => ~SawDark(queue'[k])
      <3> SUFFICES ASSUME panel, NEW i \in 1..Len(queue'[k]) PROVE queue'[k][i].sight # "dark"
        BY DEF SawDark
      <3>1. \A j \in 1..Len(queue[k]) : queue[k][j].sight # "dark"
        BY DEF DarkInv, SawDark
      <3>2. Len(queue[k]) \in Nat
        BY <1>0
      <3>3. QED BY <2>1, <2>2, <3>1, <3>2, DeliverFacts
    <2>4. \A j \in Keys \ {k} : queue'[j] = queue[j]
      BY <2>1, DeliverFacts
    <2>5. QED BY <2>1, <2>3, <2>4 DEF DarkInv, SawDark
  <1>2. ASSUME NEW k \in Keys, Release(k) PROVE DarkInv'
    <2>1. /\ Deliver(k, 0) /\ UNCHANGED <<panel, batch, found, asleep_at_press, pc>>
          /\ queue' = queue \/ queue' = [queue EXCEPT ![k] = Append(queue[k],
                                  [code |-> k, value |-> 0, sight |-> "changing"])]
      BY <1>2 DEF Release, Deliver
    <2>2. panel => ~SawDark(queue'[k])
      <3>1. CASE queue' = queue
        BY <3>1 DEF DarkInv
      <3>2. CASE queue' = [queue EXCEPT ![k] = Append(queue[k],
                                  [code |-> k, value |-> 0, sight |-> "changing"])]
        <4> DEFINE e == [code |-> k, value |-> 0, sight |-> "changing"]
        <4>1. e \in Event /\ queue'[k] = Append(queue[k], e)
          BY <3>2 DEF TypeOK, Event, Sights
        <4>2. /\ Len(Append(queue[k], e)) = Len(queue[k]) + 1
              /\ \A i \in 1..Len(queue[k]) : Append(queue[k], e)[i] = queue[k][i]
              /\ Append(queue[k], e)[Len(queue[k]) + 1] = e
          BY <1>0, <4>1, AppendProperties
        <4>3. e.sight # "dark" /\ Len(queue[k]) \in Nat
          BY <1>0
        <4> HIDE DEF e
        <4>4. QED BY <4>1, <4>2, <4>3 DEF DarkInv, SawDark
      <3>3. QED BY <2>1, <3>1, <3>2
    <2>3. \A j \in Keys \ {k} : queue'[j] = queue[j]
      BY <2>1, DeliverFacts
    <2>4. QED BY <2>1, <2>2, <2>3 DEF DarkInv, SawDark
  <1>3. ASSUME NEW k \in Keys, Unplug(k) PROVE DarkInv'
    <2>1. \A j \in Keys : queue'[j] \in {<<>>, queue[j]}
      BY <1>3 DEF Unplug, TypeOK
    <2>2. UNCHANGED <<panel, batch, found, asleep_at_press, pc>>
      BY <1>3 DEF Unplug
    <2>3. QED BY <2>1, <2>2, NotDark DEF DarkInv
  <1>4. CASE KWinWake \/ \E i \in 1..Len(jobs) : DpmsDone(i)
    <2>1. /\ Drained /\ UNCHANGED <<queue, batch, found, asleep_at_press, pc>>
      BY <1>4 DEF KWinWake, DpmsDone
    <2>2. QED BY <2>1, NotDark DEF DarkInv, Drained
  <1>5. CASE IdleBlank \/ Tick \/ SelectReady \/ SelectTimeout \/ LongPress
             \/ MenuPrompt \/ LoopBack
    BY <1>5, DarkQuiet DEF IdleBlank, Tick, SelectReady, SelectTimeout, LongPress,
                           MenuPrompt, LoopBack
  <1>6. CASE Restart
    BY <1>6, NotDark DEF Restart, Fresh, DarkInv
  <1>7. ASSUME NEW k \in Keys, ReadKey(k) PROVE DarkInv'
    <2>1. UNCHANGED <<panel, found, asleep_at_press, pc>>
      BY <1>7 DEF ReadKey
    <2>2. ~SawDark(queue[k]) => ~SawDark(batch') /\ ~SawDark(queue'[k])
      <3>1. PICK n \in 0..Len(queue[k]) :
                /\ Len(queue[k]) \in Nat
                /\ Len(batch') = n /\ Len(queue'[k]) = Len(queue[k]) - n
                /\ \A i \in 1..n : batch'[i] = queue[k][i]
                /\ \A i \in 1..(Len(queue[k]) - n) : queue'[k][i] = queue[k][n + i]
        BY <1>7, ReadFacts
      <3>2. ASSUME ~SawDark(queue[k]), NEW i \in 1..(Len(queue[k]) - n)
            PROVE  queue'[k][i].sight # "dark"
        <4>1. n + i \in 1..Len(queue[k])
          BY <3>1
        <4>2. QED BY <3>1, <3>2, <4>1 DEF SawDark
      <3>3. ASSUME ~SawDark(queue[k]), NEW i \in 1..n
            PROVE  batch'[i].sight # "dark"
        BY <3>1, <3>3 DEF SawDark
      <3>4. QED BY <3>1, <3>2, <3>3 DEF SawDark
    <2>3. \A j \in Keys \ {k} : queue'[j] = queue[j]
      BY <1>7, ReadFacts
    <2>4. QED BY <2>1, <2>2, <2>3 DEF DarkInv
  <1>8. ASSUME NEW k \in Keys, ReadError(k) PROVE DarkInv'
    <2>1. /\ UNCHANGED <<panel, batch, found, asleep_at_press>>
          /\ pc' = "lock" => pc = "lock"
          /\ \A j \in Keys : queue'[j] \in {<<>>, queue[j]}
      BY <1>8 DEF ReadError
    <2>2. QED BY <2>1, NotDark DEF DarkInv
  <1>9. ASSUME NEW k \in Keys, KeyDown(k) PROVE DarkInv'
    <2>1. /\ batch # <<>> /\ batch' = Tail(batch) /\ UNCHANGED <<panel, queue>>
          /\ pc = "events" /\ pc' = pc
          /\ asleep_at_press' = IF k = POWER THEN soft_sleep \/ ~panel ELSE asleep_at_press
          /\ found' = IF k = POWER THEN Head(batch).sight ELSE found
      BY <1>9 DEF KeyDown, NextEvent, Sampled, is_asleep
    <2>2. panel => ~SawDark(batch') /\ Head(batch).sight # "dark"
      BY <1>0, <2>1, NotDark DEF DarkInv
    <2>3. found' = "dark" => asleep_at_press'
      <3>1. CASE k = POWER
        BY <2>1, <2>2, <3>1
      <3>2. CASE k # POWER
        BY <2>1, <3>2 DEF DarkInv
      <3>3. QED BY <3>1, <3>2
    <2>4. QED BY <2>1, <2>2, <2>3 DEF DarkInv
  <1>10. CASE ShortPressWake \/ ShortPressLock \/ \E k \in Keys : KeyUp(k)
    <2>1. /\ batch # <<>> /\ batch' = Tail(batch)
          /\ UNCHANGED <<panel, queue, found, asleep_at_press>>
          /\ pc' = "lock" => ~asleep_at_press
      BY <1>10 DEF KeyUp, ShortPressWake, ShortPressLock, NextEvent
    <2>2. panel => ~SawDark(batch')
      BY <1>0, <2>1, NotDark DEF DarkInv
    <2>3. QED BY <2>1, <2>2 DEF DarkInv
  <1>11. CASE LockBlank
    BY <1>11, DarkQuiet DEF LockBlank
  <1>12. CASE UNCHANGED vars
    BY <1>12, DarkQuiet DEF vars
  <1>13. QED
    BY <1>1, <1>2, <1>3, <1>4, <1>5, <1>6, <1>7, <1>8, <1>9, <1>10, <1>11, <1>12
    DEF Next, Daemon, Environment

\* If KWin and kscreen-doctor light the panel only after the daemon has handled
\* the press, one that found the panel dark wakes and never locks, however long
\* the event waited and whatever died meanwhile (main 412, do_short_press).
THEOREM DarkWakes ==
    ASSUME "panel_race" \notin Hazards
    PROVE  Spec => []DarkPressNeverLocks
  <1>1. Init => DarkInv
    BY NotDark DEF Init, DarkInv
  <1>2. DarkInv => DarkPressNeverLocks
    BY DEF DarkInv, DarkPressNeverLocks
  <1>3. QED BY <1>1, <1>2, DarkStep, TypeCorrect, PTL DEF Spec
-----------------------------------------------------------------------------
(***************************************************************************)
(* The panel and the flag.  The last process asked for decides what the    *)
(* panel ends as, and it is an "off" only while soft_sleep is set: every   *)
(* step that clears the flag asks for light.  A daemon that died would     *)
(* forget the flag, hence "unplug" is left out.                            *)
(***************************************************************************)

OursInv ==
    /\ gone = {} /\ pc # "dead"
    /\ jobs # <<>> /\ jobs[Len(jobs)] = "off" => soft_sleep

InOrder == "dpms_race" \notin Hazards /\ "unplug" \notin Hazards

\* A process more: it is the last one, and some are under way.
LEMMA OneMore ==
    ASSUME TypeOK, NEW s \in {"on", "off"}, set_dpms(s)
    PROVE  jobs' # <<>> /\ jobs'[Len(jobs')] = s
  <1>1. jobs \in Seq({"on", "off"}) /\ jobs' = Append(jobs, s)
    BY DEF TypeOK, set_dpms
  <1>2. QED BY <1>1, AppendProperties

\* In order, the first process is done; the last stays the last.
LEMMA OneDone ==
    ASSUME InOrder, TypeOK, NEW i \in 1..Len(jobs), DpmsDone(i)
    PROVE  /\ jobs # <<>> /\ panel' = (jobs[1] = "on")
           /\ jobs' # <<>> => jobs'[Len(jobs')] = jobs[Len(jobs)]
           /\ jobs' = <<>> => Len(jobs) = 1 /\ jobs[1] \in {"on", "off"}
  <1>1. jobs \in Seq({"on", "off"}) /\ i = 1 /\ Len(jobs) \in Nat \ {0}
    BY DEF TypeOK, DpmsDone, InOrder
  <1>2. jobs' = SubSeq(jobs, 1, 0) \o SubSeq(jobs, 2, Len(jobs)) /\ panel' = (jobs[1] = "on")
    BY <1>1 DEF DpmsDone
  <1>3. SubSeq(jobs, 1, 0) = <<>>
    BY SubSeqEmpty
  <1>4. /\ SubSeq(jobs, 2, Len(jobs)) \in Seq({"on", "off"})
        /\ Len(SubSeq(jobs, 2, Len(jobs))) = IF 2 <= Len(jobs) THEN Len(jobs) - 1 ELSE 0
        /\ \A j \in 1..(Len(jobs) - 1) : SubSeq(jobs, 2, Len(jobs))[j] = jobs[j + 1]
    <2> DEFINE rest == SubSeq(jobs, 2, Len(jobs))
    <2>1. \A j \in 2..Len(jobs) : jobs[j] \in {"on", "off"}
      BY <1>1, ElementOfSeq
    <2>2. /\ rest \in Seq({"on", "off"})
          /\ Len(rest) = IF 2 <= Len(jobs) THEN Len(jobs) - 2 + 1 ELSE 0
          /\ \A j \in 1..(Len(jobs) - 2 + 1) : rest[j] = jobs[2 + j - 1]
      BY <1>1, <2>1, SubSeqProperties
    <2> HIDE DEF rest
    <2>3. \A j \in 1..(Len(jobs) - 1) : 2 + j - 1 = j + 1 /\ j \in 1..(Len(jobs) - 2 + 1)
      BY <1>1
    <2>4. Len(rest) = IF 2 <= Len(jobs) THEN Len(jobs) - 1 ELSE 0
      BY <1>1, <2>2
    <2>5. QED BY <2>2, <2>3, <2>4 DEF rest
  <1>5. jobs' = SubSeq(jobs, 2, Len(jobs))
    BY <1>2, <1>3, <1>4, ConcatEmptySeq
  <1>6. jobs' = <<>> <=> Len(jobs') = 0
    BY <1>4, <1>5, EmptySeq
  <1>7. jobs # <<>> /\ jobs[1] \in {"on", "off"}
    BY <1>1, EmptySeq, ElementOfSeq
  <1>8. QED BY <1>1, <1>2, <1>4, <1>5, <1>6, <1>7

\* All a step does to the processes, the flag and the devices.
LEMMA JobsStep ==
    ASSUME InOrder, TypeOK, OursInv, [Next]_vars
    PROVE  /\ gone' = {} /\ pc' # "dead"
           /\ \/ jobs' = jobs /\ soft_sleep' = soft_sleep
              \/ set_dpms("on")
              \/ set_dpms("off") /\ soft_sleep'
              \/ soft_sleep' = soft_sleep /\ \E i \in 1..Len(jobs) : DpmsDone(i)
  <1> USE DEF OursInv, InOrder
  <1>1. CASE \E k \in Keys : Press(k) \/ Release(k) \/ Unplug(k)
    BY <1>1 DEF Press, Release, Unplug
  <1>2. CASE KWinWake \/ IdleBlank \/ Tick
    BY <1>2 DEF KWinWake, IdleBlank, Tick
  <1>3. ASSUME NEW i \in 1..Len(jobs), DpmsDone(i)
        PROVE  gone' = {} /\ pc' # "dead" /\ soft_sleep' = soft_sleep
    BY <1>3 DEF DpmsDone
  <1>4. CASE Restart \/ SelectReady \/ SelectTimeout \/ MenuPrompt \/ LoopBack
    BY <1>4 DEF Restart, SelectReady, SelectTimeout, MenuPrompt, LoopBack
  <1>5. CASE LongPress \/ ShortPressWake \/ ShortPressLock \/ LockBlank
    BY <1>5 DEF LongPress, ShortPressWake, ShortPressLock, LockBlank, WakeIf, NextEvent
  <1>6. CASE \E k \in Keys : ReadKey(k) \/ ReadError(k)
    BY <1>6 DEF ReadKey, ReadError
  <1>7. CASE \E k \in Keys : KeyDown(k) \/ KeyUp(k)
    BY <1>7 DEF KeyDown, KeyUp, WakeIf, NextEvent
  <1>8. CASE UNCHANGED vars
    BY <1>8 DEF vars
  <1>9. QED
    BY <1>1, <1>2, <1>3, <1>4, <1>5, <1>6, <1>7, <1>8 DEF Next, Daemon, Environment

LEMMA OursStep ==
    ASSUME InOrder, TypeOK, OursInv, [Next]_vars
    PROVE  OursInv' /\ (jobs # <<>> /\ jobs' = <<>> /\ ~panel' => soft_sleep')
  <1>1. CASE jobs' = jobs /\ soft_sleep' = soft_sleep
    BY <1>1, JobsStep DEF OursInv
  <1>2. CASE set_dpms("on") \/ (set_dpms("off") /\ soft_sleep')
    BY <1>2, JobsStep, OneMore DEF OursInv
  <1>3. CASE soft_sleep' = soft_sleep /\ \E i \in 1..Len(jobs) : DpmsDone(i)
    <2>1. PICK i \in 1..Len(jobs) : DpmsDone(i)
      BY <1>3
    <2>2. /\ jobs # <<>> /\ panel' = (jobs[1] = "on")
          /\ jobs' # <<>> => jobs'[Len(jobs')] = jobs[Len(jobs)]
          /\ jobs' = <<>> => Len(jobs) = 1 /\ jobs[1] \in {"on", "off"}
      BY <2>1, OneDone
    <2>3. QED BY <1>3, <2>2, JobsStep DEF OursInv
  <1>4. \/ jobs' = jobs /\ soft_sleep' = soft_sleep
        \/ set_dpms("on")
        \/ set_dpms("off") /\ soft_sleep'
        \/ soft_sleep' = soft_sleep /\ \E i \in 1..Len(jobs) : DpmsDone(i)
    BY JobsStep
  <1>5. QED BY <1>1, <1>2, <1>3, <1>4

\* When the processes finish in the order they were started and the daemon lives,
\* a panel left dark by the last of them is one that soft_sleep remembers
\* (do_short_press, do_screenshot and do_long_press).
THEOREM DarkRemembered ==
    ASSUME InOrder
    PROVE  Spec => DarkIsOurs
  <1>1. Init => OursInv
    BY DEF Init, OursInv
  <1>2. TypeOK /\ OursInv /\ [Next]_vars =>
            OursInv' /\ [jobs # <<>> /\ jobs' = <<>> /\ ~panel' => soft_sleep']_vars
    BY OursStep
  <1>3. QED BY <1>1, <1>2, TypeCorrect, PTL DEF Spec, DarkIsOurs
-----------------------------------------------------------------------------
(***************************************************************************)
(* The end of a chord.  Of a key that the finger has left, the last the    *)
(* daemon has yet to hear is its release; and when it has heard all, the   *)
(* key is up.  The latches are set only while some key is down.            *)
(***************************************************************************)

HeardUp(k) ==
    IF queue[k] # <<>> THEN queue[k][Len(queue[k])].value = 0
    ELSE IF batch # <<>> /\ batch[Len(batch)].code = k
         THEN batch[Len(batch)].value = 0
         ELSE down[k] = None

OneCode(events, k) == \A i \in 1..Len(events) : events[i].code = k

ChordInv ==
    /\ gone = {} /\ pc # "dead"
    /\ \A k \in Keys : held[k] => k \in devices
    /\ \A k \in Keys : OneCode(queue[k], k)
    /\ \E k \in Keys : OneCode(batch, k)
    /\ \A k \in Keys : ~held[k] => HeardUp(k)
    /\ combo_fired \/ long_fired => \E k \in Keys : down[k] # None

\* A step that leaves the finger, the buffers and the batch alone, and neither
\* lets go of a key nor sets a latch while both are up.
LEMMA ChordQuiet ==
    ASSUME ChordInv, UNCHANGED <<held, queue, gone, devices, batch>>, pc' # "dead",
           \A k \in Keys : down'[k] = None <=> down[k] = None,
           combo_fired' \/ long_fired' =>
                combo_fired \/ long_fired \/ \E k \in Keys : down[k] # None
    PROVE  ChordInv'
  BY DEF ChordInv, HeardUp, OneCode

\* The next event of a batch concerns one key; it is its last only when the
\* batch ends with it.
LEMMA EventFacts ==
    ASSUME TypeOK, ChordInv, NEW code \in Keys, NEW v \in {0, 1}, NextEvent(code, v)
    PROVE  /\ OneCode(batch, code) /\ OneCode(batch', code)
           /\ batch # <<>> /\ batch[Len(batch)].code = code
           /\ batch' # <<>> => /\ batch'[Len(batch')].code = code
                               /\ batch'[Len(batch')].value = batch[Len(batch)].value
           /\ batch' = <<>> => batch[Len(batch)].value = v
  <1>1. batch \in Seq(Event) /\ batch # <<>> /\ batch' = Tail(batch)
        /\ Head(batch).code = code /\ Head(batch).value = v
    BY DEF TypeOK, NextEvent
  <1>2. /\ Head(batch) = batch[1] /\ Len(batch) \in Nat \ {0}
        /\ batch' \in Seq(Event) /\ Len(batch') = Len(batch) - 1
        /\ \A i \in 1..Len(batch') : i + 1 \in 1..Len(batch) /\ batch'[i] = batch[i + 1]
        /\ batch' = <<>> => Len(batch) = 1
        /\ batch' # <<>> => batch'[Len(batch')] = batch[Len(batch)]
    BY <1>1, TailFacts
  <1>3. OneCode(batch, code)
    BY <1>1, <1>2 DEF ChordInv, OneCode
  <1>4. OneCode(batch', code)
    BY <1>2, <1>3 DEF OneCode
  <1>5. batch[Len(batch)].code = code
    BY <1>2, <1>3 DEF OneCode
  <1>6. QED BY <1>1, <1>2, <1>3, <1>4, <1>5

LEMMA ChordStep ==
    ASSUME "unplug" \notin Hazards, TypeOK, ChordInv, [Next]_vars
    PROVE  ChordInv'
  <1>0. /\ batch \in Seq(Event) /\ queue \in [Keys -> Seq(Event)]
        /\ \A k \in Keys : queue[k] \in Seq(Event) /\ Len(queue[k]) \in Nat
        /\ held \in [Keys -> BOOLEAN] /\ gone = {}
    BY DEF TypeOK, ChordInv
  <1>1. ASSUME NEW k \in Keys, NEW v \in {0, 1}, Deliver(k, v), k \in devices,
               NEW down_now \in BOOLEAN, down_now => v = 1, ~down_now => v = 0,
               held' = [held EXCEPT ![k] = down_now],
               UNCHANGED <<gone, pc, devices, batch, down, combo_fired, long_fired>>
        PROVE  ChordInv'
    <2>1. /\ \A j \in Keys \ {k} : queue'[j] = queue[j]
          /\ Len(queue'[k]) = Len(queue[k]) + 1 /\ queue'[k] # <<>>
          /\ \A i \in 1..Len(queue[k]) : queue'[k][i] = queue[k][i]
          /\ queue'[k][Len(queue[k]) + 1].code = k
          /\ queue'[k][Len(queue[k]) + 1].value = v
      BY <1>0, <1>1, DeliverFacts
    <2>2. held'[k] = down_now /\ \A j \in Keys \ {k} : held'[j] = held[j]
      BY <1>0, <1>1
    <2>3. \A j \in Keys : OneCode(queue'[j], j)
      <3>1. OneCode(queue'[k], k)
        BY <1>0, <2>1 DEF ChordInv, OneCode
      <3>2. QED BY <2>1, <3>1 DEF ChordInv
    <2>4. \A j \in Keys : ~held'[j] => HeardUp(j)'
      <3>1. ~held'[k] => HeardUp(k)'
        <4>1. queue'[k][Len(queue'[k])].value = v /\ queue'[k] # <<>>
          BY <2>1
        <4>2. ~held'[k] => v = 0
          BY <1>1, <2>2
        <4>3. QED BY <4>1, <4>2 DEF HeardUp
      <3>2. \A j \in Keys \ {k} : ~held'[j] => HeardUp(j)'
        BY <1>1, <2>1, <2>2 DEF HeardUp, ChordInv
      <3>3. QED BY <3>1, <3>2
    <2>5. \A j \in Keys : held'[j] => j \in devices'
      BY <1>1, <2>2 DEF ChordInv
    <2>6. QED BY <1>1, <2>3, <2>4, <2>5 DEF ChordInv
  <1>2. ASSUME NEW k \in Keys, Press(k) \/ Release(k) PROVE ChordInv'
    <2>1. CASE Press(k)
      BY <1>1, <2>1 DEF Press, ChordInv
    <2>2. CASE Release(k)
      <3>1. held[k] /\ held' = [held EXCEPT ![k] = FALSE] /\ Deliver(k, 0)
            /\ UNCHANGED <<gone, pc, devices, batch, down, combo_fired, long_fired>>
        BY <2>2 DEF Release
      <3>2. k \in devices
        BY <3>1 DEF ChordInv
      <3>3. QED BY <1>1, <3>1, <3>2
    <2>3. QED BY <1>2, <2>1, <2>2
  <1>3. CASE KWinWake \/ IdleBlank \/ Tick \/ LoopBack \/ MenuPrompt \/ LockBlank
             \/ \E i \in 1..Len(jobs) : DpmsDone(i)
    <2>1. /\ UNCHANGED <<held, queue, gone, devices, batch, down, combo_fired, long_fired>>
          /\ pc' = pc \/ pc' \in {"select", "events"}
      BY <1>3 DEF KWinWake, IdleBlank, Tick, LoopBack, MenuPrompt, LockBlank, DpmsDone
    <2>2. pc' # "dead"
      BY <2>1 DEF ChordInv
    <2>3. QED BY <2>1, <2>2, ChordQuiet
  <1>4. CASE SelectReady \/ SelectTimeout
    <2>1. StampNow /\ pc' # "dead"
          /\ UNCHANGED <<held, queue, gone, devices, batch, combo_fired, long_fired>>
      BY <1>4 DEF SelectReady, SelectTimeout, ChordInv
    <2>2. QED BY <2>1, StampFacts, ChordQuiet
  <1>5. CASE LongPress
    <2>1. StampNow /\ pc' # "dead" /\ down[POWER] # None /\ combo_fired' = combo_fired
          /\ UNCHANGED <<held, queue, gone, devices, batch>>
      BY <1>5 DEF LongPress, Armed
    <2>2. QED BY <2>1, StampFacts, ChordQuiet DEF Keys
  <1>6. ASSUME NEW code \in Keys, KeyDown(code) PROVE ChordInv'
    <2>1. /\ NextEvent(code, 1) /\ down' = [down EXCEPT ![code] = 0]
          /\ UNCHANGED <<held, queue, gone, devices, pc>>
      BY <1>6 DEF KeyDown
    <2>2. /\ OneCode(batch, code) /\ OneCode(batch', code)
          /\ batch # <<>> /\ batch[Len(batch)].code = code
          /\ batch' # <<>> => /\ batch'[Len(batch')].code = code
                              /\ batch'[Len(batch')].value = batch[Len(batch)].value
          /\ batch' = <<>> => batch[Len(batch)].value = 1
      BY <2>1, EventFacts
    <2>3. down'[code] = 0 /\ \A k \in Keys \ {code} : down'[k] = down[k]
      BY <2>1 DEF TypeOK
    <2>4. \A k \in Keys : ~held[k] => HeardUp(k)'
      <3>1. ~held[code] => HeardUp(code)'
        BY <2>1, <2>2 DEF HeardUp, ChordInv
      <3>2. ASSUME NEW k \in Keys \ {code}, ~held[k] PROVE HeardUp(k)'
        BY <2>1, <2>2, <2>3, <3>2 DEF HeardUp, ChordInv
      <3>3. QED BY <3>1, <3>2
    <2>5. QED BY <2>1, <2>2, <2>3, <2>4 DEF ChordInv, None
  <1>7. ASSUME NEW code \in Keys, NextEvent(code, 0), LetGo(code), pc' # "dead",
               UNCHANGED <<held, queue, gone, devices>>
        PROVE  ChordInv'
    <2>1. /\ OneCode(batch, code) /\ OneCode(batch', code)
          /\ batch # <<>> /\ batch[Len(batch)].code = code
          /\ batch' # <<>> => /\ batch'[Len(batch')].code = code
                              /\ batch'[Len(batch')].value = batch[Len(batch)].value
      BY <1>7, EventFacts
    <2>2. down'[code] = None /\ \A k \in Keys \ {code} : down'[k] = down[k]
      BY <1>7, LetGoFacts
    <2>3. combo_fired' \/ long_fired' => \E k \in Keys : down'[k] # None
      BY <1>7 DEF LetGo
    <2>4. \A k \in Keys : ~held[k] => HeardUp(k)'
      <3>1. ~held[code] => HeardUp(code)'
        BY <1>7, <2>1, <2>2 DEF HeardUp, ChordInv
      <3>2. ASSUME NEW k \in Keys \ {code}, ~held[k] PROVE HeardUp(k)'
        BY <1>7, <2>1, <2>2, <3>2 DEF HeardUp, ChordInv
      <3>3. QED BY <3>1, <3>2
    <2>5. QED BY <1>7, <2>1, <2>3, <2>4 DEF ChordInv
  <1>8. CASE ShortPressWake \/ ShortPressLock \/ \E k \in Keys : KeyUp(k)
    BY <1>7, <1>8 DEF ShortPressWake, ShortPressLock, KeyUp, Keys, ChordInv
  <1>9. ASSUME NEW k \in Keys, ReadKey(k) PROVE ChordInv'
    <2>1. batch = <<>> /\ UNCHANGED <<held, gone, pc, devices, down, combo_fired, long_fired>>
      BY <1>9 DEF ReadKey
    <2>2. PICK n \in 0..Len(queue[k]) :
              /\ Len(queue[k]) \in Nat /\ (n = 0 => queue[k] = <<>>)
              /\ batch' \in Seq(Event) /\ Len(batch') = n
              /\ \A i \in 1..n : batch'[i] = queue[k][i]
              /\ queue'[k] \in Seq(Event) /\ Len(queue'[k]) = Len(queue[k]) - n
              /\ \A i \in 1..(Len(queue[k]) - n) : queue'[k][i] = queue[k][n + i]
              /\ \A j \in Keys \ {k} : queue'[j] = queue[j]
      BY <1>9, ReadFacts
    <2>3. OneCode(batch', k)
      <3>1. \A i \in 1..Len(queue[k]) : queue[k][i].code = k
        BY DEF ChordInv, OneCode
      <3>2. \A i \in 1..n : i \in 1..Len(queue[k])
        BY <2>2
      <3>3. QED BY <2>2, <3>1, <3>2 DEF OneCode
    <2>4. \A j \in Keys : OneCode(queue'[j], j)
      <3>1. ASSUME NEW i \in 1..(Len(queue[k]) - n) PROVE queue'[k][i].code = k
        <4>1. n + i \in 1..Len(queue[k])
          BY <2>2
        <4>2. queue'[k][i] = queue[k][n + i]
          BY <2>2
        <4>3. queue[k][n + i].code = k
          BY <4>1 DEF ChordInv, OneCode
        <4>4. QED BY <4>2, <4>3
      <3>2. QED BY <2>2, <3>1 DEF ChordInv, OneCode
    <2>5. ~held[k] => HeardUp(k)'
      <3> SUFFICES ASSUME ~held[k] PROVE HeardUp(k)'
        OBVIOUS
      <3>0. HeardUp(k)
        BY DEF ChordInv
      <3>1. CASE n = 0
        <4>1. queue[k] = <<>> /\ queue'[k] = <<>> /\ batch' = <<>>
          BY <2>2, <3>1, EmptySeq
        <4>2. QED BY <2>1, <3>0, <4>1 DEF HeardUp
      <3>2. CASE n # 0 /\ n = Len(queue[k])
        <4>1. queue[k] # <<>> /\ queue'[k] = <<>> /\ batch' # <<>>
          BY <2>2, <3>2, EmptySeq
        <4>2. batch'[Len(batch')] = queue[k][Len(queue[k])] /\ batch'[Len(batch')].code = k
          BY <2>2, <2>3, <3>2 DEF OneCode
        <4>3. QED BY <3>0, <4>1, <4>2 DEF HeardUp
      <3>3. CASE n # Len(queue[k])
        <4>1. Len(queue'[k]) \in 1..(Len(queue[k]) - n) /\ n + Len(queue'[k]) = Len(queue[k])
          BY <2>2, <3>3
        <4>2. queue[k] # <<>> /\ queue'[k] # <<>>
          BY <2>2, <4>1, EmptySeq
        <4>3. queue'[k][Len(queue'[k])] = queue[k][Len(queue[k])]
          BY <2>2, <4>1
        <4>4. QED BY <3>0, <4>2, <4>3 DEF HeardUp
      <3>4. QED BY <3>1, <3>2, <3>3
    <2>6. ASSUME NEW j \in Keys \ {k}, ~held[j] PROVE HeardUp(j)'
      <3>1. batch' # <<>> => batch'[Len(batch')].code = k
        <4>1. batch' # <<>> => n # 0
          BY <2>2, EmptySeq
        <4>2. QED BY <2>2, <2>3, <4>1 DEF OneCode
      <3>2. QED BY <2>1, <2>2, <2>6, <3>1 DEF HeardUp, ChordInv
    <2>7. QED BY <2>1, <2>3, <2>4, <2>5, <2>6 DEF ChordInv
  <1>10. CASE UNCHANGED vars
    BY <1>10, ChordQuiet DEF vars, ChordInv
  <1>11. \A k \in Keys : ~Unplug(k) /\ ~ReadError(k)
    BY <1>0 DEF Unplug, ReadError
  <1>12. ~Restart
    BY DEF Restart, ChordInv
  <1>13. QED
    BY <1>2, <1>3, <1>4, <1>5, <1>6, <1>8, <1>9, <1>10, <1>11, <1>12
    DEF Next, Daemon, Environment

\* While no input device dies, a chord's latches do not outlive it: the finger off
\* both keys and every event heard, nothing is suppressed any more (do_screenshot's
\* end, tabs6-powerkeyd.py:438-442).
THEOREM ChordOver ==
    ASSUME "unplug" \notin Hazards
    PROVE  Spec => []ChordEnds
  <1>1. Init => ChordInv
    <2> SUFFICES ASSUME Init PROVE ChordInv
      OBVIOUS
    <2>1. Len(<<>>) = 0
      OBVIOUS
    <2>2. \A k \in Keys : queue[k] = <<>> /\ ~held[k] /\ down[k] = None
      BY DEF Init
    <2>3. QED BY <2>1, <2>2 DEF Init, ChordInv, HeardUp, OneCode, Keys
  <1>2. TypeOK /\ ChordInv /\ [Next]_vars => ChordInv'
    BY ChordStep
  <1>3. ChordInv => ChordEnds
    BY DEF ChordInv, ChordEnds, AtRest, Drained, HeardUp
  <1>4. QED BY <1>1, <1>2, <1>3, TypeCorrect, PTL DEF Spec
=============================================================================
