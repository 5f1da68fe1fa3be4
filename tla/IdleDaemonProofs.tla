-------------------------- MODULE IdleDaemonProofs --------------------------
(***************************************************************************)
(* Proofs about IdleDaemon, for all thresholds, graces and sets of         *)
(* devices: when it suspends, and whom it hears; and the types.            *)
(***************************************************************************)
EXTENDS IdleDaemon, TLAPS

Querying == pc \in {"kde", "systemd", "suspend"}

(***************************************************************************)
(* The daemon's age never exceeds the time since the last attempt, and a   *)
(* daemon that has begun to ask has been idle for its threshold: time only *)
(* adds to it until it stands down or suspends.  Standing down takes the   *)
(* age back to the check, which is no older than the last attempt.         *)
(***************************************************************************)
AgeInv ==
    /\ pc \in {"top", "select", "check", "kde", "systemd", "suspend"}
    /\ threshold \in {IDLE_ON_AC, IDLE_ON_BATTERY}
    /\ idle \in Int /\ idle <= CAP /\ since \in 0..CAP /\ quiet \in 0..CAP
    /\ idle <= since
    /\ stamp \in 0..CAP /\ stamp <= since /\ (pc \notin Asking => stamp = 0)
    /\ Querying => idle >= threshold

LEMMA OlderFacts ==
    ASSUME NEW a \in Int, NEW b \in Int, a <= b, b <= CAP
    PROVE  /\ Older(a) \in Int /\ Older(a) <= CAP /\ Older(a) >= a
           /\ Older(a) <= Older(b)
           /\ b \in Nat => Older(b) \in 0..CAP
  BY TimesAssumption DEF Older

\* How the step of the daemon named by pc changes its age.
LEMMA AskStep ==
    ASSUME AgeInv, NEW i, NEW next \in {"systemd", "suspend"}, Ask(i, next), pc \in Asking
    PROVE  AgeInv'
  <1>1. UNCHANGED <<threshold, quiet, since>>
    BY DEF Ask, StandDown, GoOn
  <1>2. CASE StandDown(next)
    BY <1>1, <1>2, TimesAssumption DEF StandDown, AgeInv, Querying
  <1>3. CASE GoOn(next)
    <2>1. /\ pc' = next /\ idle' = idle
          /\ stamp' = IF next = "systemd" THEN stamp ELSE 0
      BY <1>3 DEF GoOn, Asking
    <2>2. idle >= threshold
      BY DEF AgeInv, Querying, Asking
    <2>3. QED BY <1>1, <2>1, <2>2, TimesAssumption DEF AgeInv, Querying, Asking
  <1>4. QED BY <1>2, <1>3 DEF Ask

LEMMA AgeStep == AgeInv /\ [Next]_vars => AgeInv'
  <1> SUFFICES ASSUME AgeInv, [Next]_vars PROVE AgeInv'
    OBVIOUS
  <1> USE TimesAssumption
  <1>0. CASE UNCHANGED <<pc, threshold, idle, stamp, quiet, since>>
    BY <1>0 DEF AgeInv, Querying
  <1>1. CASE LoopTop
    BY <1>1 DEF LoopTop, clock, AgeInv, Querying, Asking
  <1>2. CASE SelectReady
    BY <1>2 DEF SelectReady, Activity, AgeInv, Querying, Asking
  <1>3. CASE SelectTimeout
    BY <1>3 DEF SelectTimeout, clock, AgeInv, Querying, Asking
  <1>4. CASE Check
    BY <1>4 DEF Check, clock, AgeInv, Querying, Asking
  <1>5. CASE kde_inhibited \/ systemd_block_inhibited
    <2>1. PICK i \in Asking, next \in {"systemd", "suspend"} :
              Ask(i, next) /\ pc = i
      BY <1>5 DEF kde_inhibited, systemd_block_inhibited, Ask, Asking
    <2>2. QED BY <2>1, AskStep
  <1>6. CASE Suspend
    <2>1. /\ pc' = "top" /\ idle' \in {-POST_RESUME_GRACE, 0} /\ since' = 0
          /\ quiet' = quiet /\ threshold' = threshold /\ stamp' = stamp /\ pc = "suspend"
      BY <1>6 DEF Suspend, SuspendDone, Restarted
    <2>2. QED BY <2>1 DEF AgeInv, Querying, Asking
  <1>7. CASE Tick
    <2>1. /\ idle' \in Int /\ idle' <= CAP /\ idle' >= idle /\ idle' <= since'
          /\ since' \in 0..CAP
      BY <1>7, OlderFacts DEF Tick, AgeInv
    <2>2. quiet' \in 0..CAP
      BY <1>7 DEF Tick, Older, AgeInv
    <2>3. /\ stamp' \in 0..CAP /\ stamp' <= since'
          /\ pc \notin Asking => stamp' = 0
      <3>1. CASE pc \in Asking
        <4>1. stamp' = Older(stamp) /\ since' = Older(since)
          BY <1>7, <3>1 DEF Tick
        <4>2. stamp \in Int /\ since \in Int /\ stamp <= since /\ since <= CAP /\ stamp \in Nat
          BY DEF AgeInv
        <4>3. QED BY <3>1, <4>1, <4>2 DEF Older
      <3>2. CASE pc \notin Asking
        BY <1>7, <2>1, <3>2 DEF Tick, AgeInv
      <3>3. QED BY <3>1, <3>2
    <2>4. QED BY <1>7, <2>1, <2>2, <2>3 DEF Tick, AgeInv, Querying
  <1>8. ASSUME NEW d \in Devs, Input(d) \/ Attach(d) \/ Detach(d) PROVE AgeInv'
    BY <1>8 DEF Input, Attach, Detach, clock, AgeInv, Querying
  <1>9. CASE PowerChange \/ FallAsleep \/ WakeUp \/ UNCHANGED vars
    BY <1>0, <1>9 DEF PowerChange, FallAsleep, WakeUp, vars, clock
  <1>10. CASE Restart
    BY <1>10 DEF Restart, AgeInv, Querying, Asking
  <1>11. ASSUME NEW i \in Inhibitors, InhibitChange(i) PROVE AgeInv'
    BY <1>0, <1>11 DEF InhibitChange, clock
  <1>12. QED
    BY <1>1, <1>2, <1>3, <1>4, <1>5, <1>6, <1>7, <1>8, <1>9, <1>10, <1>11
    DEF Next, Daemon, Environment

LEMMA AgeAlways == Spec => []AgeInv
  <1>1. Init => AgeInv
    BY TimesAssumption DEF Init, AgeInv, Querying
  <1>2. QED BY <1>1, AgeStep, PTL DEF Spec

\* With every hazard allowed, and for all thresholds, a suspend is never attempted
\* again within the shorter threshold.
THEOREM AttemptsApart == Spec => NotHammered
  <1>1. AgeInv => [Attempts => since >= IDLE_ON_BATTERY]_vars
    BY TimesAssumption DEF AgeInv, Attempts, Querying
  <1>2. QED BY <1>1, AgeAlways, PTL DEF NotHammered
-----------------------------------------------------------------------------
(***************************************************************************)
(* The daemon's age is at most the user's whenever nothing waits to be     *)
(* read: input it has not seen makes a node readable, and so does a device *)
(* that goes away with input unread.                                       *)
(***************************************************************************)
UseInv ==
    /\ unread \subseteq watched
    /\ ~Readable => idle <= quiet /\ stamp <= quiet

LEMMA UseStep ==
    ASSUME AgeInv, UseInv, [Next]_vars
    PROVE  UseInv'
  <1> USE TimesAssumption DEF clock, fds
  <1>0. CASE UNCHANGED <<idle, stamp, quiet, watched, dead, unread>>
    BY <1>0 DEF UseInv, Readable
  <1>1. CASE LoopTop \/ SelectTimeout \/ Check
    BY <1>0, <1>1 DEF LoopTop, SelectTimeout, Check
  <1>2. CASE SelectReady
    BY <1>2 DEF SelectReady, Activity, UseInv, AgeInv, Asking
  <1>3. CASE kde_inhibited \/ systemd_block_inhibited
    <2>1. UNCHANGED fds /\ quiet' = quiet /\ idle' \in {stamp, idle} /\ stamp' \in {0, stamp}
      BY <1>3 DEF kde_inhibited, systemd_block_inhibited, Ask, StandDown, GoOn
    <2>2. QED BY <2>1 DEF UseInv, AgeInv, Readable
  <1>4. CASE Suspend
    <2>1. /\ idle' \in {-POST_RESUME_GRACE, 0} /\ quiet' = quiet /\ UNCHANGED fds
          /\ stamp' = 0
      BY <1>4 DEF Suspend, SuspendDone, Restarted, AgeInv, Asking
    <2>2. quiet \in Nat /\ -POST_RESUME_GRACE <= 0 /\ POST_RESUME_GRACE \in Nat
      BY DEF AgeInv
    <2>3. QED BY <2>1, <2>2 DEF UseInv, Readable
  <1>5. CASE Tick
    <2>1. idle <= quiet => idle' <= quiet'
      BY <1>5, OlderFacts DEF Tick, AgeInv
    <2>2. stamp <= quiet => stamp' <= quiet'
      BY <1>5 DEF Tick, Older, AgeInv
    <2>3. QED BY <1>5, <2>1, <2>2 DEF Tick, UseInv, Readable
  <1>6. ASSUME NEW d \in Devs, Input(d) PROVE UseInv'
    <2>1. CASE d \in watched
      <3>1. Readable' /\ unread' \subseteq watched'
        BY <1>6, <2>1 DEF Input, Readable, UseInv
      <3>2. QED BY <3>1 DEF UseInv
    <2>2. CASE d \notin watched
      <3>1. UNCHANGED <<idle, stamp, quiet, watched, dead>> /\ unread' = unread
        BY <1>6, <2>2 DEF Input
      <3>2. QED BY <3>1 DEF UseInv, Readable
    <2>3. QED BY <2>1, <2>2
  <1>7. ASSUME NEW d \in Devs, Attach(d) PROVE UseInv'
    BY <1>0, <1>7 DEF Attach
  <1>8. ASSUME NEW d \in Devs, Detach(d) PROVE UseInv'
    <2>1. CASE d \in watched
      <3>1. Readable' /\ unread' \subseteq watched'
        BY <1>8, <2>1 DEF Detach, Readable, UseInv
      <3>2. QED BY <3>1 DEF UseInv
    <2>2. CASE d \notin watched
      <3>1. UNCHANGED <<idle, stamp, quiet>> /\ watched' = watched /\ unread' = unread /\ dead' = dead
        BY <1>8, <2>2 DEF Detach, UseInv
      <3>2. QED BY <3>1 DEF UseInv, Readable
    <2>3. QED BY <2>1, <2>2
  <1>9. CASE Restart
    BY <1>9 DEF Restart, UseInv, AgeInv
  <1>10. CASE PowerChange \/ FallAsleep \/ WakeUp \/ UNCHANGED vars
    BY <1>0, <1>10 DEF PowerChange, FallAsleep, WakeUp, vars
  <1>11. ASSUME NEW i \in Inhibitors, InhibitChange(i) PROVE UseInv'
    BY <1>0, <1>11 DEF InhibitChange
  <1>12. QED
    BY <1>1, <1>2, <1>3, <1>4, <1>5, <1>6, <1>7, <1>8, <1>9, <1>10, <1>11
    DEF Next, Daemon, Environment

\* With every hazard allowed, the tablet is only suspended after the threshold of
\* real quiet on the devices the daemon watches, whatever devices disappear.
THEOREM OnlyWhenQuiet == Spec => NeverInUse
  <1>1. Init => UseInv
    BY DEF Init, UseInv
  <1>2. AgeInv /\ UseInv /\ [Next]_vars => UseInv'
    BY UseStep
  <1>3. AgeInv /\ UseInv => [Attempts => quiet >= threshold \/ Readable]_vars
    BY TimesAssumption DEF AgeInv, UseInv, Attempts, Querying
  <1>4. QED BY <1>1, <1>2, <1>3, AgeAlways, PTL DEF Spec, NeverInUse
-----------------------------------------------------------------------------
(***************************************************************************)
(* An inhibitor that has stood since the check is still there when its own *)
(* query is answered: a daemon past that query has not seen one, or the    *)
(* query failed.                                                           *)
(***************************************************************************)
HeldInv ==
    /\ held \subseteq inhibit /\ inhibit \subseteq Inhibitors
    /\ pc = "systemd" => "kde" \notin held
    /\ pc = "suspend" => held = {}

LEMMA HeldStep ==
    ASSUME HeldInv, [Next]_vars
    PROVE  HeldInv'
  <1>1. CASE UNCHANGED <<pc, inhibit, held>>
    BY <1>1 DEF HeldInv
  <1>2. CASE pc' \in {"top", "select", "check"} /\ UNCHANGED <<inhibit, held>>
    BY <1>2 DEF HeldInv
  <1>3. CASE LoopTop \/ SelectReady \/ SelectTimeout \/ Suspend \/ Restart
    BY <1>2, <1>3 DEF LoopTop, SelectReady, SelectTimeout, Suspend, SuspendDone, Restart
  <1>4. CASE Check
    BY <1>4 DEF Check, HeldInv
  <1>5. CASE kde_inhibited
    <2>1. \/ pc' = "top"
          \/ pc' = "systemd" /\ "kde" \notin held'
      BY <1>5 DEF kde_inhibited, Ask, StandDown, GoOn, HeldInv
    <2>2. held' \subseteq held /\ inhibit' = inhibit
      BY <1>5 DEF kde_inhibited, Ask
    <2>3. QED BY <2>1, <2>2 DEF HeldInv
  <1>6. CASE systemd_block_inhibited
    <2>1. \/ pc' = "top"
          \/ pc' = "suspend" /\ "systemd" \notin held'
      BY <1>6 DEF systemd_block_inhibited, Ask, StandDown, GoOn, HeldInv
    <2>2. "kde" \notin held /\ held' \subseteq held /\ inhibit' = inhibit
      BY <1>6 DEF systemd_block_inhibited, Ask, HeldInv
    <2>3. QED BY <2>1, <2>2 DEF HeldInv, Inhibitors
  <1>7. ASSUME NEW i \in Inhibitors, InhibitChange(i) PROVE HeldInv'
    BY <1>7 DEF InhibitChange, HeldInv
  <1>8. ASSUME NEW d \in Devs, Input(d) \/ Attach(d) \/ Detach(d) PROVE HeldInv'
    BY <1>1, <1>8 DEF Input, Attach, Detach
  <1>9. CASE PowerChange \/ FallAsleep \/ WakeUp \/ Tick \/ UNCHANGED vars
    BY <1>1, <1>9 DEF PowerChange, FallAsleep, WakeUp, Tick, vars
  <1>10. QED
    BY <1>3, <1>4, <1>5, <1>6, <1>7, <1>8, <1>9 DEF Next, Daemon, Environment

\* For all thresholds and with every hazard allowed, an inhibitor that stands from
\* the check on is never overruled unless its own query fails, however the other one
\* comes and goes between the two queries.
THEOREM StandingInhibitorHeard == Spec => InhibitorHeard
  <1>1. Init => HeldInv
    BY DEF Init, HeldInv
  <1>2. HeldInv /\ [Next]_vars => HeldInv'
    BY HeldStep
  <1>3. HeldInv => [Attempts => held = {}]_vars
    BY DEF HeldInv, Attempts
  <1>4. QED BY <1>1, <1>2, <1>3, PTL DEF Spec, InhibitorHeard
-----------------------------------------------------------------------------
\* A step that leaves all but the clock and the daemon's place alone.
LEMMA TypeKept ==
    ASSUME TypeOK, UNCHANGED <<fds, present, power, inhibit, sleep>>, held' \subseteq held,
           pc' \in {"top", "select", "check", "kde", "systemd", "suspend"},
           threshold' \in {IDLE_ON_AC, IDLE_ON_BATTERY},
           idle' \in {idle, stamp, Older(idle), -POST_RESUME_GRACE},
           stamp' \in {stamp, Older(stamp), 0},
           blocked' \in {blocked, blocked - 1, 0, FAILURE_BACKOFF} \cap Nat,
           quiet' \in {quiet, Older(quiet)}, since' \in {since, Older(since), 0}
    PROVE  TypeOK'
  <1>1. \A a \in -POST_RESUME_GRACE..CAP : Older(a) \in -POST_RESUME_GRACE..CAP
    BY TimesAssumption DEF Older
  <1>2. \A a \in 0..CAP : Older(a) \in 0..CAP
    BY TimesAssumption DEF Older
  <1>3. /\ 0 \in -POST_RESUME_GRACE..CAP /\ -POST_RESUME_GRACE \in -POST_RESUME_GRACE..CAP
        /\ 0 \in 0..CAP
    BY TimesAssumption
  <1>4. /\ idle' \in -POST_RESUME_GRACE..CAP /\ quiet' \in 0..CAP /\ since' \in 0..CAP
        /\ stamp' \in 0..CAP
    <2>1. stamp \in -POST_RESUME_GRACE..CAP
      BY TimesAssumption DEF TypeOK
    <2>2. QED BY <1>1, <1>2, <1>3, <2>1 DEF TypeOK
  <1>5. blocked' \in 0..FAILURE_BACKOFF
    BY TimesAssumption DEF TypeOK
  <1>6. QED BY <1>4, <1>5 DEF TypeOK, fds

\* Every variable keeps its type: the ages stay between the grace and CAP, and the
\* daemon only watches, and only reads from, devices that are there.
THEOREM TypeCorrect == Spec => []TypeOK
  <1>1. Init => TypeOK
    BY TimesAssumption DEF Init, TypeOK
  <1>2. TypeOK /\ [Next]_vars => TypeOK'
    <2> SUFFICES ASSUME TypeOK, [Next]_vars PROVE TypeOK'
      OBVIOUS
    <2> USE DEF clock
    <2>1. CASE LoopTop \/ SelectTimeout
      BY <2>1, TypeKept DEF LoopTop, SelectTimeout, TypeOK
    <2>2. CASE SelectReady
      <3>1. idle' = 0 /\ UNCHANGED <<stamp, blocked, quiet, since>> /\ dead' = {} /\ unread' = {}
        BY <2>2 DEF SelectReady, Activity, DropDead
      <3>2. QED BY <2>2, <3>1, TimesAssumption DEF SelectReady, TypeOK
    <2>3. CASE Check
      <3>1. pc' \in {"top", "kde"} /\ held' = inhibit
            /\ UNCHANGED <<threshold, clock, fds, present, power, inhibit, sleep>>
        BY <2>3 DEF Check
      <3>2. QED BY <3>1 DEF TypeOK, fds
    <2>4. CASE kde_inhibited \/ systemd_block_inhibited
      <3>1. PICK i \in Inhibitors, next \in {"systemd", "suspend"} : Ask(i, next)
        BY <2>4 DEF kde_inhibited, systemd_block_inhibited, Inhibitors
      <3>2. /\ pc' \in {"top", next} /\ idle' \in {stamp, idle} /\ stamp' \in {stamp, 0}
            /\ UNCHANGED <<blocked, quiet, since>> /\ held' \subseteq held
        BY <3>1 DEF Ask, StandDown, GoOn
      <3>3. QED BY <3>1, <3>2, TypeKept DEF Ask, TypeOK
    <2>5. CASE Suspend
      <3>1. /\ pc' = "top" /\ idle' \in {-POST_RESUME_GRACE, 0} /\ since' = 0
            /\ quiet' = quiet /\ stamp' = stamp
            /\ blocked' \in {blocked, FAILURE_BACKOFF} /\ sleep' \in {sleep, "entering"}
            /\ UNCHANGED <<threshold, fds, present, power, inhibit, held>>
        BY <2>5 DEF Suspend, SuspendDone, Restarted
      <3>2. QED BY <3>1, TimesAssumption DEF TypeOK, fds
    <2>6. CASE Tick
      <3>1. blocked' \in {blocked, blocked - 1, 0, FAILURE_BACKOFF} \cap Nat
        BY <2>6, TimesAssumption DEF Tick, TypeOK
      <3>2. QED BY <2>6, <3>1, TypeKept DEF Tick, TypeOK
    <2>7. ASSUME NEW d \in Devs, Input(d) PROVE TypeOK'
      <3>1. quiet' \in 0..CAP
        BY <2>7, TimesAssumption DEF Input, TypeOK
      <3>2. QED BY <2>7, <3>1 DEF Input, TypeOK
    <2>8. ASSUME NEW d \in Devs, Attach(d) \/ Detach(d) PROVE TypeOK'
      BY <2>8 DEF Attach, Detach, TypeOK, fds
    <2>9. CASE PowerChange \/ FallAsleep \/ WakeUp
      BY <2>9 DEF PowerChange, FallAsleep, WakeUp, TypeOK, fds
    <2>10. ASSUME NEW i \in Inhibitors, InhibitChange(i) PROVE TypeOK'
      BY <2>10 DEF InhibitChange, TypeOK, fds
    <2>11. CASE Restart
      BY <2>11, TimesAssumption DEF Restart, TypeOK
    <2>12. CASE UNCHANGED vars
      BY <2>12 DEF vars, TypeOK, fds
    <2>13. QED
      BY <2>1, <2>2, <2>3, <2>4, <2>5, <2>6, <2>7, <2>8, <2>9, <2>10, <2>11, <2>12
      DEF Next, Daemon, Environment
  <1>3. QED BY <1>1, <1>2, PTL DEF Spec
=============================================================================
