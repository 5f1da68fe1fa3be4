----------------------------- MODULE DiskProofs -----------------------------
(***************************************************************************)
(* Proofs about the two programs that rewrite what the tablet boots into,  *)
(* file after file, while the power may go: DesktopPatches, for all        *)
(* packages, lists of files and stashes, and KernelSnapshot, for all       *)
(* builds.  Of the first, one inductive invariant is about the lock        *)
(* screen, which gives its stock copy and the refinement, and one about    *)
(* how far a run has come; of the second, one about what a command has     *)
(* done so far.                                                            *)
(***************************************************************************)
EXTENDS DesktopPatches, KernelSnapshot, TLAPS, SequenceTheorems

(***************************************************************************)
(* Texts: what patching does, once and twice.                              *)
(***************************************************************************)
LEMMA PatchedFacts ==
    ASSUME NEW t \in Whole
    PROVE  /\ Patched[t] \in Whole /\ Patched[Patched[t]] = Patched[t]
           /\ \A h \in Hunks : Patched[t][h] = (IF t[h] = "old" THEN "new" ELSE t[h])
           /\ \A h \in Hunks : Patched[t][h] # "old"
           /\ Patched[t] = t <=> \A h \in Hunks : t[h] # "old"
  <1>1. Patched[t] = [h \in Hunks |-> IF t[h] = "old" THEN "new" ELSE t[h]]
    BY DEF Patched
  <1>2. \A h \in Hunks : Patched[t][h] = (IF t[h] = "old" THEN "new" ELSE t[h])
    BY <1>1
  <1>3. \A h \in Hunks : Patched[t][h] # "old"
    BY <1>2
  <1>4. t = [h \in Hunks |-> t[h]]
    BY DEF Whole, Absent
  <1>5. Patched[t] = t <=> \A h \in Hunks : t[h] # "old"
    <2>1. ASSUME \A h \in Hunks : t[h] # "old" PROVE Patched[t] = t
      BY <1>1, <1>4, <2>1
    <2>2. QED BY <2>1, <1>3
  <1>6. Patched[t] \in Whole
    <2>1. CASE t = Absent
      BY <2>1, <1>5 DEF Absent, Whole
    <2>2. CASE t \in [Hunks -> {"old", "new", "other"}]
      BY <2>2, <1>1, <1>2 DEF Whole
    <2>3. QED BY <2>1, <2>2 DEF Whole
  <1>7. Patched[Patched[t]] = Patched[t]
    <2>1. Patched[Patched[t]] =
            [h \in Hunks |-> IF Patched[t][h] = "old" THEN "new" ELSE Patched[t][h]]
      BY <1>6 DEF Patched
    <2>2. QED BY <2>1, <1>1, <1>3
  <1>8. QED BY <1>2, <1>3, <1>5, <1>6, <1>7

LEMMA PackagedFacts ==
    /\ Packaged \subseteq Whole /\ Shipped \subseteq Whole /\ Absent # Torn
    /\ Torn \notin Whole /\ Absent \notin Shipped
    /\ \A t \in Packaged, h \in Hunks : t[h] # "new"
    /\ \A h \in Hunks : Absent[h] # "old"
  <1>1. "pos" \in Hunks
    BY DEF Hunks
  <1>2. QED BY <1>1, PackagesAssumption DEF Packaged, Whole, Absent, Torn
-----------------------------------------------------------------------------
(***************************************************************************)
(* The lock screen: as packaged, or patched with a copy begun; and as the  *)
(* service goes through its steps it is one of those Plasma ships.         *)
(***************************************************************************)
Writing == {"write", "write_end", "replace"}

LockInv ==
    /\ \/ lock \in Packaged
       \/ lock \in {Patched[t] : t \in Packaged} /\ stock # Absent
    /\ stock \in Shipped \cup {Absent, Torn}
    /\ pc \in {"backup", "backup_end"} \cup Writing => lock \in Shipped
    /\ pc = "backup" => stock = Absent
    /\ pc = "backup_end" => stock = Torn
    /\ pc \in Writing => stock # Absent
    /\ pc = "replace" => tmp = Patched[lock]

LEMMA LockStep == LockInv /\ [Next]_vars => LockInv'
  <1> SUFFICES ASSUME LockInv, [Next]_vars PROVE LockInv'
    OBVIOUS
  <1> USE PackagedFacts DEF LockInv, Writing
  <1>1. CASE patch_lockscreen
    <2>1. UNCHANGED <<lock, stock, tmp>>
      BY <1>1 DEF patch_lockscreen, disk
    <2>2. CASE pc' = "compare"
      BY <2>1, <2>2
    <2>3. CASE pc' # "compare"
      <3>1. /\ lock # Absent /\ Patched[lock] # lock
            /\ pc' = (IF stock = Absent THEN "backup" ELSE "write")
        BY <1>1, <2>3 DEF patch_lockscreen, LeaveLock
      <3>2. lock \in Shipped
        <4>1. ASSUME NEW t \in Packaged, lock = Patched[t] PROVE FALSE
          BY <4>1, <3>1, PatchedFacts
        <4>2. QED BY <4>1, <3>1 DEF Packaged
      <3>3. QED BY <2>1, <3>1, <3>2
    <2>4. QED BY <2>2, <2>3
  <1>2. CASE Backup
    BY <1>2 DEF Backup, Packaged
  <1>3. CASE WriteTmp
    BY <1>3 DEF WriteTmp
  <1>4. CASE Replace
    BY <1>4 DEF Replace, Packaged
  <1>5. CASE LockFails
    BY <1>5 DEF LockFails, LeaveLock, disk
  <1>6. CASE Compare \/ Copy \/ MaliitDone
    BY <1>6 DEF Compare, Copy, MaliitDone, NextFile, disk
  <1>7. CASE Unlink \/ Symlink
    BY <1>7 DEF Unlink, Symlink, Finish
  <1>8. CASE Boot \/ PowerCut
    BY <1>8 DEF Boot, PowerCut, disk
  <1>9. CASE Upgrade
    BY <1>9 DEF Upgrade
  <1>10. CASE UNCHANGED vars
    BY <1>10 DEF vars, disk
  <1>11. QED BY <1>1, <1>2, <1>3, <1>4, <1>5, <1>6, <1>7, <1>8, <1>9, <1>10 DEF Next, main

THEOREM LockSafe == Spec => []LockInv
  <1>1. Init => LockInv
    BY DEF Init, LockInv, Writing
  <1>2. QED BY <1>1, LockStep, PTL DEF Spec

(* The stock copy is a text a package brought, or cut off, and a patched    *)
(* lock screen has one, whatever the packages, crashes and errors.          *)
THEOREM StockKept == Spec => []StockIsStock
  <1>1. LockInv => StockIsStock
    BY PackagedFacts, PatchedFacts DEF LockInv, StockIsStock
  <1>2. QED BY <1>1, LockSafe, PTL

(* The service implements PatchedFile: the lock screen goes only from one   *)
(* whole text to another.                                                   *)
THEOREM LockIsAtomic == Spec => PatchesAtomically
  <1>1. Init => LockScreen!Init
    BY DEF Init, LockScreen!Init
  <1>2. LockInv /\ [Next]_vars => [LockScreen!Next]_<<lock, stock>>
    <2> SUFFICES ASSUME LockInv, [Next]_vars, ~UNCHANGED <<lock, stock>>
                 PROVE  LockScreen!Next
      OBVIOUS
    <2> USE DEF LockInv, Writing
    <2>1. Backup \/ Replace \/ Upgrade
      BY DEF Next, main, vars, disk, patch_lockscreen, WriteTmp, LockFails, Compare, Copy,
             MaliitDone, Unlink, Symlink, Boot, PowerCut
    <2>2. CASE Backup
      BY <2>2 DEF Backup, LockScreen!Next, LockScreen!Keep
    <2>3. CASE Replace
      BY <2>3 DEF Replace, LockScreen!Next, LockScreen!Patch
    <2>4. CASE Upgrade
      BY <2>4 DEF Upgrade, LockScreen!Next, LockScreen!Install
    <2>5. QED BY <2>1, <2>2, <2>3, <2>4
  <1>3. QED BY <1>1, <1>2, LockSafe, PTL DEF Spec, PatchesAtomically, LockScreen!Spec
-----------------------------------------------------------------------------
(***************************************************************************)
(* How far a run has come: the groups and files behind it are in place or  *)
(* given up, so that when it is over all of them are; and on a settled     *)
(* disk a run passes everything by.                                        *)
(***************************************************************************)
Restoring == {"compare", "copy", "symlink", "done"}

Good(f) == f \in failed \/ file[f] = "ours"
LockInPlace == \A h \in Hunks : lock[h] # "old"

RunInv ==
    /\ pc \in LockSteps \cup Restoring \cup {"off"}
    /\ k \in Nat \ {0} /\ group \in {"lock", "maliit", "ucm"}
    /\ pc \in LockSteps => group = "lock"
    /\ pc \in Restoring => "lock" \in failed \/ LockInPlace
    /\ pc \in {"compare", "copy"} =>
          /\ group # "lock"
          /\ \A i \in 1..Len(MALIIT_TARGETS) :
                (group = "ucm" \/ i < k) /\ MALIIT_TARGETS[i] \in Stash => Good(MALIIT_TARGETS[i])
          /\ \A i \in 1..Len(UCM_FILES) :
                group = "ucm" /\ i < k /\ UCM_FILES[i] \in Stash => Good(UCM_FILES[i])
    /\ pc = "copy" => k <= Len(Targets) /\ file[Targets[k]] # "ours"
    /\ pc \in {"symlink", "done"} => \A f \in Files \cap Stash : Good(f)
    /\ pc = "done" => "link" \in failed \/ link = "ours"
    /\ file \in [Files -> {"ours", "stock", "absent", "torn"}]

SettledInv ==
    settled => /\ LockInPlace /\ link = "ours"
               /\ \A f \in Files \cap Stash : file[f] = "ours"
               /\ pc \in {"off", "done", "lock", "compare"}
               /\ pc \in {"lock", "compare"} => ~restored

LEMMA FileFacts ==
    /\ Len(MALIIT_TARGETS) \in Nat /\ Len(UCM_FILES) \in Nat
    /\ \A i \in 1..Len(MALIIT_TARGETS) : MALIIT_TARGETS[i] \in Files
    /\ \A i \in 1..Len(UCM_FILES) : UCM_FILES[i] \in Files
    /\ \A f \in Files : \/ \E i \in 1..Len(MALIIT_TARGETS) : f = MALIIT_TARGETS[i]
                        \/ \E i \in 1..Len(UCM_FILES) : f = UCM_FILES[i]
  BY PackagesAssumption DEF Files, Elements

LEMMA TargetFacts ==
    ASSUME group \in {"maliit", "ucm"}, k \in Nat \ {0}, k <= Len(Targets)
    PROVE  Targets[k] \in Files
  BY FileFacts DEF Targets

LEMMA LockLeft == ASSUME RunInv, LeaveLock, group = "lock", UNCHANGED disk,
                         failed \subseteq failed', "lock" \in failed' \/ LockInPlace
                  PROVE  RunInv'
  <1>1. /\ pc' = "compare" /\ group' = "maliit" /\ k' = 1 /\ file' = file /\ lock' = lock
    BY DEF LeaveLock, EndOfGroup, disk
  <1>2. \A i \in 1..Len(MALIIT_TARGETS) : ~(i < 1)
    BY FileFacts
  <1>3. QED BY <1>1, <1>2 DEF RunInv, Restoring, LockSteps, LockInPlace

LEMMA RunStep == LockInv /\ RunInv /\ [Next]_vars => RunInv'
  <1> SUFFICES ASSUME LockInv, RunInv, [Next]_vars PROVE RunInv'
    OBVIOUS
  <1> USE DEF RunInv, Restoring, LockSteps, LockInPlace
  <1>1. CASE patch_lockscreen
    <2>1. CASE LeaveLock
      <3>1. lock = Absent \/ Marked(lock) \/ Patched[lock] = lock
        BY <1>1, <2>1 DEF patch_lockscreen, LeaveLock
      <3>2. LockInPlace
        <4>1. lock \in Whole
          BY PackagedFacts, PatchedFacts DEF LockInv
        <4>2. ASSUME Marked(lock) PROVE LockInPlace
          <5>1. lock \notin Packaged
            BY <4>2, PackagedFacts DEF Marked
          <5>2. PICK t \in Packaged : lock = Patched[t]
            BY <5>1 DEF LockInv
          <5>3. QED BY <5>2, PackagedFacts, PatchedFacts
        <4>3. QED BY <3>1, <4>1, <4>2, PackagedFacts, PatchedFacts
      <3>3. QED BY <1>1, <2>1, <3>2, LockLeft DEF patch_lockscreen
    <2>2. CASE ~LeaveLock
      BY <1>1, <2>2 DEF patch_lockscreen, disk
    <2>3. QED BY <2>1, <2>2
  <1>2. CASE Backup
    BY <1>2 DEF Backup
  <1>3. CASE WriteTmp
    BY <1>3 DEF WriteTmp
  <1>4. CASE Replace
    <2>1. lock' = Patched[lock] /\ lock \in Whole
      BY <1>4, PackagedFacts DEF Replace, LockInv, Writing
    <2>2. LockInPlace'
      BY <2>1, PatchedFacts
    <2>3. \A i \in 1..Len(MALIIT_TARGETS) : ~(i < 1)
      BY FileFacts
    <2>4. QED BY <1>4, <2>2, <2>3 DEF Replace
  <1>5. CASE LockFails
    BY <1>5, LockLeft DEF LockFails
  <1>6. CASE Compare
    <2> DEFINE f == Targets[k]
    <2>1. /\ pc = "compare" /\ group \in {"maliit", "ucm"} /\ k <= Len(Targets)
          /\ UNCHANGED <<lock, link, group>>
      BY <1>6 DEF Compare
    <2>2. f \in Files
      BY <2>1, TargetFacts
    <2>3. CASE pc' = "copy"
      <3>1. /\ file[f] # "ours" /\ file' = [file EXCEPT ![f] = "torn"]
            /\ UNCHANGED <<k, failed>>
        BY <1>6, <2>3 DEF Compare, NextFile
      <3>2. \A g \in Files : Good(g) => Good(g)'
        BY <3>1, <2>2 DEF Good
      <3>3. QED BY <2>1, <2>2, <2>3, <3>1, <3>2, FileFacts DEF Targets
    <2>4. CASE pc' # "copy"
      <3>1. /\ pc' = "compare" /\ k' = k + 1 /\ file' = file /\ failed \subseteq failed'
            /\ f \in Stash => f \in failed' \/ file'[f] = "ours"
        BY <1>6, <2>4 DEF Compare, NextFile
      <3>2. \A g \in Files : Good(g) => Good(g)'
        BY <3>1 DEF Good
      <3>3. QED BY <2>1, <3>1, <3>2, FileFacts DEF Targets, Good
    <2>5. QED BY <2>3, <2>4
  <1>7. CASE Copy
    <2> DEFINE f == Targets[k]
    <2>1. /\ pc = "copy" /\ group \in {"maliit", "ucm"} /\ k <= Len(Targets)
          /\ pc' = "compare" /\ k' = k + 1 /\ UNCHANGED <<lock, link, group>>
      BY <1>7 DEF Copy, NextFile
    <2>2. f \in Files
      BY <2>1, TargetFacts
    <2>3. /\ \E left \in {"torn", "ours"} : file' = [file EXCEPT ![f] = left]
          /\ failed \subseteq failed' /\ file[f] # "ours"
      BY <1>7 DEF Copy
    <2>4. f \in failed' \/ file'[f] = "ours"
      BY <1>7, <2>2 DEF Copy
    <2>5. \A g \in Files : Good(g) => Good(g)'
      BY <2>2, <2>3 DEF Good
    <2>6. file' \in [Files -> {"ours", "stock", "absent", "torn"}]
      BY <2>3
    <2>7. QED BY <2>1, <2>3, <2>4, <2>5, <2>6, FileFacts DEF Targets, Good
  <1>8. CASE MaliitDone
    <2>1. /\ pc' = "compare" /\ group' = "ucm" /\ k' = 1 /\ UNCHANGED <<file, lock, link, failed>>
          /\ k > Len(MALIIT_TARGETS) /\ group = "maliit"
      BY <1>8 DEF MaliitDone, EndOfGroup, disk, Targets
    <2>2. \A i \in 1..Len(MALIIT_TARGETS) : i < k
      BY <2>1, FileFacts
    <2>3. \A i \in 1..Len(UCM_FILES) : ~(i < 1)
      BY FileFacts
    <2>4. (\A i \in 1..Len(MALIIT_TARGETS) :
               MALIIT_TARGETS[i] \in Stash => Good(MALIIT_TARGETS[i]))'
      BY <1>8, <2>1, <2>2 DEF MaliitDone, Good
    <2>5. pc = "compare"
      BY <1>8 DEF MaliitDone
    <2>6. QED BY <2>1, <2>3, <2>4, <2>5
  <1>9. CASE Unlink
    <2>1. /\ pc = "compare" /\ group = "ucm" /\ k > Len(UCM_FILES)
          /\ UNCHANGED <<lock, file>> /\ failed \subseteq failed'
      BY <1>9 DEF Unlink, Targets, Finish
    <2>2. \A f \in Files \cap Stash : Good(f)
      BY <2>1, FileFacts
    <2>3. (\A f \in Files \cap Stash : Good(f))'
      BY <2>1, <2>2 DEF Good
    <2>4. /\ pc' \in {"symlink", "done"} /\ group' = "ucm" /\ k' \in {1, k}
          /\ pc' = "done" => "link" \in failed' \/ link' = "ours"
      BY <1>9, <2>1 DEF Unlink, Finish, EndOfGroup
    <2>5. QED BY <2>1, <2>3, <2>4
  <1>10. CASE Symlink
    <2>1. /\ pc = "symlink" /\ pc' = "done" /\ UNCHANGED <<lock, file, group, k>>
          /\ failed \subseteq failed' /\ ("link" \in failed' \/ link' = "ours")
      BY <1>10 DEF Symlink, Finish
    <2>2. (\A f \in Files \cap Stash : Good(f))'
      BY <2>1 DEF Good
    <2>3. QED BY <2>1, <2>2
  <1>11. CASE Boot
    BY <1>11 DEF Boot, disk
  <1>12. CASE PowerCut
    BY <1>12 DEF PowerCut, disk
  <1>13. CASE Upgrade
    BY <1>13 DEF Upgrade, Overwritten
  <1>14. CASE UNCHANGED vars
    BY <1>14 DEF vars, disk, Good, Targets
  <1>15. QED BY <1>1, <1>2, <1>3, <1>4, <1>5, <1>6, <1>7, <1>8, <1>9, <1>10, <1>11, <1>12,
                <1>13, <1>14 DEF Next, main

(* When a run is over, what it gave up is all that may be out of place.     *)
LEMMA RunOver == RunInv => DoneInPlace
  <1>1. \A f \in Files \cap Stash : f # "lock" /\ f # "link"
    BY NamesAssumption
  <1>2. QED BY <1>1 DEF RunInv, Restoring, LockInPlace, Good, DoneInPlace, Items, InPlace

LEMMA SettledStep ==
    ASSUME LockInv, RunInv, SettledInv, [Next]_vars, RunInv'
    PROVE  SettledInv' /\ (settled /\ settled' => UNCHANGED disk /\ (changed' => changed))
  <1> USE DEF SettledInv, LockInPlace
  <1>1. CASE settled /\ main
    <2>1. lock \in Whole /\ Patched[lock] = lock
      BY <1>1, PackagedFacts, PatchedFacts DEF LockInv
    <2>2. CASE patch_lockscreen \/ LockFails
      <3>1. LeaveLock /\ UNCHANGED disk /\ group = "lock" /\ UNCHANGED settled /\ pc = "lock"
        BY <1>1, <2>1, <2>2 DEF patch_lockscreen, LockFails, RunInv, LockSteps
      <3>2. QED BY <1>1, <3>1 DEF LeaveLock, EndOfGroup, disk
    <2>3. CASE Compare
      <3>1. Targets[k] \in Stash => file[Targets[k]] = "ours"
        BY <1>1, <2>3, TargetFacts DEF Compare, RunInv
      <3>2. UNCHANGED <<disk, restored, changed, settled>> /\ pc' = "compare" /\ pc = "compare"
        BY <2>3, <3>1 DEF Compare, NextFile, disk
      <3>3. QED BY <1>1, <3>2 DEF disk
    <2>4. CASE MaliitDone
      BY <1>1, <2>4 DEF MaliitDone, EndOfGroup, disk
    <2>5. CASE Unlink
      BY <1>1, <2>5 DEF Unlink, Finish, EndOfGroup, disk
    <2>6. CASE Backup \/ WriteTmp \/ Replace \/ Copy \/ Symlink
      BY <1>1, <2>6 DEF Backup, WriteTmp, Replace, Copy, Symlink
    <2>7. QED BY <1>1, <2>2, <2>3, <2>4, <2>5, <2>6 DEF main
  <1>2. CASE ~settled /\ main
    <2>1. settled' => pc' = "done" /\ failed' = {}
      BY <1>2 DEF main, patch_lockscreen, Backup, WriteTmp, Replace, LockFails, Compare, Copy,
                  MaliitDone, Unlink, Symlink, Finish
    <2>2. ASSUME pc' = "done", failed' = {}
          PROVE  (/\ LockInPlace /\ link = "ours"
                  /\ \A f \in Files \cap Stash : file[f] = "ours")'
      BY <2>2 DEF RunInv, Restoring, Good
    <2>3. QED BY <1>2, <2>1, <2>2
  <1>3. CASE Boot
    BY <1>3 DEF Boot, disk
  <1>4. CASE PowerCut
    BY <1>4 DEF PowerCut, disk
  <1>5. CASE Upgrade
    BY <1>5 DEF Upgrade
  <1>6. CASE UNCHANGED vars
    BY <1>6 DEF vars, disk
  <1>7. QED BY <1>1, <1>2, <1>3, <1>4, <1>5, <1>6 DEF Next

LEMMA RunSafe == Spec => [](RunInv /\ SettledInv)
  <1>1. Init => RunInv /\ SettledInv
    BY DEF Init, RunInv, SettledInv, LockSteps, Restoring
  <1>2. LockInv /\ RunInv /\ SettledInv /\ [Next]_vars => (RunInv /\ SettledInv)'
    BY RunStep, SettledStep
  <1>3. QED BY <1>1, <1>2, LockSafe, PTL DEF Spec

(* A run that is over has put everything back but what it gave up.          *)
THEOREM RunPutsBack == Spec => []DoneInPlace
  BY RunOver, RunSafe, PTL

(* Once a run has failed nothing, later ones write nothing until a package  *)
(* changes something.                                                       *)
THEOREM SafeToRepeat == Spec => SettledIsIdle
  <1>1. LockInv /\ RunInv /\ SettledInv /\ [Next]_vars =>
          [settled /\ settled' => UNCHANGED disk /\ (changed' => changed)]_vars
    BY RunStep, SettledStep
  <1>2. QED BY <1>1, LockSafe, RunSafe, PTL DEF Spec, SettledIsIdle
-----------------------------------------------------------------------------
(***************************************************************************)
(* tabs6-kernel.  The steps of the two commands, by number.                *)
(***************************************************************************)
Contents == Builds \cup {"absent", "torn"}
KeptPlaces == {"Image-lastgood", "dtb-lastgood", "mods-lastgood"}
BrokenPlaces == {"Image-broken", "dtb-broken", "mods-broken"}

LEMMA PlaceNames ==
    /\ Places = Installed \cup KeptPlaces \cup BrokenPlaces
    /\ Installed \cap KeptPlaces = {}
    /\ Kept("Image") = "Image-lastgood" /\ Kept("dtb") = "dtb-lastgood"
    /\ Kept("mods") = "mods-lastgood"
    /\ Broken("Image") = "Image-broken" /\ Broken("dtb") = "dtb-broken"
    /\ Broken("mods") = "mods-broken"
  <1>1. /\ Kept("Image") = "Image-lastgood" /\ Kept("dtb") = "dtb-lastgood"
        /\ Kept("mods") = "mods-lastgood"
    BY DEF Kept
  <1>2. /\ Broken("Image") = "Image-broken" /\ Broken("dtb") = "dtb-broken"
        /\ Broken("mods") = "mods-broken"
    BY DEF Broken
  <1>3. Places = Installed \cup {Kept(s) : s \in Installed} \cup {Broken(s) : s \in Installed}
    BY DEF Places
  <1>4. {Kept(s) : s \in Installed} = KeptPlaces
    BY <1>1 DEF Installed, KeptPlaces
  <1>5. {Broken(s) : s \in Installed} = BrokenPlaces
    BY <1>2 DEF Installed, BrokenPlaces
  <1>6. QED BY <1>1, <1>2, <1>3, <1>4, <1>5 DEF Installed, KeptPlaces

LEMMA SnapshotSteps ==
    /\ Len(snapshot) = 5
    /\ snapshot[1] = cp("Image", "Image-lastgood") /\ snapshot[2] = cp("dtb", "dtb-lastgood")
    /\ snapshot[3] = Sync
    /\ snapshot[4] = rm("mods-lastgood") /\ snapshot[5] = cp("mods", "mods-lastgood")
  BY DEF snapshot

Back == << cp("Image", "Image-broken"), cp_or_true("dtb", "dtb-broken"),
           cp("Image-lastgood", "Image"), cp("dtb-lastgood", "dtb"), Sync >>

LEMMA RollbackSteps ==
    /\ rollback = Back \o (IF place["mods-lastgood"] # "absent" THEN Modules ELSE <<>>)
    /\ Len(rollback) = IF place["mods-lastgood"] # "absent" THEN 9 ELSE 5
    /\ rollback[1] = cp("Image", "Image-broken")
    /\ rollback[2] = cp_or_true("dtb", "dtb-broken")
    /\ rollback[3] = cp("Image-lastgood", "Image")
    /\ rollback[4] = cp("dtb-lastgood", "dtb")
    /\ rollback[5] = Sync
    /\ place["mods-lastgood"] # "absent" =>
        /\ rollback[6] = rm("mods-broken") /\ rollback[7] = mv("mods", "mods-broken")
        /\ rollback[8] = cp("mods-lastgood", "mods") /\ rollback[9] = Depmod
  <1>1. rollback = Back \o (IF place["mods-lastgood"] # "absent" THEN Modules ELSE <<>>)
    BY DEF rollback, Back
  <1>2. /\ Len(Back) = 5 /\ Back[1] = cp("Image", "Image-broken")
        /\ Back[2] = cp_or_true("dtb", "dtb-broken")
        /\ Back[3] = cp("Image-lastgood", "Image") /\ Back[4] = cp("dtb-lastgood", "dtb")
        /\ Back[5] = Sync
    BY DEF Back
  <1>3. /\ Len(Modules) = 4 /\ Modules[1] = rm("mods-broken")
        /\ Modules[2] = mv("mods", "mods-broken") /\ Modules[3] = cp("mods-lastgood", "mods")
        /\ Modules[4] = Depmod
    BY DEF Modules
  <1> DEFINE Steps == {Back[i] : i \in 1..5} \cup {Modules[i] : i \in 1..4}
  <1>4. Back \in Seq(Steps) /\ Modules \in Seq(Steps)
    BY DEF Back, Modules
  <1>5. CASE place["mods-lastgood"] # "absent"
    <2>1. rollback = Back \o Modules
      BY <1>1, <1>5
    <2>2. /\ Len(Back \o Modules) = 9
          /\ \A i \in 1..9 : (Back \o Modules)[i] = IF i <= 5 THEN Back[i] ELSE Modules[i - 5]
      <3> HIDE DEF Steps
      <3>1. /\ Len(Back \o Modules) = Len(Back) + Len(Modules)
            /\ \A i \in 1..(Len(Back) + Len(Modules)) :
                  (Back \o Modules)[i] = IF i <= Len(Back) THEN Back[i]
                                         ELSE Modules[i - Len(Back)]
        BY <1>4, ConcatProperties
      <3>2. Len(Back) = 5 /\ Len(Modules) = 4
        BY <1>2, <1>3
      <3>3. QED BY <3>1, <3>2
    <2>3. QED BY <1>1, <1>2, <1>3, <1>5, <2>1, <2>2
  <1>6. CASE place["mods-lastgood"] = "absent"
    <2>1. rollback = Back
      BY <1>1, <1>4, <1>6
    <2>2. QED BY <1>1, <1>2, <1>6, <2>1
  <1>7. QED BY <1>5, <1>6

\* All of them, once there are modules to put back.
LEMMA FullSteps ==
    ASSUME place["mods-lastgood"] # "absent"
    PROVE  /\ Len(rollback) = 9
           /\ rollback[1] = cp("Image", "Image-broken")
           /\ rollback[2] = cp_or_true("dtb", "dtb-broken")
           /\ rollback[3] = cp("Image-lastgood", "Image")
           /\ rollback[4] = cp("dtb-lastgood", "dtb")
           /\ rollback[5] = Sync
           /\ rollback[6] = rm("mods-broken") /\ rollback[7] = mv("mods", "mods-broken")
           /\ rollback[8] = cp("mods-lastgood", "mods") /\ rollback[9] = Depmod
  BY RollbackSteps
-----------------------------------------------------------------------------
(***************************************************************************)
(* A command that has come this far has done that much.  An intact         *)
(* snapshot is there whole until the next one begins; while the kept set   *)
(* does not boot, what is installed does, or a rollback has been made from *)
(* such a set.  What of the ESP is not yet on the disk is never the set    *)
(* that the running command copies from.                                   *)
(***************************************************************************)
Boots == place["Image"] \in Builds /\ place["dtb"] = place["Image"]
KeptBoots ==
    /\ place["Image-lastgood"] \in Builds
    /\ place["dtb-lastgood"] = place["Image-lastgood"]

SnapshotInv ==
    cmd = "snapshot" =>
        /\ ip \in 1..6 /\ ~intact /\ good \in Builds
        /\ \A s \in Installed : place[s] = good
        /\ ip > 1 => place["Image-lastgood"] = good
        /\ ip > 2 => place["dtb-lastgood"] = good
        /\ ip > 5 => place["mods-lastgood"] = good

RollbackInv ==
    cmd = "rollback" /\ intact =>
        /\ ip \in 1..10
        /\ ip = 1 => place["Image"] = before["Image"]
        /\ ip > 1 => place["Image-broken"] = before["Image"]
        /\ ip > 3 => place["Image"] = good
        /\ ip > 4 => place["dtb"] = good
        /\ ip < 8 => place["mods"] = before["mods"]
        /\ ip > 7 => place["mods-broken"] = before["mods"]
        /\ ip > 8 => place["mods"] = good

Restored ==
    done = "rollback" /\ intact =>
        /\ \A s \in Installed : place[s] = good
        /\ place["Image-broken"] = before["Image"] /\ place["mods-broken"] = before["mods"]

\* A power cut leaves this place as it is.
Sure(p) == cut[p] = {place[p]}

CutInv ==
    /\ cut \in [Places -> SUBSET Contents]
    /\ cmd = "none" => \A p \in Esp : Sure(p)
    /\ cmd = "snapshot" => Sure("Image") /\ Sure("dtb")
    /\ cmd = "rollback" => Sure("Image-lastgood") /\ Sure("dtb-lastgood")

\* What holds whatever runs.
RestInv ==
    /\ place \in [Places -> Contents] /\ half \in BOOLEAN /\ ip \in Nat \ {0}
    /\ cmd \in {"none", "snapshot", "rollback"}
    /\ cmd = "none" => ip = 1 /\ ~half
    /\ cmd # "none" => done = "none"
    /\ intact => good \in Builds /\ \A p \in KeptPlaces : place[p] = good
    /\ cmd = "rollback" => spoiled \/ KeptBoots
    /\ spoiled \/ KeptBoots \/ Boots

KernelInv == RestInv /\ CutInv /\ SnapshotInv /\ RollbackInv /\ Restored

LEMMA EspPlaces ==
    /\ {"Image", "dtb", "Image-lastgood", "dtb-lastgood"} \subseteq Esp
    /\ Esp = Places \ {"mods", "mods-lastgood", "mods-broken"}
  BY PlaceNames DEF Esp, Images, Installed, KeptPlaces, BrokenPlaces

\* The places the current step writes.
Touched ==
    IF Step.do \in {"sync", "depmod"} THEN {}
    ELSE IF Step.do = "mv" THEN {Step.from, Step.to} ELSE {Step.to}

\* Every step of a command is one of a few, and neither command touches the set
\* it copies from.
LEMMA StepFacts ==
    ASSUME cmd \in {"snapshot", "rollback"}, ip \in Nat \ {0}, ip <= Len(Script)
    PROVE  /\ Step.from \in Places /\ Step.to \in Places
           /\ cmd = "snapshot" => Touched \subseteq KeptPlaces
           /\ cmd = "rollback" => Touched \cap KeptPlaces = {}
  <1>1. CASE cmd = "snapshot"
    <2>0. Script = snapshot
      BY <1>1 DEF Script
    <2>1. ip \in 1..5
      BY <2>0, SnapshotSteps
    <2>2. Step \in {cp("Image", "Image-lastgood"), cp("dtb", "dtb-lastgood"), Sync,
                    rm("mods-lastgood"), cp("mods", "mods-lastgood")}
      BY <2>0, <2>1, SnapshotSteps DEF Step
    <2>3. QED
      BY <1>1, <2>2, PlaceNames DEF cp, rm, Sync, KeptPlaces, Installed, Touched
  <1>2. CASE cmd = "rollback"
    <2>1. Script = rollback
      BY <1>2 DEF Script
    <2>2. Step \in {cp("Image", "Image-broken"), cp_or_true("dtb", "dtb-broken"),
                    cp("Image-lastgood", "Image"), cp("dtb-lastgood", "dtb"), Sync,
                    rm("mods-broken"), mv("mods", "mods-broken"),
                    cp("mods-lastgood", "mods"), Depmod}
      <3>1. CASE place["mods-lastgood"] # "absent"
        <4>0. Len(rollback) = 9
          BY <3>1, FullSteps
        <4>1. ip \in 1..9 /\ Step = rollback[ip]
          BY <2>1, <4>0 DEF Step
        <4>2. \A i \in 1..9 : i = 1 \/ i = 2 \/ i = 3 \/ i = 4 \/ i = 5 \/ i = 6 \/ i = 7
                               \/ i = 8 \/ i = 9
          OBVIOUS
        <4>3. QED BY <3>1, <4>1, <4>2, FullSteps
      <3>2. CASE place["mods-lastgood"] = "absent"
        <4>0. Len(rollback) = 5
          BY <3>2, RollbackSteps
        <4>1. ip \in 1..5
          BY <2>1, <4>0
        <4>2. QED BY <2>1, <3>2, <4>1, RollbackSteps DEF Step
      <3>3. QED BY <3>1, <3>2
    <2>3. QED
      BY <1>2, <2>2, PlaceNames
      DEF cp, cp_or_true, rm, mv, Sync, Depmod, KeptPlaces, BrokenPlaces, Installed, Touched
  <1>3. QED BY <1>1, <1>2

\* What a step of a command leaves where it was.
LEMMA StepEffect ==
    ASSUME RestInv, CutInv, Begin \/ End
    PROVE  /\ place' \in [Places -> Contents] /\ cut' \in [Places -> SUBSET Contents]
           /\ \A p \in Places \ Touched : place'[p] = place[p]
           /\ \A p \in Places \ (Touched \cup {"mods"}) : Sure(p) => Sure(p)'
  <1>1. cmd \in {"snapshot", "rollback"} /\ ip <= Len(Script) /\ ip \in Nat \ {0}
    BY DEF RestInv, Begin, End, Running
  <1>2. place \in [Places -> Contents] /\ Step.from \in Places /\ Step.to \in Places
    BY <1>1, StepFacts DEF RestInv
  <1>3. place[Step.from] \in Contents /\ "absent" \in Contents /\ "torn" \in Contents
    BY <1>2 DEF Contents
  <1>4. cut \in [Places -> SUBSET Contents]
    BY DEF CutInv
  <1>5. ASSUME NEW v \in Contents, Write(Step.to, v),
               Step.do \notin {"sync", "depmod", "mv"}
        PROVE  /\ place' \in [Places -> Contents] /\ cut' \in [Places -> SUBSET Contents]
               /\ \A p \in Places \ Touched : place'[p] = place[p] /\ cut'[p] = cut[p]
    BY <1>2, <1>4, <1>5 DEF Write, Touched
  <1>6. CASE Begin \/ (End /\ (CopyEnds \/ RemoveEnds))
    <2>1. PICK v \in Contents : Write(Step.to, v)
      BY <1>3, <1>6 DEF Begin, CopyEnds, RemoveEnds
    <2>2. Step.do \notin {"sync", "depmod", "mv"}
      BY <1>6 DEF Begin, CopyEnds, RemoveEnds
    <2>3. QED BY <1>5, <2>1, <2>2 DEF Sure
  <1>7. CASE End /\ Move
    <2>1. Touched = {Step.from, Step.to}
      BY <1>7 DEF Move, Touched
    <2>2. place' \in [Places -> Contents] /\ \A p \in Places \ Touched : place'[p] = place[p]
      BY <1>2, <1>3, <1>7, <2>1 DEF Move
    <2>3. /\ cut' \in [Places -> SUBSET Contents]
          /\ \A p \in Places \ Touched : cut'[p] = cut[p]
      <3>1. cut' = [cut EXCEPT ![Step.to] = @ \cup cut[Step.from],
                               ![Step.from] = @ \cup {"absent"}]
        BY <1>7 DEF Move
      <3>2. QED BY <1>2, <1>3, <1>4, <2>1, <3>1
    <2>4. QED BY <2>2, <2>3 DEF Sure
  <1>8. CASE End /\ (SyncEnds \/ DepmodEnds \/ NothingToDo)
    <2>1. CASE SyncEnds
      BY <1>2, <2>1 DEF SyncEnds, Synced, Sure
    <2>2. CASE DepmodEnds
      BY <1>2, <1>3, <1>4, <2>2 DEF DepmodEnds, Sure
    <2>3. CASE NothingToDo
      BY <1>2, <1>4, <2>3 DEF NothingToDo, files, Sure
    <2>4. QED BY <1>8, <2>1, <2>2, <2>3
  <1>9. QED BY <1>6, <1>7, <1>8 DEF End
-----------------------------------------------------------------------------
(***************************************************************************)
(* The steps of tabs6-kernel.                                              *)
(***************************************************************************)

\* What a copy leaves, and where a step that begins or ends goes on.
LEMMA Copied ==
    ASSUME RestInv, End, Step.do = "cp", Step.to \in Places
    PROVE  place'[Step.to] = place[Step.from]
  <1>1. place' = [place EXCEPT ![Step.to] = place[Step.from]]
    BY DEF End, CopyEnds, RemoveEnds, Write, Move, SyncEnds, DepmodEnds, NothingToDo
  <1>2. QED BY <1>1 DEF RestInv

LEMMA Begins == Begin => ip' = ip /\ Step.do \in {"cp", "cp_or_true", "rm"}
  BY DEF Begin

LEMMA Ends == End => ip' = ip + 1
  BY DEF End, Pass

LEMMA CommandRest ==
    ASSUME KernelInv, Begin \/ End
    PROVE  RestInv' /\ CutInv' /\ Restored' /\ UNCHANGED <<cmd, good, intact, before, done>>
  <1>1. /\ cmd \in {"snapshot", "rollback"} /\ ip <= Len(Script) /\ done = "none"
        /\ ip' \in {ip, ip + 1} /\ half' \in BOOLEAN
    <2>1. half' = TRUE \/ half' = FALSE
      BY DEF Begin, End, Pass
    <2>2. half' \in BOOLEAN
      BY <2>1
    <2>3. QED BY <2>2 DEF KernelInv, RestInv, Begin, End, Pass, Running
  <1>2. UNCHANGED <<cmd, good, intact, before, done, spoiled>>
    BY DEF Begin, End, Pass
  <1>3. ip' \in Nat \ {0}
    BY <1>1 DEF KernelInv, RestInv
  <1>4. /\ cmd = "snapshot" => Touched \subseteq KeptPlaces
        /\ cmd = "rollback" => Touched \cap KeptPlaces = {}
    BY <1>1, StepFacts DEF KernelInv, RestInv
  <1>5. /\ cmd = "rollback" => \A p \in KeptPlaces : place'[p] = place[p]
        /\ cmd = "snapshot" => \A p \in Installed : place'[p] = place[p]
    <2>1. \A p \in Places \ Touched : place'[p] = place[p]
      BY StepEffect DEF KernelInv
    <2>2. QED BY <1>4, <2>1, PlaceNames
  <1>6. intact => good \in Builds /\ \A p \in KeptPlaces : place'[p] = good
    <2>1. intact => cmd = "rollback"
      BY <1>1 DEF KernelInv, SnapshotInv
    <2>2. QED BY <1>5, <2>1 DEF KernelInv, RestInv
  <1>7. cmd = "rollback" => spoiled \/ KeptBoots'
    BY <1>5 DEF KernelInv, RestInv, KeptBoots, KeptPlaces
  <1>8. cmd = "snapshot" => Boots'
    BY <1>5 DEF KernelInv, SnapshotInv, Boots, Installed
  <1>9. RestInv'
    <2>1. place' \in [Places -> Contents]
      BY StepEffect DEF KernelInv
    <2>2. QED BY <1>1, <1>2, <1>3, <1>6, <1>7, <1>8, <2>1 DEF RestInv
  <1>10. CutInv'
    <2>1. /\ cut' \in [Places -> SUBSET Contents]
          /\ \A p \in Places \ (Touched \cup {"mods"}) : Sure(p) => Sure(p)'
      BY StepEffect DEF KernelInv
    <2>2. CASE cmd = "snapshot"
      <3>1. {"Image", "dtb"} \subseteq Places \ (Touched \cup {"mods"})
        BY <1>4, <2>2, PlaceNames DEF Installed, KeptPlaces
      <3>2. QED BY <1>2, <2>1, <2>2, <3>1 DEF KernelInv, CutInv
    <2>3. CASE cmd = "rollback"
      <3>1. {"Image-lastgood", "dtb-lastgood"} \subseteq Places \ (Touched \cup {"mods"})
        BY <1>4, <2>3, PlaceNames DEF KeptPlaces
      <3>2. QED BY <1>2, <2>1, <2>3, <3>1 DEF KernelInv, CutInv
    <2>4. QED BY <1>1, <2>2, <2>3
  <1>11. QED BY <1>1, <1>2, <1>9, <1>10 DEF Restored

LEMMA SnapshotStep ==
    ASSUME KernelInv, Begin \/ End, cmd = "snapshot"
    PROVE  SnapshotInv'
  <1>1. UNCHANGED <<cmd, good, intact>> /\ good \in Builds /\ ~intact
    BY CommandRest DEF KernelInv, SnapshotInv
  <1>2. ip \in 1..5 /\ Step = snapshot[ip]
    <2>1. Script = snapshot
      BY DEF Script
    <2>2. ip <= 5
      BY <2>1, SnapshotSteps DEF Begin, End, Running
    <2>3. QED BY <2>1, <2>2 DEF KernelInv, SnapshotInv, Step
  <1>3. \A p \in Places \ Touched : place'[p] = place[p]
    BY StepEffect DEF KernelInv
  <1>4. \A p \in Installed : place'[p] = good
    <2>1. Touched \subseteq KeptPlaces
      BY StepFacts DEF KernelInv, RestInv, Begin, End, Running
    <2>2. QED BY <1>3, <2>1, PlaceNames DEF KernelInv, SnapshotInv
  <1>5. ip' = ip \/ (End /\ ip' = ip + 1)
    BY Begins, Ends
  <1>6. KeptPlaces \subseteq Places
    BY PlaceNames
  <1>7. CASE ip = 1
    <2>1. Step.do = "cp" /\ Step.from = "Image" /\ Step.to = "Image-lastgood"
      BY <1>2, <1>7, SnapshotSteps DEF cp
    <2>2. End => place'["Image-lastgood"] = good
      <3>1. End => place'[Step.to] = place[Step.from]
        BY <1>6, <2>1, Copied DEF KernelInv, KeptPlaces
      <3>2. QED BY <2>1, <3>1 DEF KernelInv, SnapshotInv, Installed
    <2>3. QED BY <1>1, <1>4, <1>5, <1>7, <2>2 DEF SnapshotInv
  <1>8. CASE ip = 2
    <2>1. Step.do = "cp" /\ Step.from = "dtb" /\ Step.to = "dtb-lastgood"
      BY <1>2, <1>8, SnapshotSteps DEF cp
    <2>2. End => place'["dtb-lastgood"] = good
      <3>1. End => place'[Step.to] = place[Step.from]
        BY <1>6, <2>1, Copied DEF KernelInv, KeptPlaces
      <3>2. QED BY <2>1, <3>1 DEF KernelInv, SnapshotInv, Installed
    <2>3. place'["Image-lastgood"] = good
      BY <1>3, <1>6, <1>8, <2>1 DEF Touched, KernelInv, SnapshotInv, KeptPlaces
    <2>4. QED BY <1>1, <1>4, <1>5, <1>8, <2>2, <2>3 DEF SnapshotInv
  <1>9. CASE ip \in {3, 4}
    <2>1. "Image-lastgood" \notin Touched /\ "dtb-lastgood" \notin Touched
      BY <1>2, <1>9, SnapshotSteps DEF Sync, rm, Touched
    <2>2. place'["Image-lastgood"] = good /\ place'["dtb-lastgood"] = good
      BY <1>3, <1>6, <1>9, <2>1 DEF KernelInv, SnapshotInv, KeptPlaces
    <2>3. QED BY <1>1, <1>4, <1>5, <1>9, <2>2 DEF SnapshotInv
  <1>10. CASE ip = 5
    <2>1. Step.do = "cp" /\ Step.from = "mods" /\ Step.to = "mods-lastgood"
      BY <1>2, <1>10, SnapshotSteps DEF cp
    <2>2. End => place'["mods-lastgood"] = good
      <3>1. End => place'[Step.to] = place[Step.from]
        BY <1>6, <2>1, Copied DEF KernelInv, KeptPlaces
      <3>2. QED BY <2>1, <3>1 DEF KernelInv, SnapshotInv, Installed
    <2>3. place'["Image-lastgood"] = good /\ place'["dtb-lastgood"] = good
      BY <1>3, <1>6, <1>10, <2>1 DEF Touched, KernelInv, SnapshotInv, KeptPlaces
    <2>4. QED BY <1>1, <1>4, <1>5, <1>10, <2>2, <2>3 DEF SnapshotInv
  <1>11. QED BY <1>2, <1>7, <1>8, <1>9, <1>10

LEMMA RollbackStep ==
    ASSUME KernelInv, Begin \/ End, cmd = "rollback", intact
    PROVE  RollbackInv'
  <1>1. UNCHANGED <<cmd, good, intact, before>>
    BY CommandRest
  <1>2. /\ good \in Builds /\ place["Image-lastgood"] = good /\ place["dtb-lastgood"] = good
        /\ place["mods-lastgood"] = good /\ good # "absent"
    BY BuildsAssumption DEF KernelInv, RestInv, KeptPlaces
  <1>3. ip \in 1..9 /\ Step = rollback[ip]
    <2>1. Script = rollback
      BY DEF Script
    <2>2. Len(rollback) = 9
      BY <1>2, FullSteps
    <2>3. ip <= 9
      BY <2>1, <2>2 DEF Begin, End, Running
    <2>4. QED BY <2>1, <2>3 DEF KernelInv, RestInv, Step
  <1>4. \A p \in Places \ Touched : place'[p] = place[p]
    BY StepEffect DEF KernelInv
  <1>5. ip' = ip \/ (End /\ ip' = ip + 1)
    BY Begins, Ends
  <1>6. {"Image", "dtb", "mods", "Image-broken", "dtb-broken", "mods-broken"} \subseteq Places
    BY PlaceNames DEF Installed, BrokenPlaces
  <1>7. CASE ip = 1
    <2>1. Step.do = "cp" /\ Step.from = "Image" /\ Step.to = "Image-broken"
      BY <1>2, <1>3, <1>7, FullSteps DEF cp
    <2>2. End => place'["Image-broken"] = place["Image"]
      BY <1>6, <2>1, Copied DEF KernelInv
    <2>3. place'["Image"] = place["Image"] /\ place'["mods"] = place["mods"]
      BY <1>4, <1>6, <2>1 DEF Touched
    <2>4. QED BY <1>1, <1>5, <1>7, <2>2, <2>3 DEF KernelInv, RollbackInv
  <1>8. CASE ip = 2
    <2>1. Step.do = "cp_or_true" /\ Step.from = "dtb" /\ Step.to = "dtb-broken"
      BY <1>2, <1>3, <1>8, FullSteps DEF cp_or_true
    <2>2. \A p \in {"Image", "mods", "Image-broken"} : place'[p] = place[p]
      BY <1>4, <1>6, <2>1 DEF Touched
    <2>3. QED BY <1>1, <1>5, <1>8, <2>2 DEF KernelInv, RollbackInv
  <1>9. CASE ip = 3
    <2>1. Step.do = "cp" /\ Step.from = "Image-lastgood" /\ Step.to = "Image"
      BY <1>2, <1>3, <1>9, FullSteps DEF cp
    <2>2. End => place'["Image"] = good
      BY <1>2, <1>6, <2>1, Copied DEF KernelInv
    <2>3. \A p \in {"mods", "Image-broken"} : place'[p] = place[p]
      BY <1>4, <1>6, <2>1 DEF Touched
    <2>4. QED BY <1>1, <1>5, <1>9, <2>2, <2>3 DEF KernelInv, RollbackInv
  <1>10. CASE ip = 4
    <2>1. Step.do = "cp" /\ Step.from = "dtb-lastgood" /\ Step.to = "dtb"
      BY <1>2, <1>3, <1>10, FullSteps DEF cp
    <2>2. End => place'["dtb"] = good
      BY <1>2, <1>6, <2>1, Copied DEF KernelInv
    <2>3. \A p \in {"Image", "mods", "Image-broken"} : place'[p] = place[p]
      BY <1>4, <1>6, <2>1 DEF Touched
    <2>4. QED BY <1>1, <1>5, <1>10, <2>2, <2>3 DEF KernelInv, RollbackInv
  <1>11. CASE ip \in {5, 6}
    <2>1. Touched \subseteq {"mods-broken"}
      BY <1>2, <1>3, <1>11, FullSteps DEF Sync, rm, Touched
    <2>2. \A p \in {"Image", "dtb", "mods", "Image-broken"} : place'[p] = place[p]
      BY <1>4, <1>6, <2>1
    <2>3. QED BY <1>1, <1>5, <1>11, <2>2 DEF KernelInv, RollbackInv
  <1>12. CASE ip = 7
    <2>1. Step.do = "mv" /\ Step.from = "mods" /\ Step.to = "mods-broken"
      BY <1>2, <1>3, <1>12, FullSteps DEF mv
    <2>2. End /\ ip' = 8
      BY <1>12, <2>1, Begins, Ends
    <2>3. place' = [place EXCEPT !["mods-broken"] = place["mods"], !["mods"] = "absent"]
      BY <2>1, <2>2 DEF End, CopyEnds, RemoveEnds, Move, SyncEnds, DepmodEnds, NothingToDo
    <2>4. place'["mods-broken"] = before["mods"]
      BY <1>6, <1>12, <2>3 DEF KernelInv, RestInv, RollbackInv
    <2>5. \A p \in {"Image", "dtb", "Image-broken"} : place'[p] = place[p]
      BY <1>4, <1>6, <2>1 DEF Touched
    <2>6. QED BY <1>1, <1>12, <2>2, <2>4, <2>5 DEF KernelInv, RollbackInv
  <1>13. CASE ip = 8
    <2>1. Step.do = "cp" /\ Step.from = "mods-lastgood" /\ Step.to = "mods"
      BY <1>2, <1>3, <1>13, FullSteps DEF cp
    <2>2. End => place'["mods"] = good
      BY <1>2, <1>6, <2>1, Copied DEF KernelInv
    <2>3. \A p \in {"Image", "dtb", "Image-broken", "mods-broken"} : place'[p] = place[p]
      BY <1>4, <1>6, <2>1 DEF Touched
    <2>4. QED BY <1>1, <1>5, <1>13, <2>2, <2>3 DEF KernelInv, RollbackInv
  <1>14. CASE ip = 9
    <2>1. Touched = {}
      BY <1>2, <1>3, <1>14, FullSteps DEF Depmod, Touched
    <2>2. \A p \in {"Image", "dtb", "mods", "Image-broken", "mods-broken"} :
              place'[p] = place[p]
      BY <1>4, <1>6, <2>1
    <2>3. QED BY <1>1, <1>5, <1>14, <2>2 DEF KernelInv, RollbackInv
  <1>15. QED BY <1>3, <1>7, <1>8, <1>9, <1>10, <1>11, <1>12, <1>13, <1>14

LEMMA CommandStep ==
    ASSUME KernelInv, Begin \/ End
    PROVE  KernelInv'
  <1>1. RestInv' /\ CutInv' /\ Restored' /\ UNCHANGED <<cmd, good, intact, before, done>>
    BY CommandRest
  <1>2. SnapshotInv'
    BY <1>1, SnapshotStep DEF SnapshotInv
  <1>3. RollbackInv'
    BY <1>1, RollbackStep DEF RollbackInv
  <1>4. QED BY <1>1, <1>2, <1>3 DEF KernelInv

\* What unmounting the ESP leaves sure.
LEMMA Unmounted ==
    ASSUME RestInv, CutInv, Exit, UNCHANGED place
    PROVE  CutInv'
  <1>1. cmd' = "none" /\ cut' = [p \in Places |-> IF p \in Esp THEN {place[p]} ELSE cut[p]]
    BY DEF Exit
  <1>2. cut' \in [Places -> SUBSET Contents]
    BY <1>1 DEF RestInv, CutInv
  <1>3. \A p \in Esp : cut'[p] = {place'[p]}
    BY <1>1, EspPlaces
  <1>4. QED BY <1>1, <1>2, <1>3 DEF CutInv, Sure

\* A command that stops early.
LEMMA LeaveStep ==
    ASSUME KernelInv, Exit, cmd # "none", UNCHANGED <<place, done, intact, spoiled>>, Forget
    PROVE  KernelInv'
  <1>1. ip' = 1 /\ half' = FALSE /\ cmd' = "none" /\ done = "none"
        /\ (intact => good' = good)
    BY DEF Exit, Forget, KernelInv, RestInv
  <1>2. half' \in BOOLEAN /\ ~half'
    BY <1>1
  <1>3. RestInv'
    BY <1>1, <1>2 DEF KernelInv, RestInv, Boots, KeptBoots
  <1>4. QED BY <1>1, <1>3, Unmounted DEF KernelInv, SnapshotInv, RollbackInv, Restored

LEMMA FailStep ==
    ASSUME KernelInv, Fail
    PROVE  KernelInv'
  <1>1. CASE Exit /\ Forget
    BY <1>1, LeaveStep DEF Fail, Running
  <1>2. CASE Step.do = "cp_or_true" /\ Pass /\ UNCHANGED <<cut, good, before>>
    <2>1. /\ cmd \in {"snapshot", "rollback"} /\ ip \in Nat \ {0} /\ ip <= Len(Script)
          /\ UNCHANGED <<place, cmd, done, good, intact, before, spoiled>>
          /\ ip' = ip + 1 /\ half' = FALSE
      BY <1>2 DEF Fail, Pass, Running, KernelInv, RestInv
    <2>2. half' \in BOOLEAN
      BY <2>1
    <2>3. RestInv' /\ Restored' /\ CutInv'
      <3>1. RestInv'
        BY <2>1, <2>2 DEF KernelInv, RestInv, Boots, KeptBoots
      <3>2. Restored'
        BY <2>1 DEF KernelInv, RestInv, Restored
      <3>3. CutInv'
        BY <1>2, <2>1 DEF KernelInv, CutInv, Sure
      <3>4. QED BY <3>1, <3>2, <3>3
    <2>4. cmd = "rollback"
      <3>1. CASE cmd = "snapshot"
        <4>1. ip \in 1..5 /\ Step = snapshot[ip]
          <5>1. Script = snapshot
            BY <3>1 DEF Script
          <5>2. QED BY <2>1, <5>1, SnapshotSteps DEF Step
        <4>2. Step.do \in {"cp", "rm", "sync"}
          BY <4>1, SnapshotSteps DEF cp, rm, Sync
        <4>3. QED BY <1>2, <4>2
      <3>2. QED BY <2>1, <3>1
    <2>5. ASSUME intact PROVE RollbackInv'
      <3>1. place["mods-lastgood"] # "absent"
        BY <2>5, BuildsAssumption DEF KernelInv, RestInv, KeptPlaces
      <3>2. ip \in 1..9 /\ Step = rollback[ip]
        <4>1. Script = rollback /\ Len(rollback) = 9
          BY <2>4, <3>1, FullSteps DEF Script
        <4>2. QED BY <2>1, <4>1 DEF Step
      <3>3. ip = 2
        <4>1. \A i \in 1..9 : i # 2 => rollback[i].do # "cp_or_true"
          <5>1. \A i \in 1..9 : i # 2 => i = 1 \/ i \in {3, 4, 8} \/ i = 5 \/ i = 6
                                          \/ i = 7 \/ i = 9
            OBVIOUS
          <5>2. /\ rollback[1].do = "cp" /\ rollback[3].do = "cp" /\ rollback[4].do = "cp"
                /\ rollback[8].do = "cp"
            BY <3>1, FullSteps DEF cp
          <5>3. /\ rollback[5].do = "sync" /\ rollback[6].do = "rm"
                /\ rollback[7].do = "mv" /\ rollback[9].do = "depmod"
            BY <3>1, FullSteps DEF rm, mv, Sync, Depmod
          <5>4. QED BY <5>1, <5>2, <5>3
        <4>2. QED BY <1>2, <3>2, <4>1
      <3>4. QED BY <2>1, <3>3 DEF KernelInv, RollbackInv
    <2>6. QED BY <2>1, <2>3, <2>4, <2>5 DEF KernelInv, SnapshotInv, RollbackInv
  <1>3. QED BY <1>1, <1>2 DEF Fail

\* What Set says of the kept places and of the installed ones.
LEMMA Sets == (Set(Kept) <=> KeptBoots) /\ (Set(Itself) <=> Boots)
  BY PlaceNames DEF Set, Itself, IsBuild, Boots, KeptBoots

LEMMA StartStep ==
    ASSUME KernelInv, StartSnapshot \/ StartRollback
    PROVE  KernelInv'
  <1>1. UNCHANGED files /\ cmd = "none" /\ ip = 1 /\ ~half /\ UNCHANGED <<ip, half>>
        /\ \A p \in Esp : Sure(p)
    BY DEF StartSnapshot, StartRollback, KernelInv, RestInv, CutInv
  <1>2. CutInv'
    BY <1>1, EspPlaces DEF StartSnapshot, StartRollback, KernelInv, CutInv, Sure, files
  <1>3. CASE StartSnapshot
    <2>1. PICK b \in Builds : \A s \in Installed : place[s] = b
      BY <1>3 DEF StartSnapshot
    <2>2. /\ cmd' = "snapshot" /\ done' = "none" /\ good' = b /\ intact' = FALSE
          /\ UNCHANGED <<place, spoiled>>
      BY <1>1, <1>3, <2>1 DEF StartSnapshot, Installed, files
    <2>3. RestInv'
      BY <1>1, <2>1, <2>2 DEF KernelInv, RestInv, Boots, KeptBoots, Installed
    <2>4. QED BY <1>1, <1>2, <2>1, <2>2, <2>3 DEF KernelInv, SnapshotInv, RollbackInv, Restored
  <1>4. CASE StartRollback
    <2>1. /\ cmd' = "rollback" /\ done' = "none"
          /\ before' = [s \in Installed |-> place[s]]
          /\ UNCHANGED <<place, good, intact>>
      BY <1>1, <1>4 DEF StartRollback, files
    <2>2. (KeptBoots \/ spoiled') /\ (spoiled => spoiled')
      BY <1>4, Sets DEF StartRollback
    <2>3. RestInv'
      BY <1>1, <2>1, <2>2 DEF KernelInv, RestInv, Boots, KeptBoots
    <2>4. QED
      BY <1>1, <1>2, <2>1, <2>3 DEF KernelInv, SnapshotInv, RollbackInv, Restored, Installed
  <1>5. QED BY <1>3, <1>4

LEMMA ReportStep ==
    ASSUME KernelInv, Report
    PROVE  KernelInv'
  <1>1. /\ cmd \in {"snapshot", "rollback"} /\ ip > Len(Script) /\ done' = cmd
        /\ ip' = 1 /\ half' = FALSE /\ cmd' = "none"
        /\ (intact' <=> intact \/ cmd = "snapshot")
        /\ UNCHANGED <<place, good, before, spoiled>>
    BY DEF Report, Exit, KernelInv, RestInv
  <1>2. half' \in BOOLEAN /\ ~half'
    BY <1>1
  <1>3. intact' => good \in Builds /\ \A p \in KeptPlaces : place[p] = good
    <2>1. CASE cmd = "snapshot"
      <3>1. Script = snapshot
        BY <2>1 DEF Script
      <3>2. ip = 6
        BY <1>1, <2>1, <3>1, SnapshotSteps DEF KernelInv, SnapshotInv
      <3>3. QED BY <2>1, <3>2 DEF KernelInv, SnapshotInv, KeptPlaces
    <2>2. QED BY <1>1, <2>1 DEF KernelInv, RestInv
  <1>4. RestInv' /\ CutInv'
    <2>1. RestInv'
      BY <1>1, <1>2, <1>3 DEF KernelInv, RestInv, Boots, KeptBoots
    <2>2. QED BY <2>1, Unmounted DEF Report, KernelInv
  <1>5. Restored'
    <2>1. SUFFICES ASSUME cmd = "rollback", intact PROVE Restored'
      BY <1>1 DEF Restored
    <2>2. place["mods-lastgood"] # "absent"
      BY <2>1, BuildsAssumption DEF KernelInv, RestInv, KeptPlaces
    <2>3. ip = 10
      <3>1. Script = rollback /\ Len(rollback) = 9
        BY <2>1, <2>2, RollbackSteps DEF Script
      <3>2. QED BY <1>1, <2>1, <3>1 DEF KernelInv, RollbackInv
    <2>4. QED BY <1>1, <2>1, <2>3 DEF KernelInv, RollbackInv, Restored, Installed
  <1>6. QED BY <1>1, <1>4, <1>5 DEF KernelInv, SnapshotInv, RollbackInv

LEMMA InstallStep ==
    ASSUME KernelInv, Install
    PROVE  KernelInv'
  <1>1. PICK b \in Builds :
            /\ place' = [s \in Places |-> IF s \in Installed THEN b ELSE place[s]]
            /\ cut' = [s \in Places |-> IF s \in Installed THEN {b} ELSE cut[s]]
    BY DEF Install
  <1>2. /\ cmd = "none" /\ cmd' = "none" /\ done' = "none"
        /\ UNCHANGED <<ip, half, good, intact>>
    BY DEF Install
  <1>3. place' \in [Places -> Contents] /\ cut' \in [Places -> SUBSET Contents]
    BY <1>1 DEF KernelInv, RestInv, CutInv, Contents
  <1>4. \A p \in KeptPlaces : place'[p] = place[p]
    BY <1>1, PlaceNames
  <1>5. Boots'
    BY <1>1, PlaceNames DEF Boots, Installed
  <1>6. RestInv'
    BY <1>2, <1>3, <1>4, <1>5 DEF KernelInv, RestInv
  <1>7. CutInv'
    <2>1. \A p \in Esp : cut'[p] = {place'[p]}
      BY <1>1, <1>2, EspPlaces DEF KernelInv, CutInv, Sure
    <2>2. QED BY <1>2, <1>3, <2>1 DEF CutInv, Sure
  <1>8. QED BY <1>2, <1>6, <1>7 DEF KernelInv, SnapshotInv, RollbackInv, Restored

LEMMA LeftPlaces ==
    ASSUME NEW s \in Installed, NEW f \in Left(s), NEW p \in {s, Kept(s), Broken(s)}
    PROVE  f[p] \in cut[p]
  BY DEF Left

\* What is sure survives a power cut; so either entry does that no command was
\* writing.
LEMMA PowerStep ==
    ASSUME KernelInv, PowerLost
    PROVE  KernelInv'
  <1>1. /\ cmd' = "none" /\ done' = "none" /\ ip' = 1 /\ half' = FALSE
        /\ cut' = [p \in Places |-> {place'[p]}] /\ spoiled' = spoiled
        /\ intact' = (intact /\ \A s \in Installed : place'[Kept(s)] = good)
        /\ (intact' => good' = good)
    BY DEF PowerLost, Forget
  <1>2. /\ place' \in [Places -> Contents]
        /\ \A p \in Places : place'[p] \in cut[p]
    <2>1. PICK image \in Left("Image"), dtb \in Left("dtb"), mods \in Left("mods") :
              place' = [p \in Places |-> CASE p \in Images -> image[p]
                                          [] p \in Esp \ Images -> dtb[p] [] OTHER -> mods[p]]
      BY DEF PowerLost
    <2>2. \A p \in Images : image[p] \in cut[p]
      BY LeftPlaces, PlaceNames DEF Images, Installed
    <2>3. \A p \in Esp \ Images : dtb[p] \in cut[p]
      BY LeftPlaces, PlaceNames DEF Esp, Images, Installed
    <2>4. \A p \in Places \ Esp : mods[p] \in cut[p]
      BY LeftPlaces, PlaceNames, EspPlaces DEF Installed
    <2>5. Images \subseteq Places /\ Images \subseteq Esp
      BY EspPlaces DEF Esp, Images
    <2>6. \A p \in Places : place'[p] \in cut[p]
      BY <2>1, <2>2, <2>3, <2>4, <2>5
    <2>7. cut \in [Places -> SUBSET Contents]
      BY DEF KernelInv, CutInv
    <2>8. QED BY <2>1, <2>6, <2>7
  <1>3. half' \in BOOLEAN /\ ~half'
    BY <1>1
  <1>4. intact' => good' \in Builds /\ \A p \in KeptPlaces : place'[p] = good'
    BY <1>1, PlaceNames DEF Installed, KeptPlaces, KernelInv, RestInv
  <1>5. spoiled \/ KeptBoots' \/ Boots'
    <2>1. KeptPlaces \subseteq Places /\ Installed \subseteq Places
      BY PlaceNames
    <2>2. Sure("Image") /\ Sure("dtb") /\ Boots => Boots'
      BY <1>2, <2>1 DEF Boots, Installed, Sure
    <2>3. Sure("Image-lastgood") /\ Sure("dtb-lastgood") /\ KeptBoots => KeptBoots'
      BY <1>2, <2>1 DEF KeptBoots, KeptPlaces, Sure
    <2>4. CASE cmd = "none"
      BY <2>2, <2>3, <2>4, EspPlaces DEF KernelInv, RestInv, CutInv
    <2>5. CASE cmd = "snapshot"
      <3>1. Boots
        BY <2>5 DEF KernelInv, SnapshotInv, Boots, Installed
      <3>2. QED BY <2>2, <2>5, <3>1 DEF KernelInv, CutInv
    <2>6. CASE cmd = "rollback"
      BY <2>3, <2>6 DEF KernelInv, RestInv, CutInv
    <2>7. QED BY <2>4, <2>5, <2>6 DEF KernelInv, RestInv
  <1>6. RestInv'
    BY <1>1, <1>2, <1>3, <1>4, <1>5 DEF RestInv
  <1>7. CutInv'
    BY <1>1, <1>2, EspPlaces DEF CutInv, Sure
  <1>8. QED BY <1>1, <1>6, <1>7 DEF KernelInv, SnapshotInv, RollbackInv, Restored

LEMMA KernelInit == KInit => KernelInv
  <1>1. SUFFICES ASSUME KInit PROVE KernelInv
    OBVIOUS
  <1>2. PICK b \in Builds : place = [s \in Places |-> IF s \in Installed THEN b ELSE "absent"]
    BY <1>1 DEF KInit
  <1>3. place \in [Places -> Contents] /\ Boots
    BY <1>2, PlaceNames DEF Contents, Boots, Installed
  <1>4. half \in BOOLEAN /\ ~half /\ ~intact
    BY <1>1 DEF KInit
  <1>5. CutInv
    BY <1>1, <1>3, EspPlaces DEF KInit, Synced, CutInv, Sure
  <1>6. QED
    BY <1>1, <1>3, <1>4, <1>5
    DEF KInit, KernelInv, RestInv, CutInv, SnapshotInv, RollbackInv, Restored

LEMMA KernelStep == KernelInv /\ [KNext]_kvars => KernelInv'
  <1>1. SUFFICES ASSUME KernelInv, [KNext]_kvars PROVE KernelInv'
    OBVIOUS
  <1>2. CASE UNCHANGED kvars
    <2>1. UNCHANGED <<place, cut, cmd, ip, half, done, good, intact, before, spoiled>>
      BY <1>2 DEF kvars, files
    <2>2. RestInv' /\ CutInv'
      BY <1>1, <2>1 DEF KernelInv, RestInv, CutInv, Sure, Boots, KeptBoots
    <2>3. QED
      BY <1>1, <2>1, <2>2 DEF KernelInv, SnapshotInv, RollbackInv, Restored
  <1>3. QED
    BY <1>1, <1>2, CommandStep, FailStep, StartStep, ReportStep, InstallStep, PowerStep
    DEF KNext

\* What the invariant says in the words of the properties.
LEMMA KernelKeeps == KernelInv => BootsSomething /\ RolledBack
  <1>1. SUFFICES ASSUME KernelInv PROVE BootsSomething /\ RolledBack
    OBVIOUS
  <1>2. BootsSomething
    BY <1>1, Sets DEF BootsSomething, KernelInv, RestInv
  <1>3. RolledBack
    BY <1>1, PlaceNames DEF RolledBack, KernelInv, RestInv, Restored, Installed, KeptPlaces
  <1>4. QED BY <1>2, <1>3

\* Wherever the power goes and whatever fails, in any sequence of snapshots, rollbacks
\* and installations of any kernels on an ESP of any size, an entry of the boot menu
\* has a kernel and a device tree of one build, unless a rollback was made from a kept
\* set that had none.
THEOREM OneEntryBoots == KSpec => []BootsSomething
  BY KernelInit, KernelStep, KernelKeeps, PTL DEF KSpec

\* A rollback that reports success from a snapshot that ended well, and whose modules
\* no power cut caught before they were written back, has put back its kernel, its
\* device tree and its modules, and kept what was installed when it began; on an ESP
\* without room for a third Image none reports success.
THEOREM RollbackRestores == KSpec => []RolledBack
  BY KernelInit, KernelStep, KernelKeeps, PTL DEF KSpec
=============================================================================
