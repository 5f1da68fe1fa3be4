--------------------------- MODULE DesktopPatches ---------------------------
(***************************************************************************)
(* The service that puts this port's desktop changes back at every boot,   *)
(* userspace/tabs6-desktop-patches.py: four hunks in Plasma's lock screen, *)
(* the keyboard's files, the audio profile's files and its link.  Around   *)
(* it the packages, which overwrite any of them while the service is not   *)
(* running, and the power, which may go between any two writes.            *)
(*                                                                         *)
(* A text of the lock screen says of each hunk whether its old text, its   *)
(* new text or something else is there.  Writes reach the disk in the      *)
(* order they are made.                                                    *)
(***************************************************************************)
EXTENDS Naturals, Sequences

CONSTANTS
    Shipped,                    \* lock screens Plasma's packages may bring
    MALIIT_TARGETS, UCM_FILES,  \* names, in the order they are restored
    Stash,                      \* those that were stashed at install time
    Hazards                     \* what else may happen in this instance

Hunks == {"pos", "exit", "win", "completed"}

ASSUME PackagesAssumption ==
    /\ Shipped \subseteq [Hunks -> {"old", "other"}]
    /\ Hazards \subseteq {"crash", "io_error"}
    /\ MALIIT_TARGETS \in Seq(STRING) /\ UCM_FILES \in Seq(STRING)

VARIABLES
    lock, stock, tmp,   \* the lock screen, its .stock copy, the file being written
    file,               \* the keyboard's and the profile's files
    link,               \* the profile's link
    pc, group, k,       \* where the service is
    restored, changed,  \* its return values
    failed,             \* what this run gave up
    settled             \* a run failed nothing and no package has changed since

disk == <<lock, stock, tmp, file, link>>
vars == <<disk, pc, group, k, restored, changed, failed, settled>>

Absent == [h \in Hunks |-> "absent"]
Torn   == [h \in Hunks |-> "torn"]
Whole  == {Absent} \cup [Hunks -> {"old", "new", "other"}]
Packaged == Shipped \cup {Absent}

(* Each hunk replaces its old text where that is found.                    *)
Patched == [t \in Whole |-> [h \in Hunks |-> IF t[h] = "old" THEN "new" ELSE t[h]]]

(* All but the Window.window guard carry the marker.                       *)
Marked(t) == \E h \in Hunks \ {"win"} : t[h] = "new"

Elements(s) == {s[i] : i \in 1..Len(s)}
Files == Elements(MALIIT_TARGETS) \cup Elements(UCM_FILES)
ASSUME NamesAssumption == Files \cap {"lock", "link"} = {}

Targets == IF group = "maliit" THEN MALIIT_TARGETS ELSE UCM_FILES
-----------------------------------------------------------------------------
(* The lock screen.  Any error ends its group, and main goes on.           *)
LockSteps == {"lock", "backup", "backup_end", "write", "write_end", "replace"}

EndOfGroup ==
    /\ changed' = (changed \/ restored) /\ restored' = FALSE
    /\ k' = 1
    /\ group' = (IF group = "lock" THEN "maliit" ELSE "ucm")

LeaveLock == pc' = "compare" /\ EndOfGroup

patch_lockscreen ==
    /\ pc = "lock"
    /\ \/ /\ lock = Absent \/ Marked(lock) \/ Patched[lock] = lock
          /\ LeaveLock
       \/ /\ lock # Absent /\ ~Marked(lock) /\ Patched[lock] # lock
          /\ pc' = (IF stock = Absent THEN "backup" ELSE "write")
          /\ UNCHANGED <<group, k, restored, changed>>
    /\ UNCHANGED <<disk, failed, settled>>

Backup ==
    /\ \/ pc = "backup" /\ stock' = Torn /\ pc' = "backup_end"
       \/ pc = "backup_end" /\ stock' = lock /\ pc' = "write"
    /\ UNCHANGED <<lock, tmp, file, link, group, k, restored, changed, failed, settled>>

\* Mutant of WriteTmp: the text is written in place.
WriteTmp_InPlace ==
    /\ pc = "write" /\ lock' = Torn /\ tmp' = Patched[lock] /\ pc' = "replace"
    /\ UNCHANGED <<stock, file, link, group, k, restored, changed, failed, settled>>

WriteTmp ==
    /\ \/ pc = "write" /\ tmp' = Torn /\ pc' = "write_end"
       \/ pc = "write_end" /\ tmp' = Patched[lock] /\ pc' = "replace"
    /\ UNCHANGED <<lock, stock, file, link, group, k, restored, changed, failed, settled>>

\* Mutant of Replace: the copy is made after the fact, and every time.
Replace_ThenBackup ==
    /\ pc = "replace"
    /\ lock' = tmp /\ tmp' = Absent /\ stock' = tmp
    /\ pc' = "compare" /\ group' = "maliit" /\ k' = 1
    /\ changed' = TRUE /\ restored' = FALSE
    /\ UNCHANGED <<file, link, failed, settled>>

Replace ==
    /\ pc = "replace"
    /\ lock' = tmp /\ tmp' = Absent
    /\ pc' = "compare" /\ group' = "maliit" /\ k' = 1
    /\ changed' = TRUE /\ restored' = FALSE
    /\ UNCHANGED <<stock, file, link, failed, settled>>

\* Mutant of LockFails: main has one try around all three.
LockFails_EndsMain ==
    /\ "io_error" \in Hazards /\ pc \in LockSteps
    /\ pc' = "done" /\ failed' = failed \cup {"lock"}
    /\ UNCHANGED <<disk, group, k, restored, changed, settled>>

LockFails ==
    /\ "io_error" \in Hazards /\ pc \in LockSteps
    /\ LeaveLock
    /\ failed' = failed \cup {"lock"}
    /\ UNCHANGED <<disk, settled>>
-----------------------------------------------------------------------------
(* The keyboard's files, then the profile's: one loop each.                *)
NextFile == pc' = "compare" /\ k' = k + 1

\* Mutant of Compare: files are copied without looking.
Compare_Always ==
    /\ pc = "compare" /\ k <= Len(Targets)
    /\ file' = [file EXCEPT ![Targets[k]] = "torn"] /\ pc' = "copy"
    /\ UNCHANGED <<lock, stock, tmp, link, group, k, restored, changed, failed, settled>>

Compare ==
    /\ pc = "compare" /\ k <= Len(Targets)
    /\ LET f == Targets[k] IN
       \/ /\ f \notin Stash \/ file[f] = "ours"
          /\ NextFile /\ UNCHANGED <<file, failed>>
       \/ /\ f \in Stash /\ file[f] # "ours"
          /\ file' = [file EXCEPT ![f] = "torn"] /\ pc' = "copy"
          /\ UNCHANGED <<k, failed>>
       \/ /\ "io_error" \in Hazards /\ f \in Stash
          /\ failed' = failed \cup {f}
          /\ NextFile /\ UNCHANGED file
    /\ UNCHANGED <<lock, stock, tmp, link, group, restored, changed, settled>>

Copy ==
    /\ pc = "copy"
    /\ LET f == Targets[k] IN
       \/ /\ file' = [file EXCEPT ![f] = "ours"]
          /\ restored' = TRUE /\ UNCHANGED failed
       \/ /\ "io_error" \in Hazards
          /\ \E left \in {"torn", "ours"} : file' = [file EXCEPT ![f] = left]
          /\ failed' = failed \cup {f} /\ UNCHANGED restored
    /\ NextFile
    /\ UNCHANGED <<lock, stock, tmp, link, group, changed, settled>>

MaliitDone ==
    /\ pc = "compare" /\ group = "maliit" /\ k > Len(Targets)
    /\ EndOfGroup
    /\ UNCHANGED <<disk, pc, failed, settled>>

(* The link, which follows the profile's files; then the run is over.      *)
Finish(errors) ==
    /\ pc' = "done"
    /\ failed' = failed \cup errors
    /\ settled' = (settled \/ failed' = {})

Unlink ==
    /\ pc = "compare" /\ group = "ucm" /\ k > Len(Targets)
    /\ \/ /\ link = "ours"
          /\ EndOfGroup /\ Finish({}) /\ UNCHANGED link
       \/ /\ link # "ours"
          /\ link' = "absent" /\ pc' = "symlink"
          /\ UNCHANGED <<group, k, restored, changed, failed, settled>>
       \/ /\ "io_error" \in Hazards /\ link # "ours"
          /\ EndOfGroup /\ Finish({"link"}) /\ UNCHANGED link
    /\ UNCHANGED <<lock, stock, tmp, file>>

Symlink ==
    /\ pc = "symlink"
    /\ \/ /\ link' = "ours" /\ changed' = TRUE /\ Finish({})
       \/ /\ "io_error" \in Hazards
          /\ changed' = (changed \/ restored) /\ Finish({"link"}) /\ UNCHANGED link
    /\ restored' = FALSE
    /\ UNCHANGED <<lock, stock, tmp, file, group, k>>
-----------------------------------------------------------------------------
(* The tablet and its packages. *)
Boot ==
    /\ pc \in {"off", "done"}
    /\ pc' = "lock" /\ group' = "lock" /\ k' = 1
    /\ restored' = FALSE /\ changed' = FALSE /\ failed' = {}
    /\ UNCHANGED <<disk, settled>>

PowerCut ==
    /\ "crash" \in Hazards /\ pc \notin {"off", "done"}
    /\ pc' = "off"
    /\ UNCHANGED <<disk, group, k, restored, changed, failed, settled>>

(* A transaction of one package, Plasma's, maliit's or ALSA's, replaces or *)
(* removes all that it owns; the profile's files may be spared.            *)
Overwritten(names) ==
    \E v \in {"stock", "absent"} :
        file' = [f \in Files |-> IF f \in names THEN v ELSE file[f]]

Upgrade ==
    /\ pc \in {"off", "done"}
    /\ \/ lock' \in Packaged /\ UNCHANGED <<file, link>>
       \/ Overwritten(Elements(MALIIT_TARGETS)) /\ UNCHANGED <<lock, link>>
       \/ /\ Overwritten(Elements(UCM_FILES)) \/ UNCHANGED file
          /\ UNCHANGED lock /\ link' \in {"other", "absent"}
    /\ pc' = "off" /\ settled' = FALSE
    /\ UNCHANGED <<stock, tmp, group, k, restored, changed, failed>>
-----------------------------------------------------------------------------
Init ==
    /\ lock \in Packaged /\ stock = Absent /\ tmp = Absent
    /\ file \in [Files -> {"ours", "stock", "absent"}]
    /\ link \in {"ours", "other", "absent"}
    /\ pc = "off" /\ group = "lock" /\ k = 1
    /\ restored = FALSE /\ changed = FALSE /\ failed = {} /\ settled = FALSE

main == \/ patch_lockscreen \/ Backup \/ WriteTmp \/ Replace \/ LockFails
        \/ Compare \/ Copy \/ MaliitDone \/ Unlink \/ Symlink

Next == main \/ Boot \/ PowerCut \/ Upgrade

Spec == Init /\ [][Next]_vars
-----------------------------------------------------------------------------
(* The lock screen is patched the way PatchedFile promises: at no moment,  *)
(* whatever fails and wherever the power goes, does it hold half a text,   *)
(* and it is not patched before a copy of it has been begun.               *)
LockScreen == INSTANCE PatchedFile WITH text <- lock, kept <- stock

PatchesAtomically == LockScreen!Spec

(* The .stock copy (188-190) is never a patched text: whatever upgrades,   *)
(* crashes and errors came in between, it is a text a package brought, or  *)
(* one the power or an error cut off; and a patched lock screen has one.   *)
StockIsStock ==
    /\ stock \in Shipped \cup {Absent, Torn}
    /\ (\E h \in Hunks : lock[h] = "new") => stock # Absent

(* What the service looks after, and when it is as the service wants it.   *)
Items == {"lock", "link"} \cup (Files \cap Stash)
InPlace(i) ==
    CASE i = "lock" -> \A h \in Hunks : lock[h] # "old"
      [] i = "link" -> link = "ours"
      [] OTHER -> file[i] = "ours"

(* One failure costs one thing: when a run is over everything is in place  *)
(* but what that run itself gave up, whatever the last one left torn.      *)
DoneInPlace == pc = "done" => \A i \in Items \ failed : InPlace(i)

(* "It is safe to run repeatedly": once a run has failed nothing, no later *)
(* one writes to the disk or counts a change, failing or cut short as it   *)
(* may be, until a package changes something again.                        *)
SettledIsIdle == [][settled /\ settled' => UNCHANGED disk /\ (changed' => changed)]_vars
=============================================================================
