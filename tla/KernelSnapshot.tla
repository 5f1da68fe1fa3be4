--------------------------- MODULE KernelSnapshot ---------------------------
(***************************************************************************)
(* tools/tabs6-kernel: snapshot keeps the kernel, the device tree and the  *)
(* modules that are installed as the last known good set, rollback puts    *)
(* that set back and keeps the one it replaces as the broken one.  Both    *)
(* are shell scripts under set -e whose commands run one after the other;  *)
(* the power may go, or a command fail, in the middle of any of them.      *)
(*                                                                         *)
(* A place holds a build, nothing, or something cut off ("torn"): `place`  *)
(* is what the running system reads there.  It is written back when the    *)
(* kernel likes, and surely by sync and umount: `cut` is all that a power  *)
(* cut may leave of it, each place by itself.                              *)
(*                                                                         *)
(* Names it shares with DesktopPatches, the other program that rewrites    *)
(* files while the power may go, are changed: proofs are about both.       *)
(***************************************************************************)
EXTENDS Naturals, Sequences, FiniteSets

CONSTANTS
    Builds,     \* the kernels there are to install
    Room,       \* how many whole Images the ESP holds
    Faults      \* what else may happen in this instance

ASSUME BuildsAssumption ==
    /\ Builds # {} /\ Builds \cap {"absent", "torn"} = {}
    /\ Room \in Nat
    /\ Faults \subseteq {"crash", "io_error"}

VARIABLES
    place, cut,
    cmd, ip,    \* the command that runs and how far it is
    half,       \* it has begun the step at ip
    done,       \* the command that ended well last
    good,       \* the build of the snapshot that is taken, or intact
    intact,     \* it ended well, no other has begun, no power cut reached its copies
    before,     \* what was installed when the last rollback began
    spoiled     \* one has begun from a kept kernel and device tree that do not match

files == <<place, cut>>
kvars == <<files, cmd, ip, half, done, good, intact, before, spoiled>>

Installed == {"Image", "dtb", "mods"}
Kept(s) == CASE s = "Image" -> "Image-lastgood" [] s = "dtb" -> "dtb-lastgood"
             [] s = "mods" -> "mods-lastgood"
Broken(s) == CASE s = "Image" -> "Image-broken" [] s = "dtb" -> "dtb-broken"
               [] s = "mods" -> "mods-broken"
Places == UNION {{s, Kept(s), Broken(s)} : s \in Installed}
Images == {"Image", "Image-lastgood", "Image-broken"}
Esp == Images \cup {"dtb", "dtb-lastgood", "dtb-broken"}
-----------------------------------------------------------------------------
(* The commands.  cp overwrites in place, a directory is removed first.    *)
cp(from, to) == [do |-> "cp", from |-> from, to |-> to]
cp_or_true(from, to) == [do |-> "cp_or_true", from |-> from, to |-> to]
rm(p) == [do |-> "rm", from |-> p, to |-> p]
mv(from, to) == [do |-> "mv", from |-> from, to |-> to]
Sync == [do |-> "sync", from |-> "Image", to |-> "Image"]
\* It rewrites the index of the modules, which the copy has brought along.
Depmod == [do |-> "depmod", from |-> "mods", to |-> "mods"]

snapshot == <<
    cp("Image", "Image-lastgood"), cp("dtb", "dtb-lastgood"), Sync,
    rm("mods-lastgood"), cp("mods", "mods-lastgood") >>

Modules == << rm("mods-broken"), mv("mods", "mods-broken"), cp("mods-lastgood", "mods"),
              Depmod >>

\* Mutant of rollback: the kept kernel is moved instead of copied.
rollback_Moves ==
    << cp("Image", "Image-broken"), cp_or_true("dtb", "dtb-broken"),
       mv("Image-lastgood", "Image"), mv("dtb-lastgood", "dtb"), Sync >>
    \o (IF place["mods-lastgood"] # "absent" THEN Modules ELSE <<>>)

\* Mutant of rollback: the kernel is restored before the broken one is kept.
rollback_RestoresFirst ==
    << cp("Image-lastgood", "Image"), cp("dtb-lastgood", "dtb"),
       cp("Image", "Image-broken"), cp_or_true("dtb", "dtb-broken"), Sync >>
    \o (IF place["mods-lastgood"] # "absent" THEN Modules ELSE <<>>)

rollback ==
    << cp("Image", "Image-broken"), cp_or_true("dtb", "dtb-broken"),
       cp("Image-lastgood", "Image"), cp("dtb-lastgood", "dtb"), Sync >>
    \o (IF place["mods-lastgood"] # "absent" THEN Modules ELSE <<>>)

Script == IF cmd = "snapshot" THEN snapshot ELSE rollback
Step == Script[ip]
-----------------------------------------------------------------------------
IsBuild(s) == place[s] \in Builds
Set(f(_)) == IsBuild(f("Image")) /\ place[f("dtb")] = place[f("Image")]
Itself(s) == s
Synced == [p \in Places |-> {place[p]}]
Nothing == [s \in Installed |-> "absent"]

\* A copy of an Image needs its room; what is cut off counts for nothing.
Fits(to) ==
    to \in Images => Cardinality({p \in Images \ {to} : IsBuild(p)}) < Room

\* Run on a kernel that has proven itself across a reboot.
StartSnapshot ==
    /\ cmd = "none" /\ \E b \in Builds : \A s \in Installed : place[s] = b
    /\ cmd' = "snapshot" /\ done' = "none"
    /\ good' = place["Image"] /\ intact' = FALSE /\ before' = Nothing
    /\ UNCHANGED <<files, ip, half, spoiled>>

StartRollback ==
    /\ cmd = "none" /\ place["Image-lastgood"] # "absent"
    /\ cmd' = "rollback" /\ done' = "none"
    /\ before' = [s \in Installed |-> place[s]]
    /\ spoiled' = (spoiled \/ ~Set(Kept))
    /\ UNCHANGED <<files, ip, half, good, intact>>

\* History of a script that stops early.
Forget == before' = Nothing /\ good' = IF intact' THEN good ELSE "absent"

Write(p, content) ==
    /\ place' = [place EXCEPT ![p] = content]
    /\ cut' = [cut EXCEPT ![p] = @ \cup {content}]

Running == cmd # "none" /\ ip <= Len(Script)
Missing == place[Step.from] = "absent"

Begin ==
    /\ Running /\ ~half
    /\ Step.do \in {"cp", "cp_or_true", "rm"} /\ ~Missing
    /\ Write(Step.to, "torn") /\ half' = TRUE
    /\ UNCHANGED <<cmd, ip, done, good, intact, before, spoiled>>

Pass == ip' = ip + 1 /\ half' = FALSE /\ UNCHANGED cmd

\* Every way out unmounts the ESP (the trap of cleanup).
Exit ==
    /\ ip' = 1 /\ half' = FALSE /\ cmd' = "none"
    /\ cut' = [p \in Places |-> IF p \in Esp THEN {place[p]} ELSE cut[p]]

CopyEnds ==
    /\ half /\ Step.do \in {"cp", "cp_or_true"} /\ Fits(Step.to)
    /\ Write(Step.to, place[Step.from])

RemoveEnds == half /\ Step.do = "rm" /\ Write(Step.to, "absent")

Move ==
    /\ Step.do = "mv" /\ ~Missing
    /\ place' = [place EXCEPT ![Step.to] = place[Step.from], ![Step.from] = "absent"]
    /\ cut' = [cut EXCEPT ![Step.to] = @ \cup cut[Step.from],
                          ![Step.from] = @ \cup {"absent"}]

SyncEnds == Step.do = "sync" /\ cut' = Synced /\ UNCHANGED place

DepmodEnds ==
    /\ Step.do = "depmod" /\ UNCHANGED place
    /\ cut' = [cut EXCEPT !["mods"] = @ \cup {"torn"}]

NothingToDo == ~half /\ Missing /\ Step.do \in {"rm", "cp_or_true"} /\ UNCHANGED files

End ==
    /\ Running
    /\ CopyEnds \/ RemoveEnds \/ Move \/ SyncEnds \/ DepmodEnds \/ NothingToDo
    /\ Pass
    /\ UNCHANGED <<done, good, intact, before, spoiled>>

\* set -e: a command that fails ends the script, but for the one it allows to.
Fail ==
    /\ Running
    /\ \/ "io_error" \in Faults
       \/ Step.do \in {"cp", "mv"} /\ ~half /\ Missing
       \/ half /\ Step.do \in {"cp", "cp_or_true"} /\ ~Fits(Step.to)
    /\ UNCHANGED <<place, done, intact, spoiled>>
    /\ IF Step.do = "cp_or_true" THEN Pass /\ UNCHANGED <<cut, good, before>>
       ELSE Exit /\ Forget

Report ==
    /\ cmd # "none" /\ ip > Len(Script)
    /\ Exit /\ done' = cmd
    /\ intact' = (intact \/ cmd = "snapshot")
    /\ UNCHANGED <<place, good, before, spoiled>>
-----------------------------------------------------------------------------
\* What a cut may leave of the three places of a part.
Left(s) ==
    LET part == {s, Kept(s), Broken(s)}
    IN {f \in [part -> UNION {cut[p] : p \in part}] : \A p \in part : f[p] \in cut[p]}

\* It goes at any moment, also after a command that ended well.  The two halves of
\* a rename may part, which a journal would not let them.
PowerLost ==
    /\ "crash" \in Faults
    /\ \E image \in Left("Image"), dtb \in Left("dtb"), mods \in Left("mods") :
          place' = [p \in Places |-> CASE p \in Images -> image[p]
                                      [] p \in Esp \ Images -> dtb[p] [] OTHER -> mods[p]]
    /\ cut' = [p \in Places |-> {place'[p]}]
    /\ ip' = 1 /\ half' = FALSE /\ cmd' = "none" /\ done' = "none"
    /\ intact' = (intact /\ \A s \in Installed : place'[Kept(s)] = good)
    /\ Forget /\ UNCHANGED spoiled

\* Whoever builds a kernel installs all of it, on a tablet that runs, and it is on
\* the disk before anybody counts on it.
Install ==
    /\ cmd = "none"
    /\ \E b \in Builds :
          /\ place' = [p \in Places |-> IF p \in Installed THEN b ELSE place[p]]
          /\ cut' = [p \in Places |-> IF p \in Installed THEN {b} ELSE cut[p]]
    /\ done' = "none" /\ spoiled' = FALSE /\ before' = Nothing
    /\ UNCHANGED <<cmd, ip, half, good, intact>>

KInit ==
    /\ \E b \in Builds : place = [s \in Places |-> IF s \in Installed THEN b ELSE "absent"]
    /\ cut = Synced
    /\ cmd = "none" /\ ip = 1 /\ half = FALSE /\ done = "none"
    /\ good = "absent" /\ intact = FALSE /\ spoiled = FALSE
    /\ before = Nothing

KNext == \/ StartSnapshot \/ StartRollback \/ Begin \/ End \/ Fail \/ Report
         \/ PowerLost \/ Install

KSpec == KInit /\ [][KNext]_kvars
-----------------------------------------------------------------------------
\* Wherever the power goes and whatever fails, one of the two entries of the boot
\* menu has a kernel and a device tree of one build; unless a rollback was made from
\* a kept kernel and device tree that a cut snapshot had left unlike each other.
BootsSomething == spoiled \/ Set(Itself) \/ Set(Kept)

\* A rollback that reports success from a snapshot that ended well, and whose modules
\* no power cut caught before they were written back, has put back all three parts of
\* it, also after others that were cut short, and what it calls the broken set is
\* what was installed when it began (the device tree excepted, whose copy may fail).
\* It says so of the running system: the modules of either set reach the disk later.
\* It takes an ESP with room for a third Image; without, every rollback ends at 54.
RolledBack ==
    done = "rollback" /\ intact =>
        /\ \A s \in Installed : place[s] = good /\ place[Kept(s)] = good
        /\ \A s \in {"Image", "mods"} : place[Broken(s)] = before[s]
=============================================================================
