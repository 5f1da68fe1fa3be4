----------------------------- MODULE PatchedFile -----------------------------
(***************************************************************************)
(* What patching a file that a package owns promises: whoever opens it     *)
(* finds one whole text, as packaged or as patched; it is patched only     *)
(* once a copy of what was there has been begun; and a copy that is        *)
(* complete is never touched again.                                        *)
(***************************************************************************)
CONSTANTS
    Packaged,       \* texts the package may leave there, no file at all included
    Patched,        \* the text each text becomes
    Absent, Torn    \* no file; one that is not complete

VARIABLES text, kept

Init == text \in Packaged /\ kept = Absent

Install == text' \in Packaged /\ UNCHANGED kept

Keep ==
    /\ kept \in {Absent, Torn} /\ kept' \in {text, Torn}
    /\ UNCHANGED text

Patch ==
    /\ kept # Absent
    /\ text' = Patched[text]
    /\ UNCHANGED kept

Next == Install \/ Keep \/ Patch

Spec == Init /\ [][Next]_<<text, kept>>
=============================================================================
