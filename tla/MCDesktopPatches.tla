-------------------------- MODULE MCDesktopPatches --------------------------
(***************************************************************************)
(* Model checking of DesktopPatches: a lock screen all hunks fit and one   *)
(* only the unmarked hunk fits; a keyboard of two files, and a profile of  *)
(* two of which one was never stashed.                                     *)
(***************************************************************************)
EXTENDS DesktopPatches

Fits(hunks) == [h \in Hunks |-> IF h \in hunks THEN "old" ELSE "other"]
Plasma == {Fits(Hunks), Fits({"win"})}

Keyboard == <<"CharKey.qml", "qmldir">>
Profile == <<"HiFi.conf", "Card.conf">>
Stashed == {"CharKey.qml", "qmldir", "Card.conf"}

Everything == {"crash", "io_error"}
=============================================================================
