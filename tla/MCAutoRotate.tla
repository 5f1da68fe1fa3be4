---------------------------- MODULE MCAutoRotate ----------------------------
(***************************************************************************)
(* Model checking of AutoRotate with two of the four orientations, mapped  *)
(* as the unit's drop-in maps them.                                        *)
(***************************************************************************)
EXTENDS AutoRotate

TurnedMap ==
    [o \in {"normal", "left-up"} |-> IF o = "normal" THEN "inverted" ELSE "right"]
AllHazards == {"kscreen_error", "tray_killed", "crash"}

=============================================================================
