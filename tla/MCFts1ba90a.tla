---------------------------- MODULE MCFts1ba90a ----------------------------
(***************************************************************************)
(* Model checking of Fts1ba90a with one slot, a contact beyond it and      *)
(* short polling loops.                                                    *)
(***************************************************************************)
EXTENDS Fts1ba90a

AllHazards == {"i2c_error", "read_lost", "rail_error", "ic_error", "unlisted_type"}
OnlyRail == {"rail_error"}

=============================================================================
