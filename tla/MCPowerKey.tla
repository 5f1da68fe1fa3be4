----------------------------- MODULE MCPowerKey -----------------------------
(***************************************************************************)
(* Model checking of PowerKey.  One tick is half a second and the durations*)
(* are those of the source rounded to it: 1.5 s is 3 ticks, 0.6 s is 1.    *)
(* WAKE_GUARD is 2.5 s in the source; the instances vary it.               *)
(***************************************************************************)
EXTENDS PowerKey

NoPanelRace == {"idle_blank", "dpms_race", "unplug"}
BlankAndRace == {"idle_blank", "panel_race"}
OnlyUnplug == {"unplug"}

=============================================================================
