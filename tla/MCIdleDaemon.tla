---------------------------- MODULE MCIdleDaemon ----------------------------
(***************************************************************************)
(* Model checking of IdleDaemon with two devices and thresholds of a few   *)
(* polls.                                                                  *)
(***************************************************************************)
EXTENDS IdleDaemon

AllPower == {"Charging", "Full", "Discharging"}
Everything == {"hotplug", "query_error", "suspend_error", "crash", "status_error"}

=============================================================================
