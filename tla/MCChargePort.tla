---------------------------- MODULE MCChargePort ----------------------------
(***************************************************************************)
(* Model checking of ChargePort with the defaults of the source, and with  *)
(* another setter of the limits: to an offset between the two targets, and *)
(* to the same offset under a byte with its top bit set.                   *)
(***************************************************************************)
EXTENDS ChargePort

Failures == {"kill", "role_error", "set_error", "status_error", "plug_race"}

=============================================================================
