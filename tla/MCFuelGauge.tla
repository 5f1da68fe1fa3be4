---------------------------- MODULE MCFuelGauge -----------------------------
(***************************************************************************)
(* Model checking of FuelGauge at the edges: currents on both sides of the *)
(* noise, with either sign and with whole amps, charges below and at 99 %. *)
(***************************************************************************)
EXTENDS FuelGauge

EdgeCurrents == {102, 103, 2048 + 307, 32768 + 102, 32768 + 103, 32768 + 2355}
EdgeCharges == {99 * 256 - 1, 99 * 256}

=============================================================================
