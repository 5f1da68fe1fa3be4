---------------------------- MODULE MCScreenshot ----------------------------
(***************************************************************************)
(* Model checking of Screenshot with a watcher that appears twice, a tap   *)
(* and a chord, and spectacles that know all spellings, the plain ones,    *)
(* the short ones or none.                                                 *)
(***************************************************************************)
EXTENDS Screenshot

Script == <<"new", "long", "short">>
Daemon == <<"new", "long", "loud", "short">>
Spectacles == {{"new", "long", "loud", "short"}, {"long", "loud"}, {"short"}, {}}
Busy == {"busy"}
Everything == {"hang", "spawn_error"}
=============================================================================
