------------------------------- MODULE MCJsGlue --------------------------------
(* Three contexts: a hole between two instances, and two holes to choose   *)
(* from.                                                                   *)
EXTENDS JsGlue
=============================================================================
