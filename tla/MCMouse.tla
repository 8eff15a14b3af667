--------------------------------- MODULE MCMouse ---------------------------------
(* Two reads to drain, so that a drain may end with a byte still there, and *)
(* three lost bytes, a whole packet's worth.                                *)
EXTENDS Mouse
=============================================================================
