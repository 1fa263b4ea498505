--------------------------- MODULE MCServicePlane ---------------------------
(* One node: the correlation looks at each node by itself. *)
EXTENDS ServicePlane
=============================================================================
