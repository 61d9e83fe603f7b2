------------------------- MODULE MCSigcallRegistry -------------------------
(* An owner that reconnects, old and new being its connections, and another. *)
EXTENDS SigcallRegistry, TLC

CONSTANTS old, new, other, A, B

OwnersOfConnections == old :> A @@ new :> A @@ other :> B
=============================================================================
