----------------------------- MODULE MCKernel -----------------------------
(* Instances of Kernel: two subsystems, of which a calls others.            *)
EXTENDS Kernel, TLC

CONSTANTS a, b, r1, r2

\* A client calls b, and a calls itself.
SelfCall == r1 :> b @@ r2 :> a

\* A client calls a, and a calls b.
CallOnward == r1 :> a @@ r2 :> b
=============================================================================
