----------------------------- MODULE MCObserver -----------------------------
(* The outbound observer on a small instance: constants in the .cfg files,  *)
(* the symmetry of messages and threads here.                               *)
EXTENDS OutboundObserver, TLC

Symmetry == Permutations(Msg) \cup Permutations(Thread)

=============================================================================
