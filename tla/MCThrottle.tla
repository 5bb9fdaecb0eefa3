---------------------------- MODULE MCThrottle -----------------------------
(***************************************************************************)
(* A small instance of Throttle.  The addresses 0 and 1 are IPv4, and 2    *)
(* and 3 are the IPv4-mapped forms of them.                                *)
(***************************************************************************)
EXTENDS Throttle, TLC

Symmetry == Permutations(Tasks)

=============================================================================
