--------------------------- MODULE MCStaleEvents ----------------------------
(* StaleEvents on a small list, with a counter small enough to wrap.       *)
EXTENDS StaleEvents, FiniteSets, TLC

CONSTANTS MaxTurn,      \* bound: how often the counter wraps
          MaxInflight   \* bound: how many events wait at a time

Bounded == turn <= MaxTurn /\ Cardinality(inflight) <= MaxInflight

Symmetry == Permutations(Socket)

=============================================================================
