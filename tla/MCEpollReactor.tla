--------------------------- MODULE MCEpollReactor ---------------------------
(* The reactor with a handful of sockets and descriptors.                  *)
EXTENDS EpollReactor, TLC

Symmetry == Permutations(Socket)

=============================================================================
