----------------------------- MODULE FlowWindow -----------------------------
(* The constants of flow control (src/src/clsMultiplexedTunnel.h).         *)
EXTENDS Integers

CONSTANTS InitialWindow,  \* INITIAL_WINDOW_SIZE
          Threshold       \* WINDOW_UPDATE_THRESHOLD

ASSUME WindowAssumption == /\ InitialWindow \in Nat \ {0}
                           /\ Threshold \in 1 .. InitialWindow

=============================================================================
