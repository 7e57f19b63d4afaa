--------------------------- MODULE SocketObjects ----------------------------
(* The TCPSocket objects of a run, shared by the modules about them.       *)
CONSTANTS Socket,   \* the objects, and what a slot of the list may point to
          NoSocket  \* nullptr

ASSUME SocketAssumption == NoSocket \notin Socket
=============================================================================
