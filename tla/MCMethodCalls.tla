--------------------------- MODULE MCMethodCalls ---------------------------
(* The handlers of the whole daemon as the programs of MethodCalls.          *)
EXTENDS MethodCalls, AllHandlers

\* Calls that hold the clean-up and the other locks and wait for the main thread.
Racers == {"unlock", "mount"}
=============================================================================
