--------------------------- MODULE MCHandlerAlone ---------------------------
(* Every handler of the daemon, by itself.                                   *)
EXTENDS HandlerAlone, AllHandlers
=============================================================================
