------------------------------ MODULE MCDaemon ------------------------------
(* The transport layer and the logger; an error's line is longer than the  *)
(* one of a served file.                                                   *)
EXTENDS Daemon

MCLoadOrder == <<"liana", "logger">>
MCLineSize  == [access |-> 1, error |-> 2]

=============================================================================
