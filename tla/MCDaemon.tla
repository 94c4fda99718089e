------------------------------- MODULE MCDaemon -------------------------------
(***************************************************************************)
(* Daemon whole: three signals are one for the handler, one for sigCh, and *)
(* one that is dropped.                                                    *)
(***************************************************************************)
EXTENDS Daemon
=============================================================================
