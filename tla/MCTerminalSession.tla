-------------------------- MODULE MCTerminalSession -------------------------
(* A browser on a terminal, with a buffer of one byte and a channel of one *)
(* wake-up, so that both overflow.                                         *)
EXTENDS TerminalSession

CONSTANT v1
=============================================================================
