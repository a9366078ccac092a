---------------------------- MODULE MCInstrStream ----------------------------
(* InstrStream for templates of every kind of command.                     *)
EXTENDS InstrStream
=============================================================================
