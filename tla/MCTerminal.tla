------------------------------- MODULE MCTerminal -------------------------------
(* Terminal with bodies of a few parts. *)
EXTENDS Terminal

================================================================================
