----------------------------- MODULE MCMapTools -----------------------------
(* The instance of MapTools that TLC checks.                               *)
EXTENDS MapTools
F == <<0, 2>>
=============================================================================
