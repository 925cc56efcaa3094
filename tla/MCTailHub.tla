------------------------------ MODULE MCTailHub ------------------------------
(* An instance of TailHub for TLC. *)
EXTENDS TailHub

CONSTANT Wanted

\* Clients ask for one of the levels.
OneLevel == [service : {Empty}, level : {Wanted}]
=============================================================================
