--------------------------- MODULE MC_Configurator ---------------------------
(* Configurator with one field that is repaired and the alias.             *)
EXTENDS Configurator

CONSTANTS flag, alias, v1

MCDefault == [f \in {flag, alias} |-> v1]
=============================================================================
