--------------------------- MODULE MC_MessagePath ---------------------------
(* MessagePath with one topic for values and one for commands.             *)
EXTENDS MessagePath

MCTopics == <<"d_in", "command_in">>
=============================================================================
