--------------------------- MODULE MC_ExtMemJournal ---------------------------
(* ExtMemJournal with two pages per subsector and two subsectors: a call   *)
(* can lie inside a subsector or cross the boundary between two.           *)
EXTENDS ExtMemJournal, TLC

CONSTANTS a, b

\* A page, a whole subsector, a range that crosses the boundary, and one
\* that is larger than a subsector.
MCPatch ==
    {(1 :> a), (0 :> b) @@ (1 :> a), (1 :> b) @@ (2 :> b),
     (1 :> a) @@ (2 :> a) @@ (3 :> a)}
=============================================================================
