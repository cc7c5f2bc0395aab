--------------------------- MODULE MCTabElection ---------------------------
(* Two tabs with every race, and three without.                             *)
EXTENDS TabElection
CONSTANTS a, b, c
Plan(tabs, steal, close, flip, fault, races) ==
    [tabs |-> tabs, steals |-> steal, closes |-> close, flips |-> flip, faults |-> fault,
     races |-> races, ghosts |-> FALSE, frozen |-> FALSE]
MCPlans ==
    {Plan({a, b}, 2, 1, 2, 0, TRUE),
     Plan({a, b}, 3, 1, 3, 1, FALSE),
     Plan({a, b, c}, 2, 1, 1, 0, FALSE)}
=============================================================================
