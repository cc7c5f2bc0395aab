---------------------------- MODULE MCContainer ----------------------------
(* Two generations on one stream, and a third on a stream of its own.       *)
EXTENDS Container, TLC

CONSTANTS a, b, c, s1, s2

MCStreamOf == (a :> s1) @@ (b :> s1) @@ (c :> s2)

MCConfigs ==
    [policy : {"on-catch-up", "immediate"}, dropOnPromotion : BOOLEAN, maxGenerations : {3}]
    \cup [policy : {"manual"}, dropOnPromotion : {TRUE}, maxGenerations : {3}]
    \cup [policy : {"on-catch-up"}, dropOnPromotion : {FALSE}, maxGenerations : {2}]
=============================================================================
