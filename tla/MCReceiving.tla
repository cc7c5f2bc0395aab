---------------------------- MODULE MCReceiving ----------------------------
(* Two generations on one stream, and a third on a stream of its own.       *)
EXTENDS Receiving, TLC

CONSTANTS a, b, c, s1, s2

MCStreamOf == (a :> s1) @@ (b :> s1) @@ (c :> s2)

Config(policy, drop, instantiates, own, most, starts, calls, deaths, racing) ==
    [policy |-> policy, dropOnPromotion |-> drop, instantiates |-> instantiates, fetchesItsOwnStreams |-> own,
     maxGenerations |-> most, starts |-> starts, calls |-> calls, restarts |-> deaths, racing |-> racing]

MCConfigs ==
    {Config("on-catch-up", FALSE, TRUE, FALSE, 3, {a, c}, <<"add", "promote", "add">>, 0, FALSE),
     Config("on-catch-up", TRUE, TRUE, TRUE, 3, {a, Nothing}, <<"add">>, 1, FALSE),
     Config("immediate", TRUE, FALSE, TRUE, 3, {a, c}, <<"add", "promote">>, 0, FALSE),
     Config("manual", FALSE, TRUE, TRUE, 3, {a, c}, <<"add", "promote", "promote">>, 0, FALSE),
     Config("on-catch-up", FALSE, FALSE, FALSE, 2, {a}, <<"add", "add">>, 0, FALSE),
     Config("on-catch-up", FALSE, FALSE, FALSE, 3, {c}, <<"add", "add", "reclaim", "add">>, 0, FALSE),
     Config("on-catch-up", TRUE, TRUE, FALSE, 3, {a}, <<"add", "promote">>, 0, TRUE),
     Config("on-catch-up", FALSE, TRUE, FALSE, 3, {a}, <<"add", "promote">>, 0, TRUE)}
=============================================================================
