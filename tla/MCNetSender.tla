------------------------------ MODULE MCNetSender ------------------------------
(***************************************************************************)
(* Constants of the instances of NetSender that TLC checks.  The fallback  *)
(* 8, 4, 1 is 3, 1 and the counts are 2, between its steps, and 4, above   *)
(* them.  A server has room for 3, one of the steps, or for 2, where the   *)
(* fallback ends at 1; with and without FM, with and without configs.      *)
(***************************************************************************)
EXTENDS NetSender

Server(cap, takesFm, lists) == [cap |-> cap, takesFm |-> takesFm, lists |-> lists]

OnAndBetweenTheSteps ==
  {Server(2, TRUE, TRUE), Server(2, FALSE, FALSE), Server(3, TRUE, FALSE), Server(3, FALSE, TRUE)}

BetweenTheSteps == {Server(2, TRUE, TRUE)}
=============================================================================
