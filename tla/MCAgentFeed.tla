----------------------------- MODULE MCAgentFeed -----------------------------
(* Small instances of AgentFeed for TLC. *)
EXTENDS AgentFeed, TLC

CONSTANTS c1, c2, v1, v2, s1

OneCall    == {c1}
TwoCalls   == {c1, c2}
TwoViewers == {v1, v2}
OneScenario == {s1}
NoScenario == {}

AllFaults  == FaultKinds

\* Calls are interchangeable, and so are sockets.
FeedSymmetry == Permutations(Calls) \cup Permutations(Viewers)
=============================================================================
