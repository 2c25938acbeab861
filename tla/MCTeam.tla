------------------------------- MODULE MCTeam -------------------------------
(* Requests over a registry of all agents, or of the companion alone (which  *)
(* leaves work for external agents).                                         *)
EXTENDS A2A
CONSTANTS r1, r2, t1

TwoRequests == {r1, r2}
AllOrOne == {Agents, {"companion"}}
SomeIntents == {"chat", "write", "plan", "tool"}
=============================================================================
