----------------------------- MODULE MCAnalysis -----------------------------
EXTENDS Analysis

MCRoute == {"a", "b"}
MCClient == 1 .. 3

(* One client that bursts, pauses and jumps back in time, and two others    *)
(* that compete with it for the places of routes and subjects.              *)
MCEvent ==
  {[route |-> "a", client |-> 1, time |-> 0], [route |-> "a", client |-> 1, time |-> 4],
   [route |-> "b", client |-> 2, time |-> 0], [route |-> "a", client |-> 3, time |-> 4]}

(* Two of the subjects are one client with two user agents, of which none   *)
(* is claimed, and behave alike.                                            *)
MCClientKeyOf == [client \in MCClient |-> client % 2]
MCSuspect == {1, 3}
=============================================================================
