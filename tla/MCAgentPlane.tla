---------------------------- MODULE MCAgentPlane ----------------------------
(***************************************************************************)
(* Instances of AgentPlane for TLC.  Agents a1 and a2 are live at the      *)
(* start, idle or completed, with a residency capacity of two; a3 is on    *)
(* disk; c1 is a child a1 may spawn.  The messages m1..m4 are what anyone  *)
(* may send, n1 is the completion notice of c1.                            *)
(***************************************************************************)
EXTENDS AgentPlane, TLC

CONSTANTS a1, a2, a3, c1, m1, m2, m3, m4, n1, r1, r2

Residents2 == <<a1, a2>>

ToTwo == (m1 :> a1 @@ m2 :> a3)
ToThree == (m1 :> a1 @@ m2 :> a3 @@ m3 :> a3)
ToChild == (m1 :> a1 @@ m2 :> c1 @@ m3 :> a3 @@ n1 :> a1)

NoNote == [c \in {} |-> None]
ChildNote == (c1 :> n1)

(* Objects are interchangeable: the residents get the first two.           *)
MCInit == Init /\ runtimes[a1] = r1 /\ runtimes[a2] = r2
MCSpec == MCInit /\ [][Next]_vars
MCLive == MCInit /\ [][Next]_vars /\ Fairness
=============================================================================
