-------------------------- MODULE MCWorkflowEngine --------------------------
(* Instances of WorkflowEngine for TLC.                                    *)
EXTENDS WorkflowEngine

CONSTANTS na, nb, nc, nd, ne

NoRouter == [n \in {} |-> {}]

(* Three branches: two meet in a join, the third asks the model for nd. *)
FanIn == [nodes |-> Nodes, entry |-> {na, nb, ne}, edges |-> {<<nc, End>>}, routers |-> NoRouter,
          joins |-> <<[sources |-> {na, nb}, to |-> nc]>>, llm |-> {ne}]

(* A cycle through a join, one of whose branches a router may leave out.   *)
Cycle == [nodes |-> {na, nb, nc, nd}, entry |-> {na}, edges |-> {<<na, nb>>},
          routers |-> [n \in {na, nd} |-> IF n = na THEN {nc, End} ELSE {na, End}],
          joins |-> <<[sources |-> {nb, nc}, to |-> nd]>>, llm |-> {}]

(* Two joins into one target, and a static edge into it as well.           *)
Shared == [nodes |-> {na, nb, nc, nd}, entry |-> {na, nb, nc}, edges |-> {<<nc, nd>>}, routers |-> NoRouter,
           joins |-> <<[sources |-> {na, nb}, to |-> nd], [sources |-> {nb, nc}, to |-> nd]>>, llm |-> {}]

All == {FanIn, Cycle, Shared}

=============================================================================
