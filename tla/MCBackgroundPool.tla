-------------------------- MODULE MCBackgroundPool --------------------------
(* Instances of BackgroundPool for TLC.                                    *)
EXTENDS BackgroundPool

CONSTANTS g, c, a

OneEach == [id \in {g, c, a} |-> CASE id = g -> "graph" [] id = c -> "plain" [] OTHER -> "adopted"]

=============================================================================
