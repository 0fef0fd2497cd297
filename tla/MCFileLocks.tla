---------------------------- MODULE MCFileLocks -----------------------------
(* Two threads of one process and one of another, over two locks.          *)
EXTENDS FileLocks, TLC

CONSTANTS p1, p2, t1, t2, t3

TwoAndOne == (t1 :> p1 @@ t2 :> p1 @@ t3 :> p2)
(* t1 may nest a block in another.                                         *)
Nested == (t1 :> 2 @@ t2 :> 1 @@ t3 :> 1)

S(l) == [lock |-> l, mode |-> "S"]
X(l) == [lock |-> l, mode |-> "X"]

(* A project shared or exclusive, a name alone, a name under its project,  *)
(* two locks exclusively, and one asked for in both modes.                 *)
Callers == {{S(1)}, {X(1)}, {X(2)}, {S(1), X(2)}, {X(1), S(2)}, {S(1), X(1)}}
=============================================================================
