------------------------- MODULE MCFileTransactions -------------------------
(***************************************************************************)
(* Instances of FileTransactions for TLC.  f1 and f3 exist, f2 does not.   *)
(* t1 replaces f1, creates f2 and deletes f3 (or a part of that); t2       *)
(* rewrites a file of t1, or a file t1 does not touch.                     *)
(***************************************************************************)
EXTENDS FileTransactions, TLC

CONSTANTS p1, p2, t1, t2, t3, f1, f2, f3, pr1, pr2

OneProject == <<pr1>>
TwoProjects == <<pr1, pr2>>
InOne == (f1 :> pr1 @@ f2 :> pr1 @@ f3 :> pr1)
InTwo == (f1 :> pr1 @@ f2 :> pr2 @@ f3 :> pr2)

AllKinds == (t1 :> <<f1, f2, f3>> @@ t2 :> <<f3>>)
AllKindsDeletes == (t1 :> {f3} @@ t2 :> {})

(* t2 shares f2 with t1, t3 shares nothing.                                *)
Three == (t1 :> <<f1, f2>> @@ t2 :> <<f2>> @@ t3 :> <<f3>>)
ThreeDeletes == (t1 :> {f1} @@ t2 :> {} @@ t3 :> {})
=============================================================================
