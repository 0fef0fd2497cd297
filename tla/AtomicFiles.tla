---------------------------- MODULE AtomicFiles ----------------------------
(***************************************************************************)
(* What a file transaction promises to those who go through the protocol   *)
(* (transactions.py, MutationCoordinator.commit): the files of a set       *)
(* change together, in one step, and only if they all still have the       *)
(* content the set was planned from; or nothing changes.  Only contents    *)
(* count here: a compensated file has its old content back.                *)
(***************************************************************************)
CONSTANTS Txs, Files,
          FilesOf(_),     \* the files of a transaction
          Deletes,        \* those it deletes
          Contents, None

VARIABLES content,   \* [Files -> Contents \cup {None}]
          planned,   \* what each transaction was planned from
          outcome    \* "open", "committed" or "aborted"

avars == <<content, planned, outcome>>

AInit ==
    /\ content \in [Files -> Contents \cup {None}]
    /\ planned = [t \in Txs |-> [f \in {} |-> None]]
    /\ outcome = [t \in Txs |-> "open"]

APlan(t) ==
    /\ planned[t] = [f \in {} |-> None]
    /\ \E v \in [FilesOf(t) -> Contents \cup {None}] : planned' = [planned EXCEPT ![t] = v]
    /\ UNCHANGED <<content, outcome>>

ACommit(t) ==
    /\ outcome[t] = "open"
    /\ planned[t] \in [FilesOf(t) -> Contents \cup {None}]
    /\ \A f \in FilesOf(t) : content[f] = planned[t][f]
    /\ content' = [f \in Files |-> IF f \notin FilesOf(t) THEN content[f]
                                   ELSE IF f \in Deletes[t] THEN None ELSE t]
    /\ outcome' = [outcome EXCEPT ![t] = "committed"]
    /\ UNCHANGED planned

AAbort(t) ==
    /\ outcome[t] = "open"
    /\ outcome' = [outcome EXCEPT ![t] = "aborted"]
    /\ UNCHANGED <<content, planned>>

ANext == \E t \in Txs : APlan(t) \/ ACommit(t) \/ AAbort(t)

ASpec == AInit /\ [][ANext]_avars
=============================================================================
