-------------------------- MODULE FileTransactions --------------------------
(***************************************************************************)
(* Managed mutation of project files (runtime/fileops): a mutation set is  *)
(* admitted under locks and durable recovery fences (control.py,           *)
(* fences.py), journalled as PREPARED, published file by file              *)
(* (publisher.py) and journalled as COMMITTED; after a failure or a crash  *)
(* the set is resolved from the journal and the live files alone           *)
(* (transactions.py).                                                      *)
(*                                                                         *)
(* A process is a thread or an operating-system process.  It takes one     *)
(* step per durable write, per final check before a write and per lock     *)
(* set; a crash may come between any two of them and releases its locks.   *)
(* Programs that take no locks write files at any time (Foreign writes).   *)
(*                                                                         *)
(* A file version is its content and the transaction whose compensation    *)
(* wrote it back, which stands for the inode and time stamp that tell it   *)
(* from the original.  The content a transaction publishes is the          *)
(* transaction's own.  None is an absent file.                             *)
(***************************************************************************)
EXTENDS Naturals, Sequences, FiniteSets

CONSTANTS
    Procs,
    Txs,           \* transaction ids
    Files,
    Order,         \* [Txs -> Seq(Files)], the mutations in order
    Deletes,       \* [Txs -> SUBSET Files], those that delete
    Projects,      \* sorted sequence of all projects
    ProjectOf,     \* [Files -> projects]
    Existing,      \* the files that exist at the start
    Base, Foreign, \* contents: the initial one, that of an outside program
    None,
    MaxCrash, MaxForeign, MaxError   \* bounds

ProjectSet == {Projects[i] : i \in 1..Len(Projects)}

FilesOf(t) == {Order[t][i] : i \in 1..Len(Order[t])}

projects(t) ==
    SelectSeq(Projects, LAMBDA pr : \E f \in FilesOf(t) : ProjectOf[f] = pr)

ProjectsOf(t) == {ProjectOf[f] : f \in FilesOf(t)}

Unplanned == [f \in {} |-> None]

Contents == Txs \cup {Base, Foreign}
Versions == [data : Contents, undo : Txs \cup {None}]
Statuses == {"none", "prepared", "committed", "aborted", "in_doubt"}

VARIABLES
    file,      \* the live files
    tomb,      \* tombstones of deleted files, per transaction
    rollback,  \* tombstones of compensated creations
    journal,   \* the folded record of every transaction
    fences,    \* recovery fences: <<project, transaction>>
    plan,      \* the sealed versions a mutation set was built from
    proc,      \* the processes
    crashes, foreigns, errors

disk == <<file, tomb, rollback, journal, fences>>
vars == <<file, tomb, rollback, journal, fences, plan, proc, crashes, foreigns, errors>>

-----------------------------------------------------------------------------
(* Processes and their locks                                               *)

(* lease: the locks held.  "shared" is the lease of a commit: its projects *)
(* shared, its files exclusive; "excl" that of a recovery: the projects of *)
(* the transaction being resolved.                                         *)
Idle ==
    [pc |-> "idle", lease |-> "none", tx |-> None, rec |-> None, i |-> 1,
     names |-> {}, scope |-> <<>>, sel |-> {}, todo |-> {}, doubt |-> FALSE,
     vec |-> <<>>, verdict |-> "none", err |-> "none", refused |-> None]

HeldProjects(q) ==
    CASE proc[q].lease = "none" -> {}
      [] proc[q].lease = "shared" -> ProjectsOf(proc[q].tx)
      [] proc[q].lease = "excl" -> ProjectsOf(proc[q].rec)


SharedFree(p, t) ==
    \A q \in Procs \ {p} :
        /\ proc[q].lease = "excl" => HeldProjects(q) \cap ProjectsOf(t) = {}
        /\ proc[q].lease = "shared" => FilesOf(proc[q].tx) \cap FilesOf(t) = {}

ExclusiveFree(p, prs) == \A q \in Procs \ {p} : HeldProjects(q) \cap prs = {}

Go(p, pc) == proc' = [proc EXCEPT ![p] = [proc[p] EXCEPT !.pc = pc, !.i = 1]]
Advance(p) == proc' = [proc EXCEPT ![p] = [proc[p] EXCEPT !.i = proc[p].i + 1]]

(* The call ends; a recovery error is remembered with the set it refused.  *)
Leave(p, err) ==
    proc' = [proc EXCEPT ![p] = [Idle EXCEPT !.err = err,
               !.refused = IF err = "none" THEN None ELSE proc[p].tx]]

-----------------------------------------------------------------------------
(* The state of one mutation                                               *)

Creates(t, f) == plan[t][f] = None

classify_live(t, f) ==
    CASE file[f] = None /\ Creates(t, f) -> "b0"
      [] file[f] = None /\ ~Creates(t, f) ->
            IF f \in Deletes[t] /\ tomb[t][f] # None THEN "b1" ELSE "other"
      [] file[f] # None /\ f \notin Deletes[t] /\ file[f].data = t -> "b1"
      [] file[f] # None /\ (f \in Deletes[t] \/ file[f].data # t) ->
            IF ~Creates(t, f) /\ file[f].data = plan[t][f].data THEN "b0" ELSE "other"

(* Mutant: one file in state s is enough.                                  *)
AllLive_Any(t, s) == \E f \in FilesOf(t) : classify_live(t, f) = s

AllLive(t, s) == \A f \in FilesOf(t) : classify_live(t, f) = s

-----------------------------------------------------------------------------
(* Durable writes                                                          *)

Rec(p) == proc[p].rec
At(p) == Order[Rec(p)][proc[p].i]     \* the mutation p is at

(* Mutant: only the first project gets the fence.                          *)
put_fence_FirstOnly(p) ==
    /\ fences' = fences \cup {<<projects(Rec(p))[1], Rec(p)>>}
    /\ UNCHANGED <<file, tomb, rollback, journal>>

put_fence(p) ==
    /\ fences' = fences \cup {<<projects(Rec(p))[proc[p].i], Rec(p)>>}
    /\ UNCHANGED <<file, tomb, rollback, journal>>

clear_fence(p) ==
    /\ fences' = fences \ {<<projects(Rec(p))[proc[p].i], Rec(p)>>}
    /\ UNCHANGED <<file, tomb, rollback, journal>>

append(t, status) ==
    /\ journal' = [journal EXCEPT ![t] = status]
    /\ UNCHANGED <<file, tomb, rollback, fences>>

(* Rename the new content over the file, or the file to its tombstone,     *)
(* whatever is there by now.                                               *)
publish(p) ==
    LET t == Rec(p)
        f == At(p)
    IN  /\ file' = [file EXCEPT ![f] = IF f \in Deletes[t] THEN None
                                       ELSE [data |-> t, undo |-> None]]
        /\ tomb' = [tomb EXCEPT ![t] = [tomb[t] EXCEPT ![f] =
                      IF f \in Deletes[t] THEN file[f] ELSE tomb[t][f]]]
        /\ UNCHANGED <<rollback, journal, fences>>

(* Compensation: the tombstone is renamed back, a created file is renamed  *)
(* to a rollback tombstone, the old content is written anew.               *)
compensate(p) ==
    LET t == Rec(p)
        f == At(p)
    IN  /\ file' = [file EXCEPT ![f] =
                      CASE f \in Deletes[t] -> tomb[t][f]
                        [] f \notin Deletes[t] /\ Creates(t, f) -> None
                        [] f \notin Deletes[t] /\ ~Creates(t, f) ->
                              [data |-> plan[t][f].data, undo |-> t]]
        /\ tomb' = [tomb EXCEPT ![t] = [tomb[t] EXCEPT ![f] = None]]
        /\ rollback' = IF f \notin Deletes[t] /\ Creates(t, f)
                       THEN rollback \cup {<<t, f>>} ELSE rollback
        /\ UNCHANGED <<journal, fences>>

cleanup_rollback(p) ==
    /\ rollback' = rollback \ {<<Rec(p), At(p)>>}
    /\ UNCHANGED <<file, tomb, journal, fences>>

cleanup_tombstone(p) ==
    /\ tomb' = [tomb EXCEPT ![Rec(p)] = [tomb[Rec(p)] EXCEPT ![At(p)] = None]]
    /\ UNCHANGED <<file, rollback, journal, fences>>

-----------------------------------------------------------------------------
(* Planning and admission                                                  *)

Init ==
    /\ file = [f \in Files |-> IF f \in Existing THEN [data |-> Base, undo |-> None]
                               ELSE None]
    /\ tomb = [t \in Txs |-> [f \in Files |-> None]]
    /\ rollback = {}
    /\ journal = [t \in Txs |-> "none"]
    /\ fences = {}
    /\ plan = [t \in Txs |-> Unplanned]
    /\ proc = [p \in Procs |-> Idle]
    /\ crashes = 0 /\ foreigns = 0 /\ errors = 0

(* A mutation set is built from sealed snapshots of its files.  They are   *)
(* read without the commit's locks, possibly in the middle of another      *)
(* transaction's publication.                                              *)
Plan(t) ==
    /\ plan[t] = Unplanned
    /\ \A f \in Deletes[t] : file[f] # None
    /\ plan' = [plan EXCEPT ![t] = [f \in FilesOf(t) |-> file[f]]]
    /\ UNCHANGED <<disk, proc, crashes, foreigns, errors>>

counters == <<crashes, foreigns, errors>>

(* commit: a new set asks for admission; one that a crash left prepared is *)
(* reconciled in each of its projects; a terminal one is only reported.    *)
(* The tool that built a plan is the one caller that commits it.           *)
Begin(p, t) ==
    /\ proc[p].pc = "idle"
    /\ plan[t] # Unplanned
    /\ \A q \in Procs : proc[q].tx # t
    /\ \/ /\ journal[t] = "none"
          /\ proc' = [proc EXCEPT ![p] = [Idle EXCEPT !.pc = "admit", !.tx = t]]
       \/ /\ journal[t] = "prepared"
          /\ proc' = [proc EXCEPT ![p] = [Idle EXCEPT !.pc = "reconcile",
                                             !.scope = projects(t), !.sel = Txs]]
    /\ UNCHANGED <<disk, plan, counters>>

(* reconcile(project), at the start of every project-wide operation.       *)
Recover(p, pr) ==
    /\ proc[p].pc = "idle"
    /\ proc' = [proc EXCEPT ![p] = [Idle EXCEPT !.pc = "reconcile",
                                       !.scope = <<pr>>, !.sel = Txs]]
    /\ UNCHANGED <<disk, plan, counters>>

(* The lock set is taken and the fence directories are globbed ...         *)
Admit(p) ==
    /\ proc[p].pc = "admit"
    /\ SharedFree(p, proc[p].tx)
    /\ proc' = [proc EXCEPT ![p] = [proc[p] EXCEPT !.pc = "list", !.lease = "shared",
                   !.names = {n \in fences : n[1] \in ProjectsOf(proc[p].tx)}]]
    /\ UNCHANGED <<disk, plan, counters>>

(* Mutants: only fences of transactions still being published count;       *)
(* every fence of the projects counts.                                     *)
conflicts_LiveOnly(p) ==
    {n[2] : n \in {m \in proc[p].names : \E q \in Procs \ {p} : Rec(q) = m[2]}}

conflicts_Project(p) == {n[2] : n \in proc[p].names}

conflicts(p) ==
    {n[2] : n \in {m \in proc[p].names : FilesOf(m[2]) \cap FilesOf(proc[p].tx) # {}}}

(* ... then every fence found is read: one that is gone by now cannot be   *)
(* read.  Fences that share a file with the set are reconciled first.      *)
ListFences(p) ==
    LET t == proc[p].tx
    IN  /\ proc[p].pc = "list"
        /\ \/ /\ ~(proc[p].names \subseteq fences)
              /\ Leave(p, "unreadable")
           \/ /\ proc[p].names \subseteq fences
              /\ conflicts(p) = {}
              /\ proc' = [proc EXCEPT ![p] = [proc[p] EXCEPT !.pc = "fence", !.rec = t,
                                                 !.i = 1, !.names = {}]]
           \/ /\ proc[p].names \subseteq fences
              /\ conflicts(p) # {}
              /\ proc' = [proc EXCEPT ![p] = [Idle EXCEPT !.pc = "reconcile", !.tx = t,
                                                 !.scope = projects(t), !.sel = conflicts(p)]]
        /\ UNCHANGED <<disk, plan, counters>>

-----------------------------------------------------------------------------
(* Commit                                                                  *)

Resolving == {"resolve", "undo_check", "undo", "sweep", "decide"}

(* Where an exception at p's step takes it: publication is resolved, a     *)
(* commit whose resolution fails still clears what is resolved, anything   *)
(* else only releases the locks.                                           *)
Raised(p) ==
    CASE proc[p].pc \in {"verify", "publish", "confirm", "commit"} ->
            [proc[p] EXCEPT !.pc = "resolve", !.i = 1]
      [] \/ proc[p].pc \in {"assert", "prepare"}
         \/ proc[p].pc \in Resolving /\ proc[p].lease = "shared" ->
            [proc[p] EXCEPT !.pc = "settle", !.i = 1, !.vec = <<>>, !.verdict = "none"]
      [] \/ proc[p].pc \in {"fence", "finalize", "clear"}
         \/ proc[p].pc \in Resolving /\ proc[p].lease = "excl" -> Idle

Raise(p) == proc' = [proc EXCEPT ![p] = Raised(p)] /\ UNCHANGED disk

PutFence(p) ==
    /\ proc[p].pc = "fence"
    /\ put_fence(p)
    /\ IF proc[p].i < Len(projects(Rec(p))) THEN Advance(p) ELSE Go(p, "assert")
    /\ UNCHANGED <<plan, counters>>

AssertCurrent(p) ==
    /\ proc[p].pc = "assert"
    /\ IF \A f \in FilesOf(Rec(p)) : file[f] = plan[Rec(p)][f]
       THEN Go(p, "prepare") /\ UNCHANGED disk ELSE Raise(p)
    /\ UNCHANGED <<plan, counters>>

Prepare(p) ==
    /\ proc[p].pc = "prepare"
    /\ append(Rec(p), "prepared")
    /\ Go(p, "verify")
    /\ UNCHANGED <<plan, counters>>

(* The last check before the rename, of the exact version.                 *)
verify_expected(p) ==
    /\ file[At(p)] = plan[Rec(p)][At(p)]
    /\ At(p) \in Deletes[Rec(p)] => tomb[Rec(p)][At(p)] = None

VerifyExpected(p) ==
    /\ proc[p].pc = "verify"
    /\ IF verify_expected(p)
       THEN proc' = [proc EXCEPT ![p] = [proc[p] EXCEPT !.pc = "publish"]] /\ UNCHANGED disk
       ELSE Raise(p)
    /\ UNCHANGED <<plan, counters>>

Publish(p) ==
    /\ proc[p].pc = "publish"
    /\ IF At(p) \in Deletes[Rec(p)] /\ file[At(p)] = None THEN Raise(p)
       ELSE publish(p) /\ proc' = [proc EXCEPT ![p] = [proc[p] EXCEPT !.pc = "confirm"]]
    /\ UNCHANGED <<plan, counters>>

Confirm(p) ==
    /\ proc[p].pc = "confirm"
    /\ IF classify_live(Rec(p), At(p)) # "b1" THEN Raise(p)
       ELSE /\ IF proc[p].i = Len(Order[Rec(p)]) THEN Go(p, "commit")
               ELSE proc' = [proc EXCEPT ![p] = [proc[p] EXCEPT !.pc = "verify",
                                                   !.i = proc[p].i + 1]]
            /\ UNCHANGED disk
    /\ UNCHANGED <<plan, counters>>

Commit(p) ==
    /\ proc[p].pc = "commit"
    /\ IF AllLive(Rec(p), "b1") THEN append(Rec(p), "committed") /\ Go(p, "settle")
       ELSE Raise(p)
    /\ UNCHANGED <<plan, counters>>

-----------------------------------------------------------------------------
(* Resolution of a prepared set, by its committer or under recovery        *)

Decision(p, verdict) ==
    /\ proc' = [proc EXCEPT ![p] = [proc[p] EXCEPT !.pc = "decide", !.verdict = verdict,
                                                   !.vec = <<>>, !.i = 1]]
    /\ UNCHANGED disk

Resolve(p) ==
    LET t == Rec(p)
    IN  /\ proc[p].pc = "resolve"
        /\ \/ /\ \E f \in FilesOf(t) : classify_live(t, f) = "other"
              /\ Decision(p, "in_doubt")
           \/ AllLive(t, "b1") /\ Decision(p, "committed")
           \/ AllLive(t, "b0") /\ Decision(p, "aborted")
           \/ /\ \A f \in FilesOf(t) : classify_live(t, f) # "other"
              /\ ~AllLive(t, "b0") /\ ~AllLive(t, "b1")
              /\ proc' = [proc EXCEPT ![p] = [proc[p] EXCEPT
                            !.pc = "undo_check", !.i = Len(Order[t]),
                            !.vec = [k \in 1..Len(Order[t]) |-> classify_live(t, Order[t][k])]]]
              /\ UNCHANGED disk
        /\ UNCHANGED <<plan, counters>>

Back(p) ==
    proc' = [proc EXCEPT ![p] = [proc[p] EXCEPT !.pc = "undo_check", !.i = proc[p].i - 1]]

Undoable(t, f) ==
    IF f \in Deletes[t] THEN file[f] = None /\ tomb[t][f] = plan[t][f]
    ELSE classify_live(t, f) = "b1" /\ <<t, f>> \notin rollback

(* The published mutations are compensated from the last to the first;     *)
(* then the whole vector is classified again.                              *)
CheckUndo(p) ==
    LET t == Rec(p)
    IN  /\ proc[p].pc = "undo_check"
        /\ CASE proc[p].i = 0 ->
                    Decision(p, IF AllLive(t, "b0") THEN "aborted" ELSE "in_doubt")
             [] proc[p].i > 0 /\ proc[p].vec[proc[p].i] # "b1" -> Back(p) /\ UNCHANGED disk
             [] proc[p].i > 0 /\ proc[p].vec[proc[p].i] = "b1" ->
                    IF Undoable(t, At(p))
                    THEN /\ proc' = [proc EXCEPT ![p] = [proc[p] EXCEPT !.pc = "undo"]]
                         /\ UNCHANGED disk
                    ELSE Raise(p)
        /\ UNCHANGED <<plan, counters>>

Rollback(p) == At(p) \notin Deletes[Rec(p)] /\ Creates(Rec(p), At(p))

Undo(p) ==
    /\ proc[p].pc = "undo"
    /\ IF Rollback(p) /\ file[At(p)] = None THEN Raise(p)
       ELSE /\ compensate(p)
            /\ IF Rollback(p)
               THEN proc' = [proc EXCEPT ![p] = [proc[p] EXCEPT !.pc = "sweep"]]
               ELSE Back(p)
    /\ UNCHANGED <<plan, counters>>

SweepRollback(p) ==
    /\ proc[p].pc = "sweep"
    /\ cleanup_rollback(p)
    /\ Back(p)
    /\ UNCHANGED <<plan, counters>>

Decide(p) ==
    /\ proc[p].pc = "decide"
    /\ IF proc[p].verdict = "committed" /\ ~AllLive(Rec(p), "b1") THEN Raise(p)
       ELSE /\ append(Rec(p), proc[p].verdict)
            /\ proc' = [proc EXCEPT ![p] = [proc[p] EXCEPT !.pc = "settle", !.verdict = "none"]]
    /\ UNCHANGED <<plan, counters>>

-----------------------------------------------------------------------------
(* Clearing the fences of a resolved transaction                           *)

(* Recovery goes on with the next fence, a commit releases its locks.      *)
Done(p, doubt) ==
    IF proc[p].lease = "excl"
    THEN proc' = [proc EXCEPT ![p] = [proc[p] EXCEPT
                    !.pc = "next", !.lease = "none", !.rec = None, !.i = 1,
                    !.todo = proc[p].todo \ {Rec(p)}, !.doubt = proc[p].doubt \/ doubt]]
    ELSE Leave(p, "none")

(* Mutants: the tombstones of a committed set are forgotten; the fence of  *)
(* a set in doubt is cleared.                                              *)
settle_at_NoFinalize(status) ==
    IF status \in {"none", "committed", "aborted"} THEN "clear" ELSE "done"
settle_at_ClearsDoubt(status) ==
    IF status = "prepared" THEN "done"
    ELSE IF status \in {"committed", "aborted"} THEN "finalize" ELSE "clear"

(* _clear_if_resolved: what the journal says decides.                      *)
settle_at(status) ==
    CASE status = "none" -> "clear"
      [] status \in {"committed", "aborted"} -> "finalize"
      [] status \in {"prepared", "in_doubt"} -> "done"

Settle(p) ==
    LET status == journal[Rec(p)]
    IN  /\ proc[p].pc = "settle"
        /\ IF settle_at(status) = "done" THEN Done(p, status = "in_doubt")
           ELSE Go(p, settle_at(status))
        /\ UNCHANGED <<disk, plan, counters>>

(* Only a committed transaction's tombstones are removed.                  *)
Finalize(p) ==
    LET t == Rec(p)
    IN  /\ proc[p].pc = "finalize"
        /\ IF journal[t] = "committed" /\ At(p) \in Deletes[t]
           THEN cleanup_tombstone(p) ELSE UNCHANGED disk
        /\ IF journal[t] = "committed" /\ proc[p].i < Len(Order[t])
           THEN Advance(p) ELSE Go(p, "clear")
        /\ UNCHANGED <<plan, counters>>

ClearFence(p) ==
    /\ proc[p].pc = "clear"
    /\ clear_fence(p)
    /\ IF proc[p].i < Len(projects(Rec(p))) THEN Advance(p) ELSE Done(p, FALSE)
    /\ UNCHANGED <<plan, counters>>

-----------------------------------------------------------------------------
(* Recovery of a project                                                   *)

(* The fences of the next project are listed under its exclusive lock,     *)
(* which is released again.                                                *)
ReconcileProject(p) ==
    /\ proc[p].pc = "reconcile"
    /\ \/ /\ proc[p].scope = <<>> /\ proc[p].tx = None
          /\ Leave(p, "none")
       \/ /\ proc[p].scope = <<>> /\ proc[p].tx # None
          /\ proc' = [proc EXCEPT ![p] = [Idle EXCEPT !.pc = "admit", !.tx = proc[p].tx]]
       \/ /\ proc[p].scope # <<>>
          /\ ExclusiveFree(p, {Head(proc[p].scope)})
          /\ proc' = [proc EXCEPT ![p] = [proc[p] EXCEPT
                        !.pc = "next", !.scope = Tail(proc[p].scope),
                        !.todo = {u \in proc[p].sel : <<Head(proc[p].scope), u>> \in fences}]]
    /\ UNCHANGED <<disk, plan, counters>>

NoMoreFences(p) ==
    /\ proc[p].pc = "next"
    /\ proc[p].todo = {}
    /\ IF proc[p].doubt THEN Leave(p, "in_doubt") ELSE Go(p, "reconcile")
    /\ UNCHANGED <<disk, plan, counters>>

resume_at_SkipsPrepared(status) ==
    IF status \in {"prepared", "in_doubt"} THEN "next" ELSE "finalize"

(* Where the recovery of a complete fence takes up its transaction.        *)
resume_at(status) ==
    CASE status = "prepared" -> "resolve"
      [] status \in {"committed", "aborted"} -> "finalize"
      [] status = "in_doubt" -> "next"

(* One fence, under the exclusive locks of all its projects.               *)
ReconcileFence(p, u) ==
    LET present == {pr \in ProjectsOf(u) : <<pr, u>> \in fences}
        skip(doubt) == proc' = [proc EXCEPT ![p] = [proc[p] EXCEPT
                          !.todo = proc[p].todo \ {u}, !.doubt = proc[p].doubt \/ doubt]]
        enter(pc) == proc' = [proc EXCEPT ![p] = [proc[p] EXCEPT
                          !.pc = pc, !.lease = "excl", !.rec = u, !.i = 1]]
    IN  /\ proc[p].pc = "next"
        /\ u \in proc[p].todo
        /\ ExclusiveFree(p, ProjectsOf(u))
        /\ CASE present = {} -> skip(FALSE)
             [] present # {} /\ journal[u] = "none" -> enter("clear")
             [] present # {} /\ journal[u] # "none" ->
                  IF present # ProjectsOf(u) THEN Leave(p, "incomplete")
                  ELSE IF resume_at(journal[u]) = "next" THEN skip(journal[u] = "in_doubt")
                  ELSE enter(resume_at(journal[u]))
        /\ UNCHANGED <<disk, plan, counters>>

-----------------------------------------------------------------------------
(* Faults and outside programs                                             *)

(* The durable write p is about to make.                                   *)
Write(p) ==
    \/ proc[p].pc = "fence" /\ put_fence(p)
    \/ proc[p].pc = "prepare" /\ append(Rec(p), "prepared")
    \/ proc[p].pc = "publish" /\ (At(p) \in Deletes[Rec(p)] => file[At(p)] # None)
                             /\ publish(p)
    \/ proc[p].pc = "commit" /\ AllLive(Rec(p), "b1") /\ append(Rec(p), "committed")
    \/ proc[p].pc = "undo" /\ (Rollback(p) => file[At(p)] # None) /\ compensate(p)
    \/ proc[p].pc = "sweep" /\ cleanup_rollback(p)
    \/ proc[p].pc = "decide" /\ (proc[p].verdict = "committed" => AllLive(Rec(p), "b1"))
                            /\ append(Rec(p), proc[p].verdict)
    \/ proc[p].pc = "finalize" /\ At(p) \in Deletes[Rec(p)] /\ journal[Rec(p)] = "committed"
                              /\ cleanup_tombstone(p)
    \/ proc[p].pc = "clear" /\ clear_fence(p)

(* The write fails, or it takes effect and the fsync after it fails.       *)
IoError(p) ==
    /\ errors < MaxError
    /\ proc[p].pc \in {"fence", "prepare", "verify", "publish", "commit", "undo", "sweep",
                       "decide", "finalize", "clear"}
    /\ Write(p) \/ UNCHANGED disk
    /\ proc' = [proc EXCEPT ![p] = Raised(p)]
    /\ errors' = errors + 1
    /\ UNCHANGED <<plan, crashes, foreigns>>

(* The process dies: its locks are released, the disk stays.               *)
Crash(p) ==
    /\ crashes < MaxCrash
    /\ proc[p].pc # "idle"
    /\ Leave(p, "none")
    /\ crashes' = crashes + 1
    /\ UNCHANGED <<disk, plan, foreigns, errors>>

(* A program outside the protocol writes or removes a file.                *)
ForeignWrite(f) ==
    /\ foreigns < MaxForeign
    /\ \E v \in {None, [data |-> Foreign, undo |-> None]} :
          v # file[f] /\ file' = [file EXCEPT ![f] = v]
    /\ foreigns' = foreigns + 1
    /\ UNCHANGED <<tomb, rollback, journal, fences, plan, proc, crashes, errors>>

Step(p) ==
    \/ Admit(p) \/ ListFences(p) \/ PutFence(p) \/ AssertCurrent(p) \/ Prepare(p)
    \/ VerifyExpected(p) \/ Publish(p) \/ Confirm(p) \/ Commit(p)
    \/ Resolve(p) \/ CheckUndo(p) \/ Undo(p) \/ SweepRollback(p) \/ Decide(p)
    \/ Settle(p) \/ Finalize(p) \/ ClearFence(p)
    \/ ReconcileProject(p) \/ NoMoreFences(p)
    \/ \E u \in Txs : ReconcileFence(p, u)

Next ==
    \/ \E t \in Txs : Plan(t)
    \/ \E p \in Procs :
          \/ Step(p) \/ IoError(p) \/ Crash(p)
          \/ \E t \in Txs : Begin(p, t)
          \/ \E pr \in ProjectSet : Recover(p, pr)
    \/ \E f \in Files : ForeignWrite(f)

Spec == Init /\ [][Next]_vars

(* A process that has begun runs on (its threads are scheduled, locks are  *)
(* handed over), and the projects keep being reconciled, as every rewind   *)
(* and every resumed session does.                                         *)
Fairness ==
    /\ \A p \in Procs : WF_vars(Step(p))
    /\ \A pr \in ProjectSet : SF_vars(\E p \in Procs : Recover(p, pr))

FairSpec == Spec /\ Fairness

-----------------------------------------------------------------------------
(* Properties                                                              *)

Pcs == {"idle", "admit", "list", "fence", "assert", "prepare", "verify", "publish",
        "confirm", "commit", "settle", "finalize", "clear", "reconcile", "next"} \cup Resolving

(* Every variable has its type; a process holds locks exactly while it is  *)
(* inside a commit or the resolution of a fence.                           *)
TypeOK ==
    /\ file \in [Files -> Versions \cup {None}]
    /\ tomb \in [Txs -> [Files -> Versions \cup {None}]]
    /\ rollback \subseteq Txs \X Files
    /\ journal \in [Txs -> Statuses]
    /\ fences \subseteq ProjectSet \X Txs
    /\ \A t \in Txs : plan[t] = Unplanned \/ plan[t] \in [FilesOf(t) -> Versions \cup {None}]
    /\ \A p \in Procs :
          /\ proc[p].pc \in Pcs
          /\ (proc[p].lease = "none") <=> (proc[p].pc \in {"idle", "admit", "reconcile", "next"})
          /\ proc[p].lease = "shared" => proc[p].tx \in Txs /\ Rec(p) \in {None, proc[p].tx}
          /\ proc[p].lease = "excl" => Rec(p) \in Txs /\ Rec(p) \in proc[p].todo
    /\ crashes \in 0..MaxCrash /\ foreigns \in 0..MaxForeign /\ errors \in 0..MaxError

(* A transaction journalled as PREPARED has its fence in each of its       *)
(* projects, so that whoever comes next finds it, and the locks a process  *)
(* holds are those of the transaction it commits or recovers (TypeOK).     *)
PreparedFenced ==
    /\ TypeOK
    /\ \A t \in Txs : journal[t] = "prepared" => \A pr \in ProjectsOf(t) : <<pr, t>> \in fences

(* Who changes file f in a step: the processes at a publishing or          *)
(* compensating rename.                                                    *)
ManagedWrite(p, f) ==
    /\ proc[p].pc \in {"publish", "undo"} /\ At(p) = f
    /\ proc'[p] # proc[p] /\ file'[f] # file[f]

(* While a transaction is unresolved nobody but its committer or the       *)
(* recovery resolving it writes to its files, and once it is in doubt      *)
(* nobody does.                                                            *)
Quarantined ==
    [][\A p \in Procs, f \in Files : ManagedWrite(p, f) =>
         \A t \in Txs : f \in FilesOf(t) /\ journal[t] \in {"prepared", "in_doubt"} =>
            Rec(p) = t /\ journal[t] = "prepared"]_vars


(* Without an outside writer no crash and no failed write leaves a         *)
(* transaction in doubt.                                                   *)
DoubtOnlyForeign ==
    \A t \in Txs : journal[t] = "in_doubt" => foreigns > 0

(* A transaction in doubt keeps out only those that share a file with it,  *)
(* not the rest of the project.                                            *)
DoubtContained ==
    \A p \in Procs : proc[p].err = "in_doubt" /\ proc[p].refused # None =>
        \E t \in Txs : journal[t] = "in_doubt"
                       /\ FilesOf(t) \cap FilesOf(proc[p].refused) # {}


(* When the last fence of a committed transaction is gone, so are its      *)
(* tombstones: nothing will look for them again.                           *)
TombstonesSwept ==
    \A t \in Txs : journal[t] \in {"committed", "aborted"}
                   /\ (\A pr \in ProjectsOf(t) : <<pr, t>> \notin fences)
        => \A f \in Files : tomb[t][f] = None

(* A transaction left PREPARED, whatever crashed or failed, is resolved,   *)
(* and the fences of a terminal one are all cleared in the end             *)
(* (file-operation-safety-plan.md: "the reservation of a terminal event    *)
(* can be cleared"), where it touched one project: a crash between two     *)
(* projects leaves a fence that nothing clears (README.md).                *)
EventuallyResolved ==
    \A t \in Txs :
        /\ journal[t] = "prepared" ~> journal[t] # "prepared"
        /\ Cardinality(ProjectsOf(t)) = 1 =>
             (journal[t] \in {"committed", "aborted"}
              ~> \A pr \in ProjectsOf(t) : <<pr, t>> \notin fences)

-----------------------------------------------------------------------------
(* Refinement: the files as those see them who wait for the locks and      *)
(* reconcile first.  An unresolved transaction has not happened yet.       *)

Data(v) == IF v = None THEN None ELSE v.data

Pending(f) == {t \in Txs : journal[t] = "prepared" /\ f \in FilesOf(t)}

Settled(f) ==
    IF Pending(f) = {} THEN Data(file[f])
    ELSE Data(plan[CHOOSE t \in Pending(f) : TRUE][f])

Abstract == INSTANCE AtomicFiles WITH
    content <- [f \in Files |-> Settled(f)],
    planned <- [t \in Txs |-> [f \in DOMAIN plan[t] |-> Data(plan[t][f])]],
    outcome <- [t \in Txs |-> IF journal[t] \in {"committed", "aborted"} THEN journal[t]
                              ELSE "open"]

(* Among cooperating processes a mutation set takes effect atomically or   *)
(* not at all, through every crash, failed write and recovery; the         *)
(* COMMITTED record is the moment it does.                                 *)
Atomic == Abstract!ASpec
=============================================================================
