--------------------------- MODULE BackgroundPool ---------------------------
(***************************************************************************)
(* The pool of background tasks (src/orchestration/background_tasks/       *)
(* pool.py) with the operations it runs: coroutine factories (operation.py)*)
(* and workflow runs (src/product/workflows/background_adapter.py), tasks  *)
(* adopted from the foreground (promotion.py), and the tools that cancel,  *)
(* resume and inspect a task.                                              *)
(*                                                                         *)
(* A task id has one asyncio task at a time, a run; resuming an id starts  *)
(* another run.  Wording, output files, progress and telemetry are left    *)
(* out.  A step is what happens between two awaits; a task that is done    *)
(* calls _on_done a step later.                                            *)
(***************************************************************************)
EXTENDS Naturals, FiniteSets

CONSTANTS
    Ids, None,
    Kind,           \* id -> "graph", "plain" or "adopted"
    MaxConcurrency, \* permits of the semaphore
    MaxRuns,        \* bound: runs, of all ids
    MaxCancels      \* bound: runs a caller cancels

ASSUME PoolAssumption ==
    /\ Kind \in [Ids -> {"graph", "plain", "adopted"}]
    /\ {MaxConcurrency, MaxRuns, MaxCancels} \subseteq Nat \ {0}

Runs == 1..MaxRuns
Outcomes == {"success", "failed", "paused", "cancelled", "timeout"}

VARIABLES
    run,        \* the runs, in the order of their creation
    tasks,      \* id -> the run the pool tracks: _tasks and _operations
    meta,       \* id -> its TaskMeta, or None: _meta
    resource,   \* ids with a result pointer in the resource registry
    waiter,     \* a caller of wait_all
    pool,       \* how far aclose has come
    joined,     \* the runs aclose gathers
    overlapped  \* ids resumed while their former run was alive

vars == <<run, tasks, meta, resource, waiter, pool, joined, overlapped>>
closing == <<pool, joined>>

(* id None is a run not created yet.  live: the operation's own task is at *)
(* work; out is the operation's recorded outcome; icancel and tcancel are  *)
(* cancellations on their way to the inner task and to the run; stop is    *)
(* the task of _request_operation_stop, target what it waits for.          *)
Run == [id : Ids \cup {None}, timed : BOOLEAN,
        pc : {"queued", "running", "stopping", "closing", "done", "gone"},
        live : BOOLEAN, out : Outcomes \cup {None}, icancel : BOOLEAN, tcancel : BOOLEAN, result : Outcomes \cup {None},
        stop : {"none", "new", "asking", "waiting"}, target : Runs \cup {None},
        cancelled : BOOLEAN]

Meta == [status : Outcomes \cup {"pending", "running"}, retrieved : BOOLEAN, registered : BOOLEAN]

TypeOK ==
    /\ run \in [Runs -> Run]
    /\ tasks \in [Ids -> Runs \cup {None}]
    /\ meta \in [Ids -> Meta \cup {None}]
    /\ resource \subseteq Ids
    /\ waiter \in {"idle", "waiting", "woken"}
    /\ pool \in {"open", "stopping", "joining", "closed"}
    /\ joined \subseteq Runs
    /\ overlapped \subseteq Ids
    /\ Cardinality({r \in Runs : run[r].id # None /\ run[r].pc \in {"running", "stopping"}
                                 /\ Kind[run[r].id] # "adopted"}) <= MaxConcurrency

NewRun(id, pc, timed) ==
    [id |-> id, timed |-> timed, pc |-> pc, live |-> FALSE, out |-> None, icancel |-> FALSE,
     tcancel |-> FALSE, result |-> None, stop |-> "none", target |-> None,
     cancelled |-> FALSE]

Init ==
    /\ run = [r \in Runs |-> NewRun(None, "gone", FALSE)]
    /\ tasks = [id \in Ids |-> None]
    /\ meta = [id \in Ids |-> None]
    /\ resource = {} /\ waiter = "idle" /\ pool = "open" /\ joined = {} /\ overlapped = {}

KindOf(r) == Kind[run[r].id]
Alive(r) == run[r].pc # "gone"
Unfinished(r) == run[r].pc \notin {"done", "gone"}
Pending == \E id \in Ids : tasks[id] # None     \* has_pending

(* The runs with a permit of the semaphore.                                *)
Holders == {r \in Runs : run[r].pc \in {"running", "stopping"} /\ KindOf(r) # "adopted"}

(* The next run to be created, while there is one.                         *)
Unused(r) == run[r].id = None /\ \A q \in 1..(r - 1) : run[q].id # None
Unknown(id) == \A r \in Runs : run[r].id # id

-----------------------------------------------------------------------------
(* submit and adopt.  The callers of the pool are closed before it is.     *)
Submit(r, id) ==
    /\ pool = "open" /\ Unused(r) /\ Unknown(id) /\ Kind[id] # "adopted"
    /\ run' = [run EXCEPT ![r] = NewRun(id, "queued", TRUE)]
    /\ tasks' = [tasks EXCEPT ![id] = r]
    /\ meta' = [meta EXCEPT ![id] = [status |-> "pending", retrieved |-> FALSE, registered |-> FALSE]]
    /\ UNCHANGED <<resource, waiter, closing, overlapped>>

Adopt(r, id) ==
    /\ pool = "open" /\ Unused(r) /\ Unknown(id) /\ Kind[id] = "adopted"
    /\ run' = [run EXCEPT ![r] = NewRun(id, "running", TRUE)]
    /\ tasks' = [tasks EXCEPT ![id] = r]
    /\ meta' = [meta EXCEPT ![id] = [status |-> "running", retrieved |-> FALSE, registered |-> FALSE]]
    /\ UNCHANGED <<resource, waiter, closing, overlapped>>

(* The run leaves its body: the permit is back, the operation is closed,   *)
(* which cancels what is left of it.                                       *)
Leave(x, outcome) == [x EXCEPT !.pc = "closing", !.timed = FALSE, !.icancel = x.live, !.out = None, !.result = outcome]

(* _run_with_semaphore gets a permit; an operation that was stopped before *)
(* it started returns the outcome of the stop.                             *)
Acquire(r) ==
    /\ run[r].pc = "queued" /\ ~run[r].tcancel
    /\ Cardinality(Holders) < MaxConcurrency
    /\ run' = [run EXCEPT ![r] = IF @.out # None THEN Leave(@, @.out)
                                 ELSE [@ EXCEPT !.pc = "running", !.live = TRUE]]
    /\ LET id == run[r].id IN
        meta' = [meta EXCEPT ![id] = IF @ # None /\ @.status = "pending"
                                     THEN [@ EXCEPT !.status = "running"] ELSE @]
    /\ UNCHANGED <<tasks, resource, waiter, closing, overlapped>>

(* The outcome on record; once the run has left, nobody reads it.          *)
Kept(x, o) ==
    IF x.pc = "closing" THEN None ELSE IF Kind[x.id] = "graph" /\ x.out # None THEN x.out ELSE o

(* The operation's task ends.  A workflow keeps the first outcome it was   *)
(* given; a cancelled coroutine may end as it likes.                       *)
InnerEnds(r) ==
    /\ run[r].live
    /\ \E o \in {"success", "failed"} \cup (IF KindOf(r) = "graph" THEN {"paused"} ELSE {})
                                      \cup (IF run[r].icancel THEN {"cancelled"} ELSE {}) :
        run' = [run EXCEPT ![r] = [@ EXCEPT !.live = FALSE, !.icancel = FALSE, !.out = Kept(run[r], o)]]
    /\ UNCHANGED <<tasks, meta, resource, waiter, closing, overlapped>>

(* execute returns and the run with it.                                    *)
Return(r) ==
    /\ run[r].pc = "running" /\ KindOf(r) # "adopted" /\ ~run[r].live /\ ~run[r].tcancel
    /\ run' = [run EXCEPT ![r] = Leave(@, @.out)]
    /\ UNCHANGED <<tasks, meta, resource, waiter, closing, overlapped>>

(* request_stop, up to its wait for the inner task.                        *)
Asked(x, outcome) ==
    [x EXCEPT !.icancel = @ \/ x.live, !.out = IF x.pc \in {"closing", "done", "gone"} \/ @ # None THEN @ ELSE outcome]

(* _execute_with_timeout: the time is up, perhaps just after the end.      *)
Timeout(r) ==
    /\ run[r].pc = "running" /\ KindOf(r) # "adopted" /\ run[r].timed /\ ~run[r].tcancel
    /\ run' = [run EXCEPT ![r] = [Asked(@, "timeout") EXCEPT !.pc = "stopping"]]
    /\ UNCHANGED <<tasks, meta, resource, waiter, closing, overlapped>>

TimedOut(r) ==
    /\ run[r].pc = "stopping" /\ ~run[r].live /\ ~run[r].tcancel
    /\ run' = [run EXCEPT ![r] = Leave(@, IF KindOf(r) = "graph" THEN @.out ELSE "timeout")]
    /\ UNCHANGED <<tasks, meta, resource, waiter, closing, overlapped>>

(* A cancellation reaches the run.  Without a timeout it is passed on to   *)
(* the inner task; with one the inner task is shielded from it.            *)
CancelLands(r) ==
    /\ run[r].tcancel /\ Unfinished(r) /\ KindOf(r) # "adopted"
    /\ run' = [run EXCEPT ![r] =
            IF @.pc = "running" /\ ~@.timed /\ @.live
            THEN [@ EXCEPT !.tcancel = FALSE, !.icancel = TRUE]
            ELSE [Leave(@, "cancelled") EXCEPT !.tcancel = FALSE]]
    /\ UNCHANGED <<tasks, meta, resource, waiter, closing, overlapped>>

(* _close_operation is over, and the task is done.                         *)
Finish(r) ==
    /\ run[r].pc = "closing" /\ ~run[r].live /\ ~run[r].tcancel
    /\ run' = [run EXCEPT ![r] = [@ EXCEPT !.pc = "done"]]
    /\ UNCHANGED <<tasks, meta, resource, waiter, closing, overlapped>>

(* An adopted task ends, with a value or an exception.                     *)
AdoptedEnds(r) ==
    /\ run[r].pc = "running" /\ KindOf(r) = "adopted"
    /\ \E o \in {"success", "failed", "timeout"} \cup (IF run[r].tcancel THEN {"cancelled"} ELSE {}) :
        run' = [run EXCEPT ![r] = [@ EXCEPT !.pc = "done", !.result = o]]
    /\ UNCHANGED <<tasks, meta, resource, waiter, closing, overlapped>>

-----------------------------------------------------------------------------

(* The status _on_done tells: a value returned by a task that was being    *)
(* cancelled is a cancellation, an exception is told as it is.             *)
Announced(r) ==
    LET m == meta[run[r].id]
        raised == KindOf(r) = "adopted" /\ run[r].result \in {"failed", "timeout"}
    IN  IF m # None /\ m.status = "cancelled" /\ ~raised THEN "cancelled" ELSE run[r].result

(* _maybe_reap_meta.                                                       *)
Reaped(m, tracked) ==
    IF m # None /\ m.retrieved /\ tracked = None /\ m.status # "paused" THEN None ELSE m

(* Mutant: the run stays tracked until the pool is closed. *)
Untracked_Late(id) == tasks

(* The entry of the id is popped, whichever run it names.                  *)
Untracked(id) == [tasks EXCEPT ![id] = None]

(* _on_done: the status is told, an unconsumed result is registered, the   *)
(* waiters are woken, the entry is removed, the meta reaped.               *)
OnDone(r) ==
    /\ run[r].pc = "done"
    /\ LET id == run[r].id
           status == Announced(r)
           registers == meta[id] # None /\ ~meta[id].registered /\ ~meta[id].retrieved
           m == IF meta[id] = None THEN None
                ELSE [meta[id] EXCEPT !.status = status, !.registered = @ \/ registers]
       IN  /\ run' = [run EXCEPT ![r] = [NewRun(id, "gone", FALSE) EXCEPT !.cancelled = run[r].cancelled,
                                            !.stop = run[r].stop, !.target = run[r].target]]
           /\ resource' = IF registers THEN resource \cup {id} ELSE resource
           /\ tasks' = Untracked(id)
           /\ meta' = [meta EXCEPT ![id] = Reaped(m, tasks'[id])]
           /\ waiter' = IF waiter = "waiting" THEN "woken" ELSE waiter
    /\ UNCHANGED <<closing, overlapped>>

(* mark_retrieved: the pointer is retired and the meta perhaps reaped.     *)
Retrieved(id, m) ==
    /\ resource' = resource \ {id}
    /\ meta' = [meta EXCEPT ![id] = Reaped([m EXCEPT !.retrieved = TRUE], tasks[id])]

(* cancel: the run itself if it was adopted, else a task that asks the     *)
(* operation to stop.                                                      *)
CancelRun(x) ==
    IF Kind[x.id] = "adopted" THEN [x EXCEPT !.tcancel = TRUE, !.cancelled = TRUE]
    ELSE [x EXCEPT !.stop = "new", !.cancelled = TRUE]

Cancels == Cardinality({r \in Runs : run[r].cancelled})

(* The CancelTasks tool: cancel, then mark_retrieved.                      *)
CancelTool(id) ==
    /\ pool = "open" /\ tasks[id] # None /\ meta[id] # None /\ Cancels < MaxCancels
    /\ meta[id].status \in {"pending", "running", "paused"}
    /\ run[tasks[id]].stop = "none"
    /\ run' = [run EXCEPT ![tasks[id]] = CancelRun(@)]
    /\ Retrieved(id, [meta[id] EXCEPT !.status = "cancelled"])
    /\ UNCHANGED <<tasks, waiter, closing, overlapped>>

(* cancel_for_cap: no look at the status.  One stop at a time per run.     *)
CancelForCap(id) ==
    /\ tasks[id] # None /\ run[tasks[id]].stop = "none" /\ ~run[tasks[id]].cancelled
    /\ pool = "open" /\ Cancels < MaxCancels
    /\ run' = [run EXCEPT ![tasks[id]] = CancelRun(@)]
    /\ meta' = [meta EXCEPT ![id] = IF @ = None THEN @ ELSE [@ EXCEPT !.status = "cancelled"]]
    /\ UNCHANGED <<tasks, resource, waiter, closing, overlapped>>

Stopping(r) == [Asked(run[r], "cancelled") EXCEPT !.stop = "asking", !.target = tasks[run[r].id]]

(* _request_operation_stop starts, and only now looks the run up.          *)
StopBegins(r) ==
    /\ run[r].stop = "new"
    /\ run' = [run EXCEPT ![r] = Stopping(r)]
    /\ UNCHANGED <<tasks, meta, resource, waiter, closing, overlapped>>

(* The operation has stopped: one second for the run to end as well.       *)
StopAsked(r) ==
    /\ run[r].stop = "asking" /\ ~run[r].live
    /\ LET t == run[r].target IN
        run' = [run EXCEPT ![r] = IF t # None /\ Unfinished(t) THEN [@ EXCEPT !.stop = "waiting"]
                                  ELSE [@ EXCEPT !.stop = "none", !.target = None]]
    /\ UNCHANGED <<tasks, meta, resource, waiter, closing, overlapped>>

(* Mutant: a second passes, and nothing is cancelled. *)
StopImpatient_Leaves(r) ==
    /\ \/ run[r].stop = "asking" /\ run[r].live
       \/ run[r].stop = "waiting"
    /\ run' = [run EXCEPT ![r].stop = "none"]
    /\ UNCHANGED <<tasks, meta, resource, waiter, closing, overlapped>>

(* A second passes while the operation stops or the run ends: the run is   *)
(* cancelled, unless it is done.                                           *)
StopImpatient(r) ==
    /\ \/ run[r].stop = "asking" /\ run[r].live
       \/ run[r].stop = "waiting"
    /\ LET t == run[r].target IN
        run' = [q \in Runs |-> [run[q] EXCEPT !.stop = IF q = r THEN "none" ELSE @,
                                              !.target = IF q = r THEN None ELSE @,
                                              !.tcancel = @ \/ (q = t /\ Unfinished(q))]]
    /\ UNCHANGED <<tasks, meta, resource, waiter, closing, overlapped>>

StopJoined(r) ==
    /\ run[r].stop = "waiting" /\ ~Unfinished(run[r].target)
    /\ run' = [run EXCEPT ![r] = [@ EXCEPT !.stop = "none", !.target = None]]
    /\ UNCHANGED <<tasks, meta, resource, waiter, closing, overlapped>>

-----------------------------------------------------------------------------
(* Mutant: the flags of the former run are kept. *)
Resumed_KeepsFlags(m) == [m EXCEPT !.status = "running"]

(* What resubmit resets.                                                   *)
Resumed(m) == [status |-> "running", retrieved |-> FALSE, registered |-> FALSE]

(* The ResumeTasks tool, and resubmit: anything but a success or a running *)
(* task is given a new run, without a timeout, also one still being        *)
(* cancelled or still in the queue.                                        *)
Resubmit(r, id) ==
    /\ pool = "open" /\ Unused(r) /\ Kind[id] = "graph"
    /\ meta[id] # None /\ meta[id].status \notin {"success", "running"}
    /\ run' = [run EXCEPT ![r] = NewRun(id, "queued", FALSE)]
    /\ tasks' = [tasks EXCEPT ![id] = r]
    /\ meta' = [meta EXCEPT ![id] = Resumed(@)]
    /\ resource' = IF meta[id].registered THEN resource \ {id} ELSE resource
    /\ overlapped' = IF tasks[id] = None THEN overlapped ELSE overlapped \cup {id}
    /\ UNCHANGED <<waiter, closing>>

(* The GetNodeState tool: a look at a workflow, running or over, is a      *)
(* consume, unless it is paused.                                           *)
Inspect(id) ==
    /\ pool = "open" /\ Kind[id] = "graph" /\ meta[id] # None /\ meta[id].status # "paused"
    /\ Retrieved(id, meta[id])
    /\ UNCHANGED <<run, tasks, waiter, closing, overlapped>>

(* wait_all: as long as something is pending, the next completion.         *)
WaitAll ==
    /\ waiter = "idle" /\ pool = "open" /\ Pending
    /\ waiter' = "waiting"
    /\ UNCHANGED <<run, tasks, meta, resource, closing, overlapped>>

Recheck ==
    /\ waiter = "woken"
    /\ waiter' = IF Pending THEN "waiting" ELSE "idle"
    /\ UNCHANGED <<run, tasks, meta, resource, closing, overlapped>>

Tracked == {tasks[id] : id \in Ids} \ {None}

(* aclose: every operation is asked to stop ...                            *)
CloseBegins ==
    /\ pool = "open"
    /\ pool' = "stopping"
    /\ run' = [r \in Runs |-> IF r \in Tracked /\ KindOf(r) # "adopted" /\ run[r].stop = "none"
                              THEN Stopping(r) ELSE run[r]]
    /\ UNCHANGED <<tasks, meta, resource, waiter, joined, overlapped>>

(* Mutant: only the runs that outlived the stop are gathered. *)
CloseCancels_Some ==
    /\ pool = "stopping" /\ \A r \in Runs : run[r].stop = "none"
    /\ pool' = "joining"
    /\ joined' = {r \in Tracked : run[r].pc = "done"}
    /\ run' = [r \in Runs |-> IF r \in Tracked /\ Unfinished(r)
                              THEN [run[r] EXCEPT !.tcancel = TRUE] ELSE run[r]]
    /\ UNCHANGED <<tasks, meta, resource, waiter, overlapped>>

(* ... then the runs that are left are cancelled ...                       *)
CloseCancels ==
    /\ pool = "stopping" /\ \A r \in Runs : run[r].stop = "none"
    /\ pool' = "joining"
    /\ joined' = Tracked
    /\ run' = [r \in Runs |-> IF r \in Tracked /\ Unfinished(r)
                              THEN [run[r] EXCEPT !.tcancel = TRUE] ELSE run[r]]
    /\ UNCHANGED <<tasks, meta, resource, waiter, overlapped>>

(* ... and gathered; the waiters are cancelled.                            *)
CloseEnds ==
    /\ pool = "joining" /\ \A r \in joined : ~Alive(r)
    /\ pool' = "closed" /\ joined' = {}
    /\ tasks' = [id \in Ids |-> None]
    /\ waiter' = "idle"
    /\ UNCHANGED <<run, meta, resource, overlapped>>

-----------------------------------------------------------------------------
Caller ==
    \/ \E r \in Runs, id \in Ids : Submit(r, id) \/ Adopt(r, id) \/ Resubmit(r, id)
    \/ \E id \in Ids : CancelTool(id) \/ CancelForCap(id) \/ Inspect(id)
    \/ WaitAll \/ CloseBegins

(* What the event loop does of itself once a task, or its timer, is ready. *)
Loop(r) ==
    \/ Acquire(r) \/ Return(r) \/ TimedOut(r) \/ CancelLands(r) \/ Finish(r) \/ OnDone(r)
    \/ StopBegins(r) \/ StopAsked(r) \/ StopImpatient(r) \/ StopJoined(r)

Next ==
    \/ Caller
    \/ \E r \in Runs : Loop(r) \/ InnerEnds(r) \/ AdoptedEnds(r) \/ Timeout(r)
    \/ Recheck \/ CloseCancels \/ CloseEnds

Spec == Init /\ [][Next]_vars

(* The event loop runs what is ready, and a coroutine that is cancelled    *)
(* ends; nothing says that one that is not ever does.                      *)
FairSpec ==
    Spec /\ WF_vars(\/ CloseCancels \/ CloseEnds
                    \/ \E r \in Runs : \/ Loop(r)
                                       \/ run[r].icancel /\ InnerEnds(r)
                                       \/ run[r].tcancel /\ AdoptedEnds(r))

-----------------------------------------------------------------------------
(* The pool knows every run that is alive: has_pending and aclose look in  *)
(* _tasks only, so a closed pool has left nothing behind ("Cancel and join *)
(* every owned task").  Ids resumed while the former run was alive are the *)
(* exception: the former's _on_done pops the entry of the new run.  And a  *)
(* run that is over has no coroutine of its operation still at work        *)
(* (_close_operation), whatever stopped it: a cancel racing a timeout, the *)
(* end of the pool, a stop that took more than its second.                 *)
AllTracked ==
    /\ TypeOK
    /\ \A r \in Runs :
         /\ Alive(r) => run[r].id \in overlapped \/ tasks[run[r].id] = r
         /\ run[r].live => Unfinished(r)

(* A run is told to be over.                                               *)
Over(r) == run[r].pc = "done" /\ run'[r].pc = "gone" /\ run[r].id \notin overlapped


(* Whoever waits for the tasks has a completion to come: none was missed   *)
(* between the look and the wait (_next_completion).                       *)
NoLostCompletion == waiter = "waiting" => \E r \in Runs : Alive(r)

(* The result of a task that is over and that nobody consumed has its      *)
(* pointer in the registry, and no pointer survives a consume, a resume or *)
(* the meta (registered_resource, mark_retrieved, resubmit).               *)
PointerKept ==
    \A id \in Ids \ overlapped :
        id \in resource <=> meta[id] # None /\ tasks[id] = None /\ ~meta[id].retrieved

(* Cancelled runs that are not over.                                       *)
Ending == {r \in Runs : run[r].cancelled /\ Alive(r) /\ run[r].id \notin overlapped}

(* What is stopped ends.  A cancelled run does, queued behind a full pool, *)
(* in an operation that does not stop, or in the middle of a timeout       *)
(* (_request_operation_stop), and aclose returns.                          *)
StopsEnd ==
    /\ Ending # {} ~> Ending = {}
    /\ pool = "stopping" ~> pool = "closed"

=============================================================================
