--------------------------- MODULE WorkflowEngine ---------------------------
(***************************************************************************)
(* The frontier scheduler of workflows                                     *)
(* (src/orchestration/workflows/engine.py): a driver that spawns one task  *)
(* per activated node, reaps the finished ones in batches, follows their   *)
(* edges, and ends in success, failure, a pause or a stall, from which a   *)
(* new driver resumes with the records of the old one.                     *)
(*                                                                         *)
(* A graph is a record: nodes, entry nodes, edges, routers (node -> the    *)
(* targets its router may name), joins (waiting edges, a sequence) and the *)
(* nodes with an LLM edge.  What nodes compute is left out; a node task    *)
(* ends well or badly after its own retries.                               *)
(***************************************************************************)
EXTENDS Naturals, Sequences, SequencesExt, FiniteSets

CONSTANTS
    Nodes, End, None,
    Graphs,         \* graphs a run may execute
    RecursionLimit, \* activations of one driver
    MaxFaults,      \* bound: node tasks that fail and drivers that are cancelled
    MaxResume       \* bound: drivers after the first, with one node skipped each

ASSUME WorkflowAssumption ==
    /\ End \notin Nodes
    /\ \A g \in Graphs :
        /\ g.nodes \subseteq Nodes /\ g.entry \subseteq g.nodes /\ g.llm \subseteq g.nodes
        /\ g.edges \subseteq g.nodes \X (g.nodes \cup {End})
        /\ \A n \in DOMAIN g.routers : g.routers[n] \subseteq g.nodes \cup {End}
        /\ \A i \in DOMAIN g.joins : g.joins[i].sources \subseteq g.nodes /\ g.joins[i].to \in g.nodes

VARIABLES
    graph,
    task,       \* node -> its task of this driver, reaped or not
    stray,      \* nodes whose task a cancelled driver left running
    status,     \* node -> status in the run state, kept over resumes
    completed,  \* the driver's completed set
    arrivals,   \* join target -> sources arrived: trigger_count
    errors,     \* all_errors is not empty
    activations,
    batch,      \* done tasks the driver is going through, without a pause
    driver,     \* "run", or how the driver ended
    owed,       \* nodes successors or a resume named, in this driver
    ran,        \* nodes reaped, in this driver
    fresh,      \* join -> sources followed since it last fired
    stale,      \* a join has fired on an arrival of an earlier round
    fails, resumes, cancels     \* counters behind the bounds

vars == <<graph, task, stray, status, completed, arrivals, errors, activations, batch, driver,
          owed, ran, fresh, stale, fails, resumes, cancels>>
history == <<fails, resumes, cancels>>

Tasks == {"none", "new", "run", "ok", "err"}
Statuses == {"pending", "running", "success", "failed", "cancelled", "skipped"}
Ends == {"success", "rejected", "failed", "fatal", "paused", "stalled", "cancelled"}
Joins == DOMAIN graph.joins

TypeOK ==
    /\ graph \in Graphs
    /\ task \in [Nodes -> Tasks]
    /\ stray \subseteq Nodes
    /\ status \in [Nodes -> Statuses]
    /\ completed \subseteq Nodes
    /\ arrivals \in [Nodes -> SUBSET Nodes]
    /\ errors \in BOOLEAN
    /\ activations \in 0..RecursionLimit
    /\ batch \subseteq Nodes
    /\ driver \in Ends \cup {"run"}
    /\ owed \subseteq Nodes /\ ran \subseteq Nodes
    /\ fresh \in [Joins -> SUBSET Nodes]
    /\ stale \in BOOLEAN
    /\ {fails, resumes, cancels} \subseteq Nat

-----------------------------------------------------------------------------
(* The driver's synchronous code works on a record of its own state, a.    *)
(* stop is the exception that ends it, or None.                            *)

NoTasks == [n \in Nodes |-> "none"]
InFlight(a) == {n \in Nodes : a.task[n] # "none"}

(* spawn, for each of a set of nodes: the ones in flight are passed over.  *)
Spawn(a, ns) ==
    LET new == (ns \ {End}) \ InFlight(a)
        count == a.activations + Cardinality(new)
    IN  IF count > RecursionLimit THEN [a EXCEPT !.stop = "fatal"]
        ELSE [a EXCEPT !.owed = @ \cup (ns \ {End}),
                       !.activations = count,
                       !.task = [n \in Nodes |-> IF n \in new THEN "new" ELSE a.task[n]]]

Statics(n) == {e[2] : e \in {d \in graph.edges : d[1] = n}}

(* Mutant: the arrivals of a join that fires are kept. *)
Arrive_Kept(n, a, i) ==
    LET j == graph.joins[i]
        here == a.arrivals[j.to] \cup {n}
        since == a.fresh[i] \cup {n}
        fires == j.sources \subseteq here
    IN  IF n \notin j.sources THEN a
        ELSE [a EXCEPT !.arrivals = [@ EXCEPT ![j.to] = here],
                       !.fresh = [@ EXCEPT ![i] = IF fires THEN {} ELSE since],
                       !.stale = a.stale \/ (fires /\ ~(j.sources \subseteq since)),
                       !.out = IF fires THEN a.out \cup {j.to} ELSE a.out]

(* A waiting edge: n arrives, and the last source fires and clears it.     *)
Arrive(n, a, i) ==
    LET j == graph.joins[i]
        here == a.arrivals[j.to] \cup {n}
        since == a.fresh[i] \cup {n}
        fires == j.sources \subseteq here
    IN  IF n \notin j.sources THEN a
        ELSE [a EXCEPT !.arrivals = [@ EXCEPT ![j.to] = IF fires THEN {} ELSE here],
                       !.fresh = [@ EXCEPT ![i] = IF fires THEN {} ELSE since],
                       !.stale = a.stale \/ (fires /\ ~(j.sources \subseteq since)),
                       !.out = IF fires THEN a.out \cup {j.to} ELSE a.out]

(* successors(n), and the spawns, as the set of outcomes: an LLM edge      *)
(* pauses, a router raises or names a target, static edges and full joins  *)
(* fire.                                                                   *)
Routed(n) == IF n \in DOMAIN graph.routers THEN graph.routers[n] ELSE {End}

Follow(a, n) ==
    IF n \in graph.llm THEN {[a EXCEPT !.stop = "paused"]}
    ELSE {Spawn(b, b.out) : b \in {FoldLeft(LAMBDA x, i : Arrive(n, x, i),
                                            [a EXCEPT !.out = {route} \cup Statics(n)],
                                            [i \in Joins |-> i]) : route \in Routed(n)}}
         \cup {[a EXCEPT !.stop = "fatal"] : r \in {n} \cap DOMAIN graph.routers}

(* A done task leaves running and scheduled.                               *)
Popped(a, n) == [a EXCEPT !.task = [@ EXCEPT ![n] = "none"], !.ran = @ \cup {n}]



(* One done task: its error is noted, or its edges are followed.           *)
Reaped(a, n) ==
    IF a.task[n] = "err" THEN {[Popped(a, n) EXCEPT !.errors = TRUE]}
    ELSE UNION {Follow(p, n) : p \in {Popped(a, n)}}

(* _detect_stall: a join part of whose sources arrived and whose target    *)
(* never completed.                                                        *)
Stalled(a, done) ==
    \E i \in Joins :
        /\ graph.joins[i].to \notin done
        /\ a.arrivals[graph.joins[i].to] # {}
        /\ ~(graph.joins[i].sources \subseteq a.arrivals[graph.joins[i].to])

(* How the driver goes on: it waits for more tasks; it stops on an         *)
(* exception, cancelling what runs (a task that never began leaves no      *)
(* trace); or the frontier is drained, and the output may be refused.      *)
Settle(a, done) ==
    \/ /\ a.stop # None
       /\ task' = NoTasks
       /\ status' = [n \in Nodes |-> IF a.task[n] = "run" THEN "cancelled" ELSE a.status[n]]
       /\ driver' = a.stop
    \/ /\ a.stop = None
       /\ task' = a.task /\ status' = a.status
       /\ \/ InFlight(a) # {} /\ driver' = "run"
          \/ InFlight(a) = {} /\ a.errors /\ driver' = "failed"
          \/ InFlight(a) = {} /\ ~a.errors /\ Stalled(a, done) /\ driver' = "stalled"
          \/ InFlight(a) = {} /\ ~a.errors /\ ~Stalled(a, done) /\ driver' \in {"success", "rejected"}

Become(a) ==
    /\ arrivals' = a.arrivals /\ errors' = a.errors /\ activations' = a.activations
    /\ owed' = a.owed /\ ran' = a.ran /\ fresh' = a.fresh /\ stale' = a.stale

Idle == [task |-> NoTasks, status |-> [n \in Nodes |-> "pending"], arrivals |-> [n \in Nodes |-> {}],
         errors |-> FALSE, activations |-> 0, owed |-> {}, ran |-> {},
         fresh |-> [i \in Joins |-> {}], stale |-> FALSE, stop |-> None, out |-> {}]

Init ==
    /\ graph \in Graphs
    /\ LET a == Spawn(Idle, graph.entry) IN
        /\ task = a.task /\ owed = a.owed /\ activations = a.activations
        /\ status = a.status /\ arrivals = a.arrivals /\ fresh = a.fresh
    /\ batch = {} /\ stray = {} /\ completed = {} /\ errors = FALSE /\ driver = "run"
    /\ ran = {} /\ stale = FALSE
    /\ fails = 0 /\ resumes = 0 /\ cancels = 0

-----------------------------------------------------------------------------
(* A node task starts: mark_running.                                       *)
Begin(n) ==
    /\ batch = {} /\ task[n] = "new"
    /\ task' = [task EXCEPT ![n] = "run"]
    /\ status' = [status EXCEPT ![n] = "running"]
    /\ UNCHANGED <<graph, stray, completed, arrivals, errors, activations, batch, driver, owed, ran, fresh, stale, history>>

(* It succeeds: the updates are merged and the node is completed.          *)
Succeed(n) ==
    /\ batch = {} /\ task[n] = "run"
    /\ task' = [task EXCEPT ![n] = "ok"]
    /\ status' = [status EXCEPT ![n] = "success"]
    /\ completed' = completed \cup {n}
    /\ UNCHANGED <<graph, stray, arrivals, errors, activations, batch, driver, owed, ran, fresh, stale, history>>

(* It fails: marked so, except when it returned what is not a dict.        *)
Fail(n) ==
    /\ batch = {} /\ task[n] = "run" /\ fails + cancels < MaxFaults
    /\ fails' = fails + 1
    /\ task' = [task EXCEPT ![n] = "err"]
    /\ \E s \in {"failed", "running"} : status' = [status EXCEPT ![n] = s]
    /\ UNCHANGED <<graph, stray, completed, arrivals, errors, activations, batch, driver, owed, ran, fresh, stale, resumes, cancels>>

Now == [task |-> task, status |-> status, arrivals |-> arrivals, errors |-> errors,
        activations |-> activations, owed |-> owed, ran |-> ran, fresh |-> fresh,
        stale |-> stale, stop |-> None, out |-> {}]

(* asyncio.wait returns every task done by now.                            *)
Wait ==
    /\ driver = "run" /\ batch = {}
    /\ batch' = {n \in Nodes : task[n] \in {"ok", "err"}}
    /\ batch' # {}
    /\ UNCHANGED <<graph, task, stray, status, completed, arrivals, errors, activations, driver, owed, ran, fresh, stale, history>>

(* The loop over them, in any order, with no await: an exception leaves    *)
(* the rest of the batch unreaped.                                         *)
Reap(n) ==
    /\ n \in batch
    /\ \E a \in UNION {Reaped(now, n) : now \in {Now}} :
        /\ Become(a)
        /\ batch' = IF a.stop = None THEN batch \ {n} ELSE {}
        /\ IF a.stop = None /\ batch' # {}
           THEN task' = a.task /\ UNCHANGED <<status, driver>>
           ELSE Settle(a, completed)
    /\ UNCHANGED <<graph, stray, completed, history>>

(* The driver's own task is cancelled while it waits: nothing is caught,   *)
(* and its node tasks go on.                                               *)
CancelDriver ==
    /\ driver = "run" /\ batch = {} /\ fails + cancels < MaxFaults
    /\ cancels' = cancels + 1
    /\ driver' = "cancelled"
    /\ stray' = stray \cup {n \in Nodes : task[n] \in {"new", "run"}}
    /\ task' = NoTasks
    /\ UNCHANGED <<graph, status, completed, arrivals, errors, activations, batch, owed, ran, fresh, stale, fails, resumes>>

(* A stray task ends, and writes its record.                               *)
StrayEnds(n) ==
    /\ batch = {} /\ n \in stray
    /\ stray' = stray \ {n}
    /\ \E s \in {"success", "failed"} : status' = [status EXCEPT ![n] = s]
    /\ UNCHANGED <<graph, task, completed, arrivals, errors, activations, batch, driver, owed, ran, fresh, stale, history>>

Done(s) == {n \in Nodes : s[n] \in {"success", "skipped"}}

(* resume, resume_skip, resume_skip_and_from: a skipped node counts as     *)
(* completed and is followed, re-run nodes are reset and spawned, the      *)
(* joins are filled with what is complete.                                 *)
Resume(from, skip) ==
    /\ driver \in Ends \ {"success"} /\ resumes < MaxResume
    /\ from \cup skip # {}
    /\ resumes' = resumes + 1
    /\ LET marked == [n \in Nodes |-> IF n \in skip THEN "skipped" ELSE status[n]]
           names == Done(marked) \ from
           a == [Idle EXCEPT !.status = [n \in Nodes |-> IF n \in from THEN "pending" ELSE marked[n]],
                             !.arrivals = [m \in Nodes |-> UNION {graph.joins[i].sources \cap names :
                                                i \in {k \in Joins : graph.joins[k].to = m}}],
                             !.fresh = fresh, !.stale = stale]
       IN  /\ completed' = names
           /\ \E followed \in IF skip = {} THEN {a} ELSE UNION {Follow(a, n) : n \in skip} :
                \E b \in {IF followed.stop # None THEN followed ELSE Spawn(followed, from)} :
                    Become(b) /\ Settle(b, names)
    /\ UNCHANGED <<graph, stray, batch, fails, cancels>>

(* What the model asks to run again and to skip.                           *)
AtMostOne == {{}} \cup {{n} : n \in graph.nodes}

(* What the event loop does for a driver.                                  *)
Run == Wait \/ \E n \in Nodes : Begin(n) \/ Succeed(n) \/ Fail(n) \/ Reap(n)

Next ==
    \/ Run \/ CancelDriver
    \/ \E n \in Nodes : StrayEnds(n)
    \/ \E from, skip \in AtMostOne : Resume(from, skip)

Spec == Init /\ [][Next]_vars

(* The event loop runs what is ready, and nodes end: their stages have     *)
(* timeouts.                                                               *)
FairSpec == Spec /\ WF_vars(Run)

-----------------------------------------------------------------------------

(* A join fires on arrivals of its own round: each source was followed     *)
(* since it last fired, also around a cycle (the clear in successors).     *)
(* Only the prefill of a resume counts completions of an earlier round.    *)
(* And a first driver reports a stall exactly when a join whose target     *)
(* never completed has some source that did: success never hides one       *)
(* (_detect_stall).                                                        *)
JoinsSound ==
    LET cut(i) == /\ graph.joins[i].to \notin completed
                  /\ graph.joins[i].sources \cap completed # {}
    IN  /\ TypeOK
        /\ stale => resumes > 0
        /\ resumes = 0 /\ driver \in {"success", "stalled"} =>
             (driver = "stalled" <=> \E i \in Joins : cut(i))


=============================================================================
