----------------------------- MODULE AgentPlane -----------------------------
(***************************************************************************)
(* The live agent control plane of orchestration/agents: the map of live   *)
(* runtimes (control.py), the LRU residency that evicts them to disk       *)
(* (residency/manager.py, residency/store.py), the event-driven turn       *)
(* drivers (execution/turn_scheduler.py, lifecycle/runtime.py), the        *)
(* execution limiter and the queue of parked deliveries                    *)
(* (messaging/pending.py).                                                 *)
(*                                                                         *)
(* Everything runs on one asyncio event loop: a coroutine is atomic        *)
(* between two awaits that really suspend.  "running" is the task that     *)
(* holds the loop in the middle of such a section (None between two        *)
(* sections), so the helpers of one coroutine are separate actions here    *)
(* and still cannot interleave with another task.                          *)
(*                                                                         *)
(* A task is the driver of a runtime (it is named by the runtime: a        *)
(* runtime has at most one unfinished driver) or the pending-delivery      *)
(* waker.  Messages carry no publication id, mailboxes are sets, and a     *)
(* REJECTED turn is a COMPLETED one: nothing stated here tells them apart. *)
(***************************************************************************)
EXTENDS Naturals, Sequences, FiniteSets

CONSTANTS
    Agents,        \* session ids
    Runtimes,      \* AgentRuntime objects (bound: how many exist at a time)
    Waker,         \* the pending-delivery waker task
    None,          \* Python's None
    Msgs,          \* messages that may be sent
    To,            \* [Msgs -> Agents], the addressee
    Trigger,       \* the messages sent in TRIGGER_TURN mode
    Cap,           \* residency_capacity
    MaxExec,       \* the limiter's max_agents
    Resident0,     \* the residents at the start, least recently used first
    Spawnable,     \* agents that do not exist yet
    Note,          \* [Spawnable -> Msgs], the completion notice to the parent
    MaxFail,       \* bound: evictions and rehydrations that raise
    MaxInterrupt   \* bound: calls of interrupt

Tasks == Runtimes \cup {Waker}

Records == [mail : SUBSET Msgs, buf : SUBSET Msgs]
Empty == [mail |-> {}, buf |-> {}]

Final == {"completed", "errored", "interrupted"}
Status == Final \cup {"idle", "running"}

Parent(c) == To[Note[c]]

ASSUME ConstantsAssumption ==
    /\ None \notin Agents \cup Runtimes
    /\ Waker \notin Runtimes \cup {None}
    /\ To \in [Msgs -> Agents]
    /\ Trigger \subseteq Msgs
    /\ Cap \in Nat /\ MaxExec \in Nat \ {0}
    /\ MaxFail \in Nat /\ MaxInterrupt \in Nat
    /\ Resident0 \in Seq(Agents)
    /\ Spawnable \subseteq Agents
    /\ Note \in [Spawnable -> Msgs]
    /\ \A c, d \in Spawnable : Note[c] = Note[d] => c = d

VARIABLES
    runtimes,      \* AgentControl._runtimes: the live map
    rt,            \* the runtime objects
    disk,          \* residency records on disk
    writes,        \* DiskWriter._queue: records to write, who awaits each
    residents,     \* Residency._residents, LRU order
    pendingSlots,  \* Residency._pending_slots
    parked, keys,  \* PendingDeliveryQueue._queues and its key order
    wakerSet,      \* PendingDeliveryQueue._waker
    active,        \* AgentExecutionLimiter._active
    task,          \* where every task is, and the locals it holds
    cancel,        \* a CancelledError is due at the task's next step
    running,       \* the task holding the event loop
    interrupting,  \* runtimes whose driver an interrupt() awaits
    born, watch,   \* spawned agents and their completion watchers
    sent, consumed,\* history: messages accepted, messages a turn has read
    faults, interrupts

vars == <<runtimes, rt, disk, writes, residents, pendingSlots, parked, keys,
          wakerSet, active, task, cancel, running, interrupting, born, watch, sent,
          consumed, faults, interrupts>>

plane == <<runtimes, rt, disk, writes, residents>>
queue == <<parked, keys, wakerSet>>
history == <<born, watch, sent, faults, interrupts>>

-----------------------------------------------------------------------------
(* Objects                                                                 *)

(* Mutant: mail delivered to a rehydrated runtime does not wake it.        *)
NewRuntime_Asleep(a, rec, batch) ==
    [agent |-> a, status |-> "idle", turn |-> FALSE, wake |-> FALSE,
     stopped |-> FALSE, mail |-> rec.mail \cup batch, buf |-> rec.buf]

NewRuntime(a, rec, batch) ==
    [agent |-> a, status |-> "idle", turn |-> FALSE,
     wake |-> batch \cap Trigger # {}, stopped |-> FALSE,
     mail |-> rec.mail \cup batch, buf |-> rec.buf]

DeadRuntime ==
    [agent |-> None, status |-> "idle", turn |-> FALSE, wake |-> FALSE,
     stopped |-> TRUE, mail |-> {}, buf |-> {}]

NoTask ==
    [pc |-> "none", kind |-> "flush", todo |-> <<>>, target |-> None,
     scan |-> 0, candidate |-> None, victim |-> None]

Driver == [NoTask EXCEPT !.pc = "wait"]

Unreferenced(n) ==
    /\ rt[n] = DeadRuntime
    /\ task[n].pc = "none"
    /\ n \notin interrupting
    /\ \A a \in Agents : runtimes[a] # n
    /\ \A t \in Tasks : task[t].victim # n

(* Objects are interchangeable: a new one is any unreferenced name.        *)
Fresh ==
    {n \in Runtimes : /\ Unreferenced(n)
                      /\ n = CHOOSE x \in Runtimes : Unreferenced(x)}

(* Mutant: the mailbox is not looked at.                                   *)
is_unloadable_AnyMail(r) ==
    rt[r].status \in Final /\ ~rt[r].turn /\ rt[r].buf = {}

is_unloadable(r) ==
    /\ rt[r].status \in Final
    /\ ~rt[r].turn
    /\ rt[r].mail = {}
    /\ rt[r].buf = {}

-----------------------------------------------------------------------------
(* Residency bookkeeping                                                   *)

(* An agent is in such a sequence at most once (ResidentsBounded).        *)
Discard(s, a) ==
    IF \E i \in 1..Len(s) : s[i] = a
    THEN LET i == CHOOSE i \in 1..Len(s) : s[i] = a
         IN  SubSeq(s, 1, i - 1) \o SubSeq(s, i + 1, Len(s))
    ELSE s

Touch(s, a) == Append(Discard(s, a), a)

(* Mutant: one slot too many.                                              *)
Room_OffByOne == Len(residents) + pendingSlots <= Cap

Room == Len(residents) + pendingSlots < Cap

(* The front of the deque that is not the protected agent; the protected   *)
(* one is rotated to the back on the way.                                  *)
PopLru(protected) ==
    IF residents = <<>> THEN [candidate |-> None, rest |-> <<>>]
    ELSE IF Head(residents) # protected
    THEN [candidate |-> Head(residents), rest |-> Tail(residents)]
    ELSE IF Len(residents) = 1
    THEN [candidate |-> None, rest |-> residents]
    ELSE [candidate |-> residents[2],
          rest |-> Append(Tail(Tail(residents)), protected)]

-----------------------------------------------------------------------------
(* Mail: mailboxes and the parked queue                                    *)

has_capacity == active < MaxExec

Deliver(r, batch) ==
    rt' = [rt EXCEPT ![r] =
             [@ EXCEPT !.mail = rt[r].mail \cup batch,
                       !.wake = rt[r].wake \/ batch \cap Trigger # {}]]


park(m) ==
    /\ parked' = [parked EXCEPT ![To[m]] = @ \cup {m}]
    /\ keys' = IF parked[To[m]] = {} THEN Append(keys, To[m]) ELSE keys
    /\ wakerSet' = TRUE

(* Mutant: the batch is read but not removed.                              *)
take_all_Peeks(a) == UNCHANGED queue

(* take_all and drop both forget the agent's queue.                        *)
take_all(a) ==
    /\ parked' = [parked EXCEPT ![a] = {}]
    /\ keys' = Discard(keys, a)
    /\ UNCHANGED wakerSet

(* Rehydrate a on runtime n from its record, then enqueue a batch.         *)
install(a, n, batch) ==
    /\ runtimes' = [runtimes EXCEPT ![a] = n]
    /\ rt' = [rt EXCEPT ![n] = NewRuntime(a, disk[a], batch)]
    /\ residents' = Touch(residents, a)
    /\ disk' = [disk EXCEPT ![a] = None]
    /\ UNCHANGED writes

(* The synchronous delivery path: deliver, or load and deliver, or park.   *)
accept(m) ==
    LET a == To[m]
        blocked == m \in Trigger /\ ~has_capacity
    IN  \/ /\ runtimes[a] # None /\ ~blocked
           /\ Deliver(runtimes[a], {m})
           /\ residents' = Touch(residents, a)
           /\ UNCHANGED <<runtimes, disk, writes, task, queue>>
        \/ /\ runtimes[a] # None /\ blocked
           /\ park(m)
           /\ UNCHANGED <<plane, task>>
        \/ /\ runtimes[a] = None /\ disk[a] # None /\ Room
           /\ \E n \in Fresh :
                /\ install(a, n, IF blocked THEN {} ELSE {m})
                /\ task' = [task EXCEPT ![n] = Driver]
           /\ IF blocked THEN park(m) ELSE UNCHANGED queue
        \/ /\ runtimes[a] = None /\ disk[a] # None /\ ~Room
           /\ park(m)
           /\ UNCHANGED <<plane, task>>

-----------------------------------------------------------------------------
(* Cancellation: Task.cancel() on a task that awaits another task is       *)
(* passed on to the awaited one.                                           *)

Awaited(t) ==
    IF /\ task[t].pc = "join"
       /\ task[t].victim # t
       /\ task[task[t].victim].pc # "none"
    THEN task[t].victim ELSE t

Landing(t) ==
    LET follow[n \in 0..Cardinality(Runtimes)] ==
            IF n = 0 THEN t ELSE Awaited(follow[n - 1])
    IN  {u \in Runtimes : u = follow[Cardinality(Runtimes)]}

CancelTask(t) ==
    cancel' = [u \in Tasks |-> cancel[u] \/ u \in Landing(t)]

-----------------------------------------------------------------------------
Init ==
    \E f \in [1..Len(Resident0) -> Runtimes] :
    /\ \A i, j \in 1..Len(Resident0) : i # j => f[i] # f[j]
    /\ runtimes = [a \in Agents |->
                      IF \E i \in 1..Len(Resident0) : Resident0[i] = a
                      THEN f[CHOOSE i \in 1..Len(Resident0) : Resident0[i] = a]
                      ELSE None]
    /\ \E st \in [Agents -> {"idle", "completed"}] :
         rt = [r \in Runtimes |->
                 IF \E i \in 1..Len(Resident0) : f[i] = r
                 THEN LET a == Resident0[CHOOSE i \in 1..Len(Resident0) : f[i] = r]
                      IN  [NewRuntime(a, Empty, {}) EXCEPT !.status = st[a]]
                 ELSE DeadRuntime]
    /\ disk = [a \in Agents |->
                 IF a \in Spawnable \/ \E i \in 1..Len(Resident0) : Resident0[i] = a
                 THEN None ELSE Empty]
    /\ writes = <<>>
    /\ residents = Resident0
    /\ pendingSlots = 0
    /\ parked = [a \in Agents |-> {}] /\ keys = <<>> /\ wakerSet = FALSE
    /\ active = 0
    /\ task = [t \in Tasks |->
                 IF t = Waker \/ \E i \in 1..Len(Resident0) : f[i] = t
                 THEN Driver ELSE NoTask]
    /\ cancel = [t \in Tasks |-> FALSE]
    /\ running = None
    /\ interrupting = {}
    /\ born = {} /\ watch = [a \in Agents |-> "off"]
    /\ sent = {} /\ consumed = {}
    /\ faults = 0 /\ interrupts = 0

-----------------------------------------------------------------------------
(* Delivery                                                                *)

(* send_input and its structured twins.  A message with no runtime and no  *)
(* record to go to raises AgentNotFound and is not accepted.               *)
SendInput(m) ==
    /\ running = None
    /\ m \notin sent /\ \A c \in Spawnable : m # Note[c]
    /\ accept(m)
    /\ sent' = sent \cup {m}
    /\ UNCHANGED <<pendingSlots, active, cancel, running, interrupting, born,
                   watch, consumed, faults, interrupts>>

(* One poll of a completion watcher: silent when the child is not live.    *)
WatchPoll(c) ==
    /\ running = None
    /\ watch[c] = "on"
    /\ \/ /\ runtimes[c] = None
          /\ watch' = [watch EXCEPT ![c] = "gone"]
          /\ UNCHANGED <<plane, task, queue, sent>>
       \/ /\ runtimes[c] # None
          /\ LET r == rt[runtimes[c]]
             IN  r.status \in Final /\ ~r.turn /\ r.mail = {}
          /\ watch' = [watch EXCEPT ![c] = "told"]
          /\ accept(Note[c])
          /\ sent' = sent \cup {Note[c]}
    /\ UNCHANGED <<pendingSlots, active, cancel, running, interrupting, born,
                   consumed, faults, interrupts>>

-----------------------------------------------------------------------------
(* The driver of a runtime                                                 *)

(* A driver parked on wake_event resumes: leave if stopped, else clear the *)
(* event, stage the mailbox and enter role.run().                          *)
TurnStart(t) ==
    /\ running \in {None, t}
    /\ task[t].pc = "wait" /\ rt[t].wake /\ ~cancel[t]
    /\ running' = None
    /\ IF rt[t].stopped
       THEN /\ task' = [task EXCEPT ![t] = NoTask]
            /\ UNCHANGED <<rt, active>>
       ELSE /\ task' = [task EXCEPT ![t].pc = "turn"]
            /\ rt' = [rt EXCEPT ![t] =
                        [@ EXCEPT !.wake = FALSE, !.turn = TRUE,
                                  !.status = "running", !.mail = {},
                                  !.buf = rt[t].buf \cup rt[t].mail]]
            /\ active' = active + 1
    /\ UNCHANGED <<runtimes, disk, writes, residents, pendingSlots, queue, cancel,
                   interrupting, history, consumed>>

(* Mutants: the limiter's guard is released twice; or only when the turn   *)
(* was not cancelled.                                                      *)
LeaveTurn_Twice(t, st, read) ==
    /\ rt' = [rt EXCEPT ![t] = [@ EXCEPT !.turn = FALSE, !.status = st,
                                          !.buf = IF read THEN {} ELSE rt[t].buf]]
    /\ consumed' = IF read THEN consumed \cup rt[t].buf ELSE consumed
    /\ active' = active - 2

LeaveTurn_Leaks(t, st, read) ==
    /\ rt' = [rt EXCEPT ![t] = [@ EXCEPT !.turn = FALSE, !.status = st,
                                          !.buf = IF read THEN {} ELSE rt[t].buf]]
    /\ consumed' = IF read THEN consumed \cup rt[t].buf ELSE consumed
    /\ active' = IF st = "interrupted" THEN active ELSE active - 1

(* role.run() is left with a status, having read the staged messages or    *)
(* (an error or a cancellation may come first) not.                        *)
LeaveTurn(t, st, read) ==
    /\ rt' = [rt EXCEPT ![t] =
                [@ EXCEPT !.turn = FALSE, !.status = st,
                          !.buf = IF read THEN {} ELSE rt[t].buf]]
    /\ consumed' = IF read THEN consumed \cup rt[t].buf ELSE consumed
    /\ active' = IF active > 0 THEN active - 1 ELSE 0

(* A turn returns or raises; the boundary flush starts in the same step.   *)
TurnEnd(t) ==
    /\ running = None
    /\ task[t].pc = "turn" /\ ~cancel[t]
    /\ \/ LeaveTurn(t, "completed", TRUE)
       \/ \E read \in BOOLEAN : LeaveTurn(t, "errored", read)
    /\ running' = t
    /\ task' = [task EXCEPT ![t] = [NoTask EXCEPT !.pc = "pick", !.todo = keys]]
    /\ UNCHANGED <<runtimes, disk, writes, residents, pendingSlots, queue, cancel,
                   interrupting, history>>

(* A CancelledError reaches a parked driver, a turn, or an eviction that a *)
(* turn (spawning) or a flush is waiting for.  It ends the driver with no  *)
(* boundary flush.  An eviction's candidate is not put back among the      *)
(* residents, and a record handed to the writer is still written.          *)
DriverCancelled(t) ==
    /\ running = None
    /\ cancel[t]
    /\ task[t].pc \in {"wait", "turn", "write", "prepare"}
    /\ IF rt[t].turn
       THEN \E read \in BOOLEAN : LeaveTurn(t, "interrupted", read)
       ELSE UNCHANGED <<rt, consumed, active>>
    /\ writes' = [i \in 1..Len(writes) |->
                    [writes[i] EXCEPT !.by = IF @ = t THEN None ELSE @]]
    /\ task' = [task EXCEPT ![t] = NoTask]
    /\ cancel' = [cancel EXCEPT ![t] = FALSE]
    /\ UNCHANGED <<runtimes, disk, residents, pendingSlots, queue, running,
                   interrupting, history>>

-----------------------------------------------------------------------------
(* Flushing the parked deliveries                                          *)

(* The waker task, woken by a park.                                        *)
WakerRun ==
    /\ running \in {None, Waker}
    /\ task[Waker].pc = "wait" /\ wakerSet
    /\ running' = Waker
    /\ wakerSet' = FALSE
    /\ task' = [task EXCEPT ![Waker] = [NoTask EXCEPT !.pc = "pick", !.todo = keys]]
    /\ UNCHANGED <<plane, pendingSlots, parked, keys, active, cancel,
                   interrupting, history, consumed>>

(* Take the next agent of the snapshot: deliver to a live runtime, drop    *)
(* the mail of an agent with no record, else reserve a slot for it.        *)
FlushPick(t) ==
    /\ running = t
    /\ task[t].pc = "pick" /\ task[t].todo # <<>>
    /\ LET a == Head(task[t].todo)
           next == [task[t] EXCEPT !.todo = Tail(@)]
       IN  \/ /\ runtimes[a] # None
              /\ Deliver(runtimes[a], parked[a])
              /\ residents' = IF parked[a] = {} THEN residents ELSE Touch(residents, a)
              /\ take_all(a)
              /\ task' = [task EXCEPT ![t] = next]
           \/ /\ runtimes[a] = None /\ disk[a] = None
              /\ take_all(a)
              /\ task' = [task EXCEPT ![t] = next]
              /\ UNCHANGED <<rt, residents>>
           \/ /\ runtimes[a] = None /\ disk[a] # None
              /\ task' = [task EXCEPT ![t] = [next EXCEPT !.pc = "reserve", !.target = a]]
              /\ UNCHANGED <<rt, residents, queue>>
    /\ UNCHANGED <<runtimes, disk, writes, pendingSlots, active, cancel, running,
                   interrupting, history, consumed>>

(* The flush is over.  A driver leaves if stopped; waiting on an event     *)
(* that is already set does not give up the loop.                          *)
FlushEnd(t) ==
    /\ running = t
    /\ task[t].pc = "pick" /\ task[t].todo = <<>>
    /\ LET leaves == t # Waker /\ rt[t].stopped
           again == IF t = Waker THEN wakerSet ELSE rt[t].wake
       IN  /\ task' = [task EXCEPT ![t] = IF leaves THEN NoTask ELSE Driver]
           /\ running' = IF again /\ ~leaves THEN t ELSE None
    /\ UNCHANGED <<plane, pendingSlots, queue, active, cancel, interrupting,
                   history, consumed>>

(* Rehydration raises: the slot is rolled back and the flush is abandoned. *)
RehydrateFail(t) ==
    /\ running = t
    /\ task[t].pc = "reserve" /\ task[t].kind = "flush"
    /\ Room /\ disk[task[t].target] # None
    /\ faults < MaxFail
    /\ faults' = faults + 1
    /\ task' = [task EXCEPT ![t] = [NoTask EXCEPT !.pc = "pick"]]
    /\ UNCHANGED <<plane, pendingSlots, queue, active, cancel, running,
                   interrupting, born, watch, sent, consumed, interrupts>>

-----------------------------------------------------------------------------
(* Reserving a slot: install, or evict least recently used residents       *)

(* Where a task goes on after its reservation: the flush picks the next    *)
(* agent, the spawn is back in its turn (which may suspend at once).       *)
Resumed(t) ==
    IF task[t].kind = "flush"
    THEN [NoTask EXCEPT !.pc = "pick", !.todo = task[t].todo]
    ELSE [NoTask EXCEPT !.pc = "turn"]

Holder(t) == IF task[t].kind = "flush" THEN t ELSE None

(* Under the cap, a flush installs its target on the reserved slot without *)
(* looking at the live map again, and drops the mail if there is no record *)
(* any more.                                                               *)
FlushInstall(t) ==
    /\ running = t
    /\ task[t].pc = "reserve" /\ task[t].kind = "flush" /\ Room
    /\ LET a == task[t].target
       IN  \/ /\ disk[a] # None
              /\ \E n \in Fresh :
                   /\ install(a, n, parked[a])
                   /\ task' = [task EXCEPT ![n] = Driver, ![t] = Resumed(t)]
              /\ take_all(a)
           \/ /\ disk[a] = None
              /\ take_all(a)
              /\ task' = [task EXCEPT ![t] = Resumed(t)]
              /\ UNCHANGED plane
    /\ UNCHANGED <<pendingSlots, active, cancel, running, interrupting, history,
                   consumed>>

(* At the cap: scan as many residents as there are now.                    *)
ReserveFull(t) ==
    /\ running = t
    /\ task[t].pc = "reserve" /\ ~Room
    /\ task' = [task EXCEPT ![t] = [@ EXCEPT !.pc = "scan", !.scan = Len(residents)]]
    /\ UNCHANGED <<plane, pendingSlots, queue, active, cancel, running,
                   interrupting, history, consumed>>

(* One candidate: gone, busy (back to the recent end), or dumped and its   *)
(* record handed to the writer.  With none left the reservation gives up.  *)
Scan(t) ==
    /\ running = t
    /\ task[t].pc = "scan"
    /\ LET pop == PopLru(IF task[t].kind = "flush" THEN None ELSE rt[t].agent)
           a == pop.candidate
           r == runtimes[a]
           next == [task[t] EXCEPT !.scan = @ - 1]
       IN  \/ /\ task[t].scan = 0
              /\ task' = [task EXCEPT ![t] = Resumed(t)]
              /\ running' = Holder(t)
              /\ UNCHANGED <<residents, writes>>
           \/ /\ task[t].scan > 0 /\ a = None
              /\ residents' = pop.rest
              /\ task' = [task EXCEPT ![t] = Resumed(t)]
              /\ running' = Holder(t)
              /\ UNCHANGED writes
           \/ /\ task[t].scan > 0 /\ a # None /\ r = None
              /\ residents' = pop.rest
              /\ task' = [task EXCEPT ![t] = next]
              /\ UNCHANGED <<running, writes>>
           \/ /\ task[t].scan > 0 /\ a # None /\ r # None /\ ~is_unloadable(r)
              /\ residents' = Touch(pop.rest, a)
              /\ task' = [task EXCEPT ![t] = next]
              /\ UNCHANGED <<running, writes>>
           \/ /\ task[t].scan > 0 /\ a # None /\ r # None /\ is_unloadable(r)
              /\ residents' = pop.rest
              /\ task' = [task EXCEPT ![t] =
                            [next EXCEPT !.pc = "write", !.candidate = a, !.victim = r]]
              /\ writes' = Append(writes, [by |-> t, agent |-> a,
                                           mail |-> rt[r].mail, buf |-> rt[r].buf])
              /\ running' = None
    /\ UNCHANGED <<runtimes, rt, disk, pendingSlots, queue, active, cancel,
                   interrupting, history, consumed>>

(* The writer's single worker writes the oldest record; materialize, if    *)
(* still awaited, returns and prepare_for_eviction starts.                 *)
DiskWrite ==
    /\ running = None
    /\ writes # <<>>
    /\ LET job == Head(writes)
       IN  /\ disk' = [disk EXCEPT ![job.agent] = [mail |-> job.mail, buf |-> job.buf]]
           /\ task' = [t \in Tasks |->
                         IF t = job.by /\ ~cancel[t]
                         THEN [task[t] EXCEPT !.pc = "prepare"] ELSE task[t]]
    /\ writes' = Tail(writes)
    /\ UNCHANGED <<runtimes, rt, residents, pendingSlots, queue, active, cancel,
                   running, interrupting, history, consumed>>

(* materialize or prepare_for_eviction raises: restore the candidate as    *)
(* the most recently used one and scan on.  (A write that nobody awaits    *)
(* any more is taken to succeed.)                                          *)
EvictionFails(t) ==
    /\ running = None
    /\ ~cancel[t]
    /\ \/ /\ task[t].pc = "write" /\ writes # <<>> /\ Head(writes).by = t
          /\ writes' = Tail(writes)
       \/ /\ task[t].pc = "prepare"
          /\ UNCHANGED writes
    /\ faults < MaxFail
    /\ faults' = faults + 1
    /\ residents' = Touch(residents, task[t].candidate)
    /\ task' = [task EXCEPT ![t] =
                  [@ EXCEPT !.pc = "scan", !.candidate = None, !.victim = None]]
    /\ running' = t
    /\ UNCHANGED <<runtimes, rt, disk, pendingSlots, queue, active, cancel,
                   interrupting, born, watch, sent, consumed, interrupts>>

(* Remove whatever runtime the candidate has now, and reserve again.       *)
remove_runtime(t) ==
    /\ runtimes' = [runtimes EXCEPT ![task[t].candidate] = None]
    /\ rt' = [rt EXCEPT ![task[t].victim] = DeadRuntime]
    /\ task' = [task EXCEPT ![t] =
                  [@ EXCEPT !.pc = "reserve", !.scan = 0, !.candidate = None,
                            !.victim = None]]
    /\ running' = t

(* prepare_for_eviction returns and the victim is shut down: stopped,      *)
(* woken, its driver cancelled and awaited.                                *)
Shutdown(t) ==
    /\ running = None
    /\ task[t].pc = "prepare" /\ ~cancel[t]
    /\ LET v == task[t].victim
       IN  \/ /\ task[v].pc = "none"
              /\ remove_runtime(t)
              /\ UNCHANGED cancel
           \/ /\ task[v].pc # "none"
              /\ rt' = [rt EXCEPT ![v] = [@ EXCEPT !.stopped = TRUE, !.wake = TRUE]]
              /\ CancelTask(v)
              /\ task' = [task EXCEPT ![t].pc = "join"]
              /\ UNCHANGED <<runtimes, running>>
    /\ UNCHANGED <<disk, writes, residents, pendingSlots, queue, active, interrupting,
                   history, consumed>>

(* Mutant: a driver that evicts its own runtime waits for itself.          *)
JoinDone_NotSelf(t) ==
    /\ running = None
    /\ task[t].pc = "join" /\ task[task[t].victim].pc = "none"
    /\ remove_runtime(t)
    /\ cancel' = [cancel EXCEPT ![t] = FALSE]
    /\ UNCHANGED <<disk, writes, residents, pendingSlots, queue, active, interrupting,
                   history, consumed>>

(* The victim's driver is done, or it is this very task; a CancelledError  *)
(* raised here is swallowed.                                               *)
JoinDone(t) ==
    /\ running = None
    /\ task[t].pc = "join"
    /\ task[t].victim = t \/ task[task[t].victim].pc = "none"
    /\ remove_runtime(t)
    /\ cancel' = [cancel EXCEPT ![t] = FALSE]
    /\ UNCHANGED <<disk, writes, residents, pendingSlots, queue, active, interrupting,
                   history, consumed>>

-----------------------------------------------------------------------------
(* Spawning a child from within a turn                                     *)

SpawnBegin(t) ==
    /\ running = None
    /\ task[t].pc = "turn" /\ ~cancel[t]
    /\ \E c \in Spawnable \ born : rt[t].agent = Parent(c)
    /\ running' = t
    /\ task' = [task EXCEPT ![t] = [NoTask EXCEPT !.pc = "reserve", !.kind = "spawn"]]
    /\ UNCHANGED <<plane, pendingSlots, queue, active, cancel, interrupting,
                   history, consumed>>

(* Mutant: the rollback of a failed spawn forgets the residency slot.      *)
SpawnFail_LeaksSlot(t) ==
    /\ running = t
    /\ task[t].pc = "reserve" /\ task[t].kind = "spawn" /\ Room
    /\ task' = [task EXCEPT ![t] = Resumed(t)]
    /\ running' = None
    /\ pendingSlots' = pendingSlots + 1
    /\ UNCHANGED <<plane, queue, active, cancel, interrupting, history, consumed>>

(* Building the child raises: the transaction rolls everything back.       *)
SpawnFail(t) ==
    /\ running = t
    /\ task[t].pc = "reserve" /\ task[t].kind = "spawn" /\ Room
    /\ task' = [task EXCEPT ![t] = Resumed(t)]
    /\ running' = None
    /\ UNCHANGED <<plane, pendingSlots, queue, active, cancel, interrupting,
                   history, consumed>>

(* A MANAGED child commits its slot and gets a driver and a watcher.       *)
SpawnManaged(t, c) ==
    /\ running = t
    /\ task[t].pc = "reserve" /\ task[t].kind = "spawn" /\ Room
    /\ c \notin born /\ rt[t].agent = Parent(c)
    /\ \E n \in Fresh :
         /\ runtimes' = [runtimes EXCEPT ![c] = n]
         /\ rt' = [rt EXCEPT ![n] = NewRuntime(c, Empty, {})]
         /\ task' = [task EXCEPT ![n] = Driver, ![t] = Resumed(t)]
    /\ residents' = Touch(residents, c)
    /\ born' = born \cup {c}
    /\ watch' = [watch EXCEPT ![c] = "on"]
    /\ running' = None
    /\ UNCHANGED <<disk, writes, pendingSlots, queue, active, cancel, interrupting,
                   sent, faults, interrupts, consumed>>

(* An EPHEMERAL child keeps its slot pending and its one turn is run       *)
(* inline, outside the scheduler and the limiter, by the parent's turn.    *)
SpawnEphemeral(t, c) ==
    /\ running = t
    /\ task[t].pc = "reserve" /\ task[t].kind = "spawn" /\ Room
    /\ c \notin born /\ rt[t].agent = Parent(c)
    /\ \E n \in Fresh :
         /\ runtimes' = [runtimes EXCEPT ![c] = n]
         /\ rt' = [rt EXCEPT ![n] = [NewRuntime(c, Empty, {}) EXCEPT
                                       !.turn = TRUE, !.status = "running"]]
         /\ task' = [task EXCEPT ![t] = [@ EXCEPT !.pc = "child", !.target = c,
                                                  !.victim = n]]
    /\ born' = born \cup {c}
    /\ pendingSlots' = pendingSlots + 1
    /\ running' = None
    /\ UNCHANGED <<disk, writes, residents, queue, active, cancel, interrupting,
                   watch, sent, faults, interrupts, consumed>>

(* aclose of the handle when the inline turn ends, even by cancellation:   *)
(* the slot is rolled back and the child released with its parked mail.    *)
(* A cancellation then goes on to the parent's own turn.                   *)
ChildClose(t) ==
    /\ running = None
    /\ task[t].pc = "child"
    /\ LET c == task[t].target
       IN  /\ runtimes' = [runtimes EXCEPT ![c] = None]
           /\ rt' = [rt EXCEPT ![task[t].victim] = DeadRuntime]
           /\ residents' = Discard(residents, c)
           /\ take_all(c)
    /\ pendingSlots' = IF pendingSlots > 0 THEN pendingSlots - 1 ELSE 0
    /\ task' = [task EXCEPT ![t] = Resumed(t)]
    /\ UNCHANGED <<disk, writes, active, cancel, running, interrupting, history, consumed>>

-----------------------------------------------------------------------------
(* Interrupts (by a user or by the TTL watchdog)                           *)

(* Bound: one interrupter of a runtime at a time.                          *)
Interrupt(a) ==
    /\ running = None
    /\ interrupts < MaxInterrupt
    /\ interrupts' = interrupts + 1
    /\ LET r == runtimes[a]
       IN  /\ r # None /\ r \notin interrupting
           /\ \/ /\ task[r].pc # "none" /\ rt[r].turn
                 /\ CancelTask(r)
                 /\ interrupting' = interrupting \cup {r}
                 /\ UNCHANGED rt
              \/ /\ ~(task[r].pc # "none" /\ rt[r].turn) /\ rt[r].status \notin Final
                 /\ rt' = [rt EXCEPT ![r].status = "interrupted"]
                 /\ UNCHANGED <<cancel, interrupting>>
    /\ UNCHANGED <<runtimes, disk, writes, residents, pendingSlots, queue, active, task,
                   running, born, watch, sent, consumed, faults>>

(* Mutant: nobody respawns the driver an interrupt has ended.              *)
InterruptDone_NoRespawn(r) ==
    /\ running = None
    /\ r \in interrupting /\ task[r].pc = "none"
    /\ interrupting' = interrupting \ {r}
    /\ UNCHANGED <<plane, pendingSlots, queue, active, task, cancel, running,
                   history, consumed>>

(* The cancelled driver is done: respawn it unless the runtime is stopped. *)
InterruptDone(r) ==
    /\ running = None
    /\ r \in interrupting /\ task[r].pc = "none"
    /\ interrupting' = interrupting \ {r}
    /\ task' = IF rt[r].stopped THEN task ELSE [task EXCEPT ![r] = Driver]
    /\ UNCHANGED <<plane, pendingSlots, queue, active, cancel, running, history,
                   consumed>>

-----------------------------------------------------------------------------
FlushStep(t) ==
    \/ FlushPick(t) \/ FlushEnd(t) \/ RehydrateFail(t) \/ FlushInstall(t)

EvictStep(t) ==
    \/ ReserveFull(t) \/ Scan(t) \/ EvictionFails(t)
    \/ Shutdown(t) \/ JoinDone(t)

TurnStep(t) ==
    \/ TurnStart(t) \/ TurnEnd(t) \/ DriverCancelled(t)
    \/ SpawnBegin(t) \/ SpawnFail(t) \/ ChildClose(t)
    \/ \E c \in Spawnable : SpawnManaged(t, c) \/ SpawnEphemeral(t, c)

Next ==
    \/ \E m \in Msgs : SendInput(m)
    \/ \E c \in Spawnable : WatchPoll(c)
    \/ WakerRun
    \/ DiskWrite
    \/ \E t \in Tasks : FlushStep(t) \/ EvictStep(t)
    \/ \E t \in Runtimes : TurnStep(t)
    \/ \E a \in Agents : Interrupt(a)
    \/ \E r \in Runtimes : InterruptDone(r)

Spec == Init /\ [][Next]_vars

(* The event loop does not stop while a callback is ready, the writer's    *)
(* worker serves its queue, role cleanup and role.run() return or raise.   *)
(* Nothing is assumed of senders, interrupters, spawns and failures.       *)
Progress ==
    \/ WakerRun \/ DiskWrite
    \/ \E t \in Tasks :
         \/ FlushPick(t) \/ FlushEnd(t) \/ FlushInstall(t)
         \/ ReserveFull(t) \/ Scan(t) \/ Shutdown(t) \/ JoinDone(t)
    \/ \E t \in Runtimes :
         \/ TurnStart(t) \/ TurnEnd(t) \/ DriverCancelled(t) \/ ChildClose(t)
         \/ InterruptDone(t)

Fairness == WF_vars(Progress)

LiveSpec == Spec /\ Fairness

-----------------------------------------------------------------------------
(* Invariants                                                              *)

TaskFields ==
    [pc : {"none", "wait", "turn", "pick", "reserve", "scan", "write", "prepare",
           "join", "child"},
     kind : {"flush", "spawn"}, todo : Seq(Agents), target : Agents \cup {None},
     scan : Nat, candidate : Agents \cup {None}, victim : Runtimes \cup {None}]

TaskType ==
    {x \in TaskFields :
       /\ x.pc \in {"write", "prepare", "join"} =>
            x.candidate \in Agents /\ x.victim \in Runtimes
       /\ x.kind = "flush" /\ x.pc \in {"reserve", "scan", "write", "prepare", "join"} =>
            x.target \in Agents}

JobType ==
    [by : Tasks \cup {None}, agent : Agents, mail : SUBSET Msgs, buf : SUBSET Msgs]

RuntimeType ==
    [agent : Agents \cup {None}, status : Status, turn : BOOLEAN, wake : BOOLEAN,
     stopped : BOOLEAN, mail : SUBSET Msgs, buf : SUBSET Msgs]

(* Every variable has its type, and a task in the middle of an eviction or *)
(* of a fulfilment knows what it works on: the candidate and the runtime   *)
(* popped by _try_unload_one_resident, the target of the flush.            *)
TypeOK ==
    /\ runtimes \in [Agents -> Runtimes \cup {None}]
    /\ rt \in [Runtimes -> RuntimeType]
    /\ disk \in [Agents -> Records \cup {None}]
    /\ writes \in Seq(JobType)
    /\ residents \in Seq(Agents) /\ keys \in Seq(Agents)
    /\ pendingSlots \in Nat /\ active \in Nat
    /\ parked \in [Agents -> SUBSET Msgs] /\ wakerSet \in BOOLEAN
    /\ task \in [Tasks -> TaskType]
    /\ cancel \in [Tasks -> BOOLEAN]
    /\ running \in Tasks \cup {None}
    /\ interrupting \subseteq Runtimes
    /\ born \subseteq Spawnable
    /\ watch \in [Agents -> {"off", "on", "told", "gone"}]
    /\ sent \subseteq Msgs /\ consumed \subseteq Msgs
    /\ faults \in Nat /\ interrupts \in Nat

-----------------------------------------------------------------------------
(* What the plane guarantees                                               *)

InTurn(t) == task[t].pc \in {"turn", "child"} \/ task[t].kind = "spawn"

Held(r) == rt[r].mail \cup rt[r].buf
Stored(a) == IF disk[a] = None THEN {} ELSE disk[a].mail \cup disk[a].buf

(* A trigger-turn message in a mailbox has its runtime's wake_event set:   *)
(* the event is cleared before the mailbox is drained, and a runtime       *)
(* rehydrated from disk (which nobody wakes) has no such message.          *)
NoLostWake ==
    \A r \in Runtimes : rt[r].mail \cap Trigger # {} => rt[r].wake

(* A residency record never holds mail, on disk or on its way there: the   *)
(* mailboxes are dumped in the step that found them empty.  A queued       *)
(* record is awaited by one evictor, which waits for that record only.     *)
EvictedEmpty ==
    /\ \A a \in Agents : disk[a] \in {None, Empty}
    /\ \A i \in 1..Len(writes) :
         /\ writes[i].mail = {} /\ writes[i].buf = {}
         /\ writes[i].by # None =>
              /\ task[writes[i].by].pc = "write"
              /\ \A j \in 1..Len(writes) : writes[j].by = writes[i].by => i = j

(* A live runtime has a driver, or its driver is about to be respawned by  *)
(* the interrupt that ended it, or it is run inline by its parent, or it   *)
(* is stopped.  A stopped runtime does not stay in the live map: whoever   *)
(* stopped it is waiting to remove it, and cannot be cancelled meanwhile.  *)
Drivable ==
    \A a \in Agents : runtimes[a] # None =>
        LET r == runtimes[a]
        IN  /\ task[r].pc = "none" =>
                 \/ rt[r].stopped
                 \/ r \in interrupting
                 \/ \E t \in Runtimes : task[t].pc = "child" /\ task[t].victim = r
            /\ rt[r].stopped =>
                 \E t \in Tasks : task[t].pc = "join" /\ task[t].victim = r

(* The limiter counts exactly the turns in progress, and the pending       *)
(* residency slots are those of the children running inline: through       *)
(* errors, interrupts, evictions and spawns no guard is leaked or released *)
(* twice, and no reservation outlives its install, rollback or handle.     *)
CountersBalanced ==
    /\ active = Cardinality({r \in Runtimes : InTurn(r)})
    /\ pendingSlots = Cardinality({r \in Runtimes : task[r].pc = "child"})

(* A message is in one place only: a mailbox, a message buffer, a record,  *)
(* the parked queue, or read.  It is never delivered twice, whatever the   *)
(* flushes, evictions and rehydrations that run at the same time.          *)
AtMostOnce ==
    /\ \A r \in Runtimes :
         /\ rt[r].mail \cap rt[r].buf = {}
         /\ Held(r) \cap consumed = {}
         /\ \A s \in Runtimes : r # s => Held(r) \cap Held(s) = {}
         /\ \A a \in Agents : Held(r) \cap (parked[a] \cup Stored(a)) = {}
    /\ \A a \in Agents :
         /\ (parked[a] \cup Stored(a)) \cap consumed = {}
         /\ \A b \in Agents : parked[a] \cap Stored(b) = {}
         /\ \A b \in Agents : a # b => /\ parked[a] \cap parked[b] = {}
                                       /\ Stored(a) \cap Stored(b) = {}

(* More agents than the capacity are live only while others are on their   *)
(* way out: _try_unload_one_resident takes its candidate off the residents *)
(* before it is gone.  So it is until an eviction fails or is cancelled:   *)
(* that leaves the candidate live and its room taken.  The residents and   *)
(* the queue's keys name an agent at most once, and the keys are exactly   *)
(* the agents with parked mail.                                            *)
ResidentsBounded ==
    LET leaving == {task[t].candidate : t \in {u \in Tasks :
                      task[u].pc \in {"write", "prepare", "join"}}}
    IN  /\ faults = 0 /\ interrupts = 0 =>
             Cardinality({a \in Agents \ leaving : runtimes[a] # None}) <= Cap
        /\ \A i, j \in 1..Len(residents) : residents[i] = residents[j] => i = j
        /\ \A i, j \in 1..Len(keys) : keys[i] = keys[j] => i = j
        /\ \A a \in Agents : parked[a] # {} <=> \E i \in 1..Len(keys) : keys[i] = a

Present(m) ==
    \/ m \in consumed
    \/ \E r \in Runtimes : m \in Held(r)
    \/ \E a \in Agents : m \in parked[a] \cup Stored(a)


(* The fleet goes on.  A wake is served: the runtime starts another turn,  *)
(* unless it is stopped to be evicted.  A flush or a reservation ends:     *)
(* evictions that wait for each other's drivers never block for ever, and  *)
(* the reserve loop makes progress.                                        *)
FleetGoesOn ==
    /\ \A r \in Runtimes : rt[r].wake ~> (~rt[r].wake \/ rt[r].stopped)
    /\ \A t \in Tasks :
         task[t].pc \in {"pick", "reserve", "scan", "write", "prepare", "join"}
         ~> task[t].pc \in {"none", "wait", "turn", "child"}

=============================================================================
