--------------------------- MODULE AgentPlaneWake ---------------------------
(***************************************************************************)
(* Eviction takes no mail to disk, and no wake is lost: the steps that     *)
(* AgentPlaneOnce combines into theorems about AgentPlane.                 *)
(***************************************************************************)
EXTENDS AgentPlaneTypes

-----------------------------------------------------------------------------
(* Records hold no mail.                                                   *)

(* A step that queues no record, writes none and moves no evictor that     *)
(* awaits one keeps EvictedEmpty.                                          *)
LEMMA EvictedKept ==
    ASSUME TypeOK, EvictedEmpty, writes' = writes,
           \A a \in Agents : disk'[a] \in {disk[a], None},
           \A u \in Tasks : task[u].pc = "write" => task'[u].pc = "write"
    PROVE  EvictedEmpty'
<1>1. \A i \in 1..Len(writes) : writes[i] \in JobType
  BY DEF TypeOK
<1>2. \A i \in 1..Len(writes) : writes[i].by \in Tasks \cup {None}
  BY <1>1 DEF JobType
<1> QED BY <1>2 DEF EvictedEmpty

(* The delivery path moves no evictor and writes no record.                *)
LEMMA AcceptKeepsEvicted ==
    ASSUME TypeOK, NEW m \in Msgs, accept(m)
    PROVE  /\ writes' = writes
           /\ \A a \in Agents : disk'[a] \in {disk[a], None}
           /\ \A u \in Tasks : task[u].pc = "write" => task'[u].pc = "write"
<1>1. CASE UNCHANGED <<disk, writes, task>>
  BY <1>1
<1>2. ASSUME NEW n \in Fresh, NEW b, install(To[m], n, b), task' = [task EXCEPT ![n] = Driver]
      PROVE  /\ writes' = writes
             /\ \A a \in Agents : disk'[a] \in {disk[a], None}
             /\ \A u \in Tasks : task[u].pc = "write" => task'[u].pc = "write"
  <2>1. task[n].pc = "none"
    BY FreshType
  <2> QED BY <1>2, <2>1 DEF install, TypeOK
<1> QED BY <1>1, <1>2 DEF accept, plane

(* Every step keeps EvictedEmpty: a record is made in the step that finds  *)
(* both mailboxes empty, and DiskWrite moves it to disk unchanged.         *)
LEMMA EvictedStep ==
    TypeOK /\ EvictedEmpty /\ [Next]_vars => EvictedEmpty'
<1> SUFFICES ASSUME TypeOK, EvictedEmpty, [Next]_vars PROVE EvictedEmpty'
  OBVIOUS
<1> USE DEF plane, queue, history
<1>0. \A i \in 1..Len(writes) : writes[i] \in JobType
  BY DEF TypeOK
<1>1. ASSUME NEW m \in Msgs, SendInput(m) PROVE EvictedEmpty'
  BY <1>1, AcceptKeepsEvicted, EvictedKept DEF SendInput
<1>2. ASSUME NEW c \in Spawnable, WatchPoll(c) PROVE EvictedEmpty'
  <2>1. Note[c] \in Msgs
    BY ConstantsAssumption
  <2>2. CASE accept(Note[c])
    BY <2>1, <2>2, AcceptKeepsEvicted, EvictedKept
  <2>3. CASE UNCHANGED <<plane, task, queue, sent>>
    BY <2>3, EvictedKept
  <2> QED BY <1>2, <2>2, <2>3 DEF WatchPoll
<1>3. ASSUME NEW t \in Runtimes, TurnStart(t) PROVE EvictedEmpty'
  BY <1>3, EvictedKept DEF TurnStart, TypeOK
<1>4. ASSUME NEW t \in Runtimes, TurnEnd(t) PROVE EvictedEmpty'
  BY <1>4, EvictedKept DEF TurnEnd, TypeOK
<1>5. ASSUME NEW t \in Runtimes, DriverCancelled(t) PROVE EvictedEmpty'
  <2>1. /\ Len(writes') = Len(writes)
        /\ \A i \in 1..Len(writes) :
             writes'[i] = [writes[i] EXCEPT !.by = IF @ = t THEN None ELSE @]
    BY <1>5 DEF DriverCancelled, TypeOK
  <2>2. \A i \in 1..Len(writes) :
          /\ writes'[i].by = IF writes[i].by = t THEN None ELSE writes[i].by
          /\ writes'[i].mail = writes[i].mail /\ writes'[i].buf = writes[i].buf
    BY <1>0, <2>1 DEF JobType
  <2>3. \A u \in Tasks : u # t => task'[u] = task[u]
    BY <1>5 DEF DriverCancelled, TypeOK
  <2>4. disk' = disk
    BY <1>5 DEF DriverCancelled
  <2> QED BY <1>0, <2>1, <2>2, <2>3, <2>4 DEF EvictedEmpty, JobType
<1>6. ASSUME WakerRun PROVE EvictedEmpty'
  BY <1>6, EvictedKept DEF WakerRun, TypeOK
<1>7. ASSUME NEW t \in Tasks, FlushPick(t) PROVE EvictedEmpty'
  BY <1>7, EvictedKept DEF FlushPick, TypeOK
<1>8. ASSUME NEW t \in Tasks, FlushEnd(t) PROVE EvictedEmpty'
  BY <1>8, EvictedKept DEF FlushEnd, TypeOK
<1>9. ASSUME NEW t \in Tasks, RehydrateFail(t) PROVE EvictedEmpty'
  BY <1>9, EvictedKept DEF RehydrateFail, TypeOK
<1>10. ASSUME NEW t \in Tasks, FlushInstall(t) PROVE EvictedEmpty'
  <2>1. CASE UNCHANGED plane /\ task' = [task EXCEPT ![t] = Resumed(t)]
    BY <1>10, <2>1, EvictedKept DEF FlushInstall, TypeOK
  <2>2. ASSUME NEW n \in Fresh, install(task[t].target, n, parked[task[t].target]),
               task' = [task EXCEPT ![n] = Driver, ![t] = Resumed(t)]
        PROVE  EvictedEmpty'
    <3>1. task[n].pc = "none" /\ task[t].pc = "reserve"
      BY <1>10, FreshType DEF FlushInstall
    <3>2. \A u \in Tasks : task[u].pc = "write" => task'[u].pc = "write"
      BY <2>2, <3>1 DEF TypeOK
    <3>3. writes' = writes /\ \A a \in Agents : disk'[a] \in {disk[a], None}
      BY <2>2 DEF install, TypeOK
    <3> QED BY <3>2, <3>3, EvictedKept
  <2> QED BY <1>10, <2>1, <2>2 DEF FlushInstall
<1>11. ASSUME NEW t \in Tasks, ReserveFull(t) PROVE EvictedEmpty'
  BY <1>11, EvictedKept DEF ReserveFull, TypeOK
<1>12. ASSUME NEW t \in Tasks, Scan(t) PROVE EvictedEmpty'
  <2>1. task[t].pc = "scan" /\ disk' = disk
    BY <1>12 DEF Scan
  <2>2. \A u \in Tasks : u # t => task'[u] = task[u]
    BY <1>12 DEF Scan, TypeOK
  <2>3. \A u \in Tasks : task[u].pc = "write" => task'[u].pc = "write"
    BY <2>1, <2>2
  <2>4. CASE UNCHANGED writes
    BY <2>1, <2>3, <2>4, EvictedKept
  <2>5. ASSUME NEW a, NEW r, is_unloadable(r), task'[t].pc = "write",
               writes' = Append(writes, [by |-> t, agent |-> a,
                                         mail |-> rt[r].mail, buf |-> rt[r].buf])
        PROVE  EvictedEmpty'
    <3> DEFINE n == Len(writes)
    <3>1. /\ n \in Nat /\ Len(writes') = n + 1
          /\ \A i \in 1..n : writes'[i] = writes[i]
          /\ writes'[n + 1] = [by |-> t, agent |-> a, mail |-> rt[r].mail, buf |-> rt[r].buf]
      BY <2>5 DEF TypeOK
    <3>2. writes'[n + 1].mail = {} /\ writes'[n + 1].buf = {} /\ writes'[n + 1].by = t
      BY <2>5, <3>1 DEF is_unloadable
    <3>3. \A i \in 1..n : writes[i].by # t
      BY <2>1, ConstantsAssumption DEF EvictedEmpty, Tasks
    <3> HIDE DEF n
    <3>4. \A i \in 1..(n + 1) : i \in 1..n \/ i = n + 1
      BY <3>1
    <3>5. \A i \in 1..n : writes[i].by # None =>
             /\ task[writes[i].by].pc = "write" /\ writes[i].by \in Tasks
             /\ \A j \in 1..n : writes[j].by = writes[i].by => i = j
      BY <1>0 DEF EvictedEmpty, JobType, n
    <3>6. \A i \in 1..n : writes[i].mail = {} /\ writes[i].buf = {}
      BY DEF EvictedEmpty, n
    <3>7. \A i \in 1..Len(writes') :
            /\ writes'[i].mail = {} /\ writes'[i].buf = {}
            /\ writes'[i].by # None =>
                 /\ task'[writes'[i].by].pc = "write"
                 /\ \A j \in 1..Len(writes') : writes'[j].by = writes'[i].by => i = j
      BY <2>3, <2>5, <3>1, <3>2, <3>3, <3>4, <3>5, <3>6
    <3> QED BY <2>1, <3>7 DEF EvictedEmpty
  <2> QED
    <3> DEFINE a == PopLru(IF task[t].kind = "flush" THEN None ELSE rt[t].agent).candidate
               r == runtimes[a]
               new == [[task[t] EXCEPT !.scan = task[t].scan - 1]
                         EXCEPT !.pc = "write", !.candidate = a, !.victim = r]
    <3>1. \/ UNCHANGED writes
          \/ /\ is_unloadable(r)
             /\ task' = [task EXCEPT ![t] = new]
             /\ writes' = Append(writes, [by |-> t, agent |-> a,
                                          mail |-> rt[r].mail, buf |-> rt[r].buf])
      BY <1>12, Zenon DEF Scan
    <3>2. new.pc = "write"
      BY DEF TypeOK, TaskType, TaskFields
    <3> HIDE DEF new, a, r
    <3>3. task' = [task EXCEPT ![t] = new] => task'[t].pc = "write"
      BY <3>2 DEF TypeOK
    <3> QED BY <3>1, <3>3, <2>4, <2>5
<1>13. ASSUME DiskWrite PROVE EvictedEmpty'
  <2> DEFINE job == Head(writes)
             n == Len(writes)
  <2>1. /\ n \in Nat \ {0} /\ job = writes[1]
        /\ Len(writes') = n - 1
        /\ \A i \in 1..(n - 1) : writes'[i] = writes[i + 1]
    BY <1>13, EmptySeq, HeadTailProperties DEF DiskWrite, TypeOK
  <2>2. \A a \in Agents : disk'[a] \in {None, Empty}
    <3>1. job.mail = {} /\ job.buf = {}
      BY <2>1 DEF EvictedEmpty
    <3> QED BY <1>13, <3>1 DEF DiskWrite, TypeOK, EvictedEmpty, Empty
  <2>3. \A u \in Tasks : u # job.by => task'[u] = task[u]
    BY <1>13 DEF DiskWrite
  <2>4. \A i \in 1..n : writes[i].by # None =>
           /\ task[writes[i].by].pc = "write" /\ writes[i].by \in Tasks
           /\ \A j \in 1..n : writes[j].by = writes[i].by => i = j
    BY <1>0 DEF EvictedEmpty, JobType
  <2>5. \A i \in 1..n : writes[i].mail = {} /\ writes[i].buf = {}
    BY DEF EvictedEmpty
  <2>6. \A i \in 2..n : writes[i].by # None => writes[i].by # job.by
    BY <2>1, <2>4
  <2> HIDE DEF n, job
  <2>7. ASSUME NEW i \in 1..(n - 1)
        PROVE  /\ writes'[i].mail = {} /\ writes'[i].buf = {}
               /\ writes'[i].by # None =>
                    /\ task'[writes'[i].by].pc = "write"
                    /\ \A j \in 1..(n - 1) : writes'[j].by = writes'[i].by => i = j
    <3>1. i + 1 \in 2..n /\ i + 1 \in 1..n /\ writes'[i] = writes[i + 1]
      BY <2>1
    <3>2. ASSUME writes[i + 1].by # None
          PROVE  task'[writes[i + 1].by].pc = "write"
      BY <2>3, <2>4, <2>6, <3>1, <3>2
    <3>3. ASSUME writes[i + 1].by # None, NEW j \in 1..(n - 1),
                 writes'[j].by = writes'[i].by
          PROVE  i = j
      <4>1. j + 1 \in 1..n /\ writes'[j] = writes[j + 1]
        BY <2>1
      <4>2. j + 1 = i + 1
        BY <2>4, <3>1, <3>3, <4>1
      <4> QED BY <2>1, <4>2
    <3> QED BY <2>5, <3>1, <3>2, <3>3
  <2> QED BY <2>1, <2>2, <2>7 DEF EvictedEmpty
<1>14. ASSUME NEW t \in Tasks, EvictionFails(t) PROVE EvictedEmpty'
  <2>1. disk' = disk /\ \A u \in Tasks : u # t => task'[u] = task[u]
    BY <1>14 DEF EvictionFails, TypeOK
  <2>2. CASE task[t].pc = "prepare" /\ UNCHANGED writes
    BY <2>1, <2>2, EvictedKept
  <2>3. CASE writes # <<>> /\ Head(writes).by = t /\ writes' = Tail(writes)
    <3> DEFINE n == Len(writes)
    <3>1. /\ n \in Nat \ {0} /\ writes[1].by = t
          /\ Len(writes') = n - 1
          /\ \A i \in 1..(n - 1) : writes'[i] = writes[i + 1]
      BY <2>3, EmptySeq, HeadTailProperties DEF TypeOK
    <3>2. \A i \in 1..n : writes[i].by # None =>
             /\ task[writes[i].by].pc = "write" /\ writes[i].by \in Tasks
             /\ \A j \in 1..n : writes[j].by = writes[i].by => i = j
      BY <1>0 DEF EvictedEmpty, JobType
    <3>3. \A i \in 1..n : writes[i].mail = {} /\ writes[i].buf = {}
      BY DEF EvictedEmpty
    <3>4. \A i \in 2..n : writes[i].by # None => writes[i].by # t
      BY <3>1, <3>2
    <3> HIDE DEF n
    <3>5. ASSUME NEW i \in 1..(n - 1)
          PROVE  /\ writes'[i].mail = {} /\ writes'[i].buf = {}
                 /\ writes'[i].by # None =>
                      /\ task'[writes'[i].by].pc = "write"
                      /\ \A j \in 1..(n - 1) : writes'[j].by = writes'[i].by => i = j
      <4>1. i + 1 \in 2..n /\ i + 1 \in 1..n /\ writes'[i] = writes[i + 1]
        BY <3>1
      <4>2. ASSUME writes[i + 1].by # None
            PROVE  task'[writes[i + 1].by].pc = "write"
        BY <2>1, <3>2, <3>4, <4>1, <4>2
      <4>3. ASSUME writes[i + 1].by # None, NEW j \in 1..(n - 1),
                   writes'[j].by = writes'[i].by
            PROVE  i = j
        <5>1. j + 1 \in 1..n /\ writes'[j] = writes[j + 1]
          BY <3>1
        <5>2. j + 1 = i + 1
          BY <3>2, <4>1, <4>3, <5>1
        <5> QED BY <3>1, <5>2
      <4> QED BY <3>3, <4>1, <4>2, <4>3
    <3> QED BY <2>1, <3>1, <3>5 DEF EvictedEmpty
  <2> QED BY <1>14, <2>2, <2>3 DEF EvictionFails
<1>15. ASSUME NEW t \in Tasks, Shutdown(t) PROVE EvictedEmpty'
  BY <1>15, EvictedKept DEF Shutdown, remove_runtime, TypeOK
<1>16. ASSUME NEW t \in Tasks, JoinDone(t) PROVE EvictedEmpty'
  BY <1>16, EvictedKept DEF JoinDone, remove_runtime, TypeOK
<1>17. ASSUME NEW t \in Runtimes, SpawnBegin(t) PROVE EvictedEmpty'
  BY <1>17, EvictedKept DEF SpawnBegin, TypeOK
<1>18. ASSUME NEW t \in Runtimes, SpawnFail(t) PROVE EvictedEmpty'
  BY <1>18, EvictedKept DEF SpawnFail, TypeOK
<1>19. ASSUME NEW t \in Runtimes, NEW c \in Spawnable, SpawnManaged(t, c) PROVE EvictedEmpty'
  <2>1. PICK n \in Fresh : task' = [task EXCEPT ![n] = Driver, ![t] = Resumed(t)]
    BY <1>19 DEF SpawnManaged
  <2>2. task[n].pc = "none"
    BY FreshType
  <2> QED BY <1>19, <2>1, <2>2, EvictedKept DEF SpawnManaged, TypeOK
<1>20. ASSUME NEW t \in Runtimes, NEW c \in Spawnable, SpawnEphemeral(t, c) PROVE EvictedEmpty'
  BY <1>20, EvictedKept DEF SpawnEphemeral, TypeOK
<1>21. ASSUME NEW t \in Runtimes, ChildClose(t) PROVE EvictedEmpty'
  BY <1>21, EvictedKept DEF ChildClose, TypeOK
<1>22. ASSUME NEW a \in Agents, Interrupt(a) PROVE EvictedEmpty'
  BY <1>22, EvictedKept DEF Interrupt
<1>23. ASSUME NEW r \in Runtimes, InterruptDone(r) PROVE EvictedEmpty'
  BY <1>23, EvictedKept DEF InterruptDone, TypeOK
<1>24. CASE UNCHANGED vars
  BY <1>24, EvictedKept DEF vars
<1> QED BY <1>1, <1>2, <1>3, <1>4, <1>5, <1>6, <1>7, <1>8, <1>9, <1>10, <1>11, <1>12,
           <1>13, <1>14, <1>15, <1>16, <1>17, <1>18, <1>19, <1>20, <1>21, <1>22, <1>23,
           <1>24
        DEF Next, FlushStep, EvictStep, TurnStep

-----------------------------------------------------------------------------
(* No wake is lost.                                                        *)

(* A runtime that is not waiting to be woken for mail it already has.      *)
Woken(x) == x.mail \cap Trigger # {} => x.wake

(* A step that leaves the runtimes alone, or changes one into a Woken one, *)
(* loses no wake.                                                          *)
LEMMA WakeKept ==
    ASSUME TypeOK, NoLostWake, NEW r, NEW x,
           rt' = rt \/ (rt' = [rt EXCEPT ![r] = x] /\ Woken(x))
    PROVE  NoLostWake'
<1>1. CASE rt' = rt
  BY <1>1 DEF NoLostWake
<1>2. CASE rt' = [rt EXCEPT ![r] = x] /\ Woken(x)
  <2>1. \A s \in Runtimes : rt'[s] = IF s = r THEN x ELSE rt[s]
    BY <1>2 DEF TypeOK
  <2> QED BY <1>2, <2>1 DEF NoLostWake, Woken
<1> QED BY <1>1, <1>2

(* A delivery sets the wake_event with the mail; a record has no mail that *)
(* a rehydrated runtime would have to be woken for.                        *)
LEMMA WokenObjects ==
    ASSUME TypeOK, EvictedEmpty, NoLostWake
    PROVE  /\ Woken(DeadRuntime)
           /\ \A a \in Agents, b \in SUBSET Msgs :
                disk[a] # None => Woken(NewRuntime(a, disk[a], b))
           /\ \A a, b : Woken(NewRuntime(a, Empty, b))
           /\ \A r \in Runtimes, b \in SUBSET Msgs : Deliver(r, b) => NoLostWake'
           /\ \A r \in Runtimes : Woken(rt[r])
<1>1. Woken(DeadRuntime)
  BY DEF Woken, DeadRuntime
<1>2. \A a, b : Woken(NewRuntime(a, Empty, b))
  BY DEF Woken, NewRuntime, Empty
<1>3. \A a \in Agents : disk[a] # None => disk[a] = Empty
  BY DEF EvictedEmpty
<1>4. \A r \in Runtimes : Woken(rt[r])
  BY DEF Woken, NoLostWake
<1>5. ASSUME NEW r \in Runtimes, NEW b \in SUBSET Msgs, Deliver(r, b)
      PROVE  NoLostWake'
  <2> DEFINE x == [rt[r] EXCEPT !.mail = rt[r].mail \cup b,
                                !.wake = rt[r].wake \/ b \cap Trigger # {}]
  <2>1. rt[r] \in RuntimeType
    BY DEF TypeOK
  <2>2. x.mail = rt[r].mail \cup b /\ x.wake = (rt[r].wake \/ b \cap Trigger # {})
    BY <2>1 DEF RuntimeType
  <2>3. Woken(x)
    BY <1>4, <2>2 DEF Woken
  <2>4. rt' = [rt EXCEPT ![r] = x]
    BY <1>5 DEF Deliver
  <2> HIDE DEF x
  <2> QED BY <2>3, <2>4, WakeKept
<1> QED BY <1>1, <1>2, <1>3, <1>4, <1>5

(* The delivery path wakes the runtime it enqueues a trigger message in.   *)
LEMMA AcceptWakes ==
    ASSUME TypeOK, EvictedEmpty, NoLostWake, NEW m \in Msgs, accept(m)
    PROVE  NoLostWake'
<1>0. To[m] \in Agents
  BY ConstantsAssumption
<1>1. CASE runtimes[To[m]] # None /\ Deliver(runtimes[To[m]], {m})
  <2>1. runtimes[To[m]] \in Runtimes
    BY <1>0, <1>1 DEF TypeOK
  <2> QED BY <1>1, <2>1, WokenObjects
<1>2. CASE rt' = rt
  BY <1>2, WakeKept
<1>3. ASSUME NEW n, NEW b \in SUBSET Msgs, disk[To[m]] # None, install(To[m], n, b)
      PROVE  NoLostWake'
  BY <1>0, <1>3, WokenObjects, WakeKept DEF install
<1>4. \A q : (IF q THEN {} ELSE {m}) \in SUBSET Msgs
  OBVIOUS
<1> QED BY <1>1, <1>2, <1>3, <1>4 DEF accept, plane

(* Leaving a turn touches neither a mailbox nor a wake_event.              *)
LEMMA LeaveTurnWakes ==
    ASSUME TypeOK, NoLostWake, NEW t \in Runtimes, NEW st, NEW read, LeaveTurn(t, st, read)
    PROVE  NoLostWake'
<1> DEFINE x == [rt[t] EXCEPT !.turn = FALSE, !.status = st,
                              !.buf = IF read THEN {} ELSE rt[t].buf]
<1>1. rt[t] \in RuntimeType
  BY DEF TypeOK
<1>2. x.mail = rt[t].mail /\ x.wake = rt[t].wake
  BY <1>1 DEF RuntimeType
<1>3. Woken(x)
  BY <1>2 DEF Woken, NoLostWake
<1>4. rt' = [rt EXCEPT ![t] = x]
  BY DEF LeaveTurn
<1> HIDE DEF x
<1> QED BY <1>3, <1>4, WakeKept

(* Every step keeps NoLostWake: only TurnStart clears a wake_event, and it *)
(* drains the mailbox in the same step.                                    *)
LEMMA WakeStep ==
    TypeOK /\ EvictedEmpty /\ NoLostWake /\ [Next]_vars => NoLostWake'
<1> SUFFICES ASSUME TypeOK, EvictedEmpty, NoLostWake, [Next]_vars PROVE NoLostWake'
  OBVIOUS
<1> USE DEF plane, queue, history
<1>1. ASSUME NEW m \in Msgs, SendInput(m) PROVE NoLostWake'
  BY <1>1, AcceptWakes DEF SendInput
<1>2. ASSUME NEW c \in Spawnable, WatchPoll(c) PROVE NoLostWake'
  <2>1. Note[c] \in Msgs
    BY ConstantsAssumption
  <2> QED BY <1>2, <2>1, AcceptWakes, WakeKept DEF WatchPoll
<1>3. ASSUME NEW t \in Runtimes, TurnStart(t) PROVE NoLostWake'
  <2> DEFINE x == [rt[t] EXCEPT !.wake = FALSE, !.turn = TRUE, !.status = "running",
                                !.mail = {}, !.buf = rt[t].buf \cup rt[t].mail]
  <2>1. rt[t] \in RuntimeType
    BY DEF TypeOK
  <2>2. x.mail = {}
    BY <2>1 DEF RuntimeType
  <2>3. Woken(x)
    BY <2>2 DEF Woken
  <2>4. rt' = rt \/ rt' = [rt EXCEPT ![t] = x]
    BY <1>3 DEF TurnStart
  <2> HIDE DEF x
  <2> QED BY <2>3, <2>4, WakeKept
<1>4. ASSUME NEW t \in Runtimes, TurnEnd(t) PROVE NoLostWake'
  BY <1>4, LeaveTurnWakes DEF TurnEnd
<1>5. ASSUME NEW t \in Runtimes, DriverCancelled(t) PROVE NoLostWake'
  BY <1>5, LeaveTurnWakes, WakeKept DEF DriverCancelled
<1>6. ASSUME WakerRun PROVE NoLostWake'
  BY <1>6, WakeKept DEF WakerRun
<1>7. ASSUME NEW t \in Tasks, FlushPick(t) PROVE NoLostWake'
  <2> DEFINE a == Head(task[t].todo)
  <2>1. a \in Agents
    BY <1>7, TaskUpdates DEF FlushPick, TypeOK
  <2>2. CASE runtimes[a] # None /\ Deliver(runtimes[a], parked[a])
    <3>1. runtimes[a] \in Runtimes /\ parked[a] \in SUBSET Msgs
      BY <2>1, <2>2 DEF TypeOK
    <3> QED BY <2>2, <3>1, WokenObjects
  <2>3. CASE rt' = rt
    BY <2>3, WakeKept
  <2> QED BY <1>7, <2>2, <2>3 DEF FlushPick
<1>8. ASSUME NEW t \in Tasks, FlushEnd(t) \/ RehydrateFail(t) PROVE NoLostWake'
  BY <1>8, WakeKept DEF FlushEnd, RehydrateFail
<1>9. ASSUME NEW t \in Tasks, FlushInstall(t) PROVE NoLostWake'
  <2> DEFINE a == task[t].target
  <2>1. a \in Agents
    BY <1>9 DEF FlushInstall, TypeOK, TaskType
  <2>2. parked[a] \in SUBSET Msgs
    BY <2>1 DEF TypeOK
  <2>3. ASSUME NEW n, disk[a] # None, install(a, n, parked[a])
        PROVE  NoLostWake'
    BY <2>1, <2>2, <2>3, WokenObjects, WakeKept DEF install
  <2>4. CASE rt' = rt
    BY <2>4, WakeKept
  <2> QED BY <1>9, <2>3, <2>4 DEF FlushInstall
<1>10. ASSUME NEW t \in Tasks, ReserveFull(t) \/ Scan(t) \/ EvictionFails(t)
       PROVE  NoLostWake'
  BY <1>10, WakeKept DEF ReserveFull, Scan, EvictionFails
<1>11. ASSUME DiskWrite PROVE NoLostWake'
  BY <1>11, WakeKept DEF DiskWrite
<1>12. ASSUME NEW t \in Tasks, remove_runtime(t) PROVE NoLostWake'
  BY <1>12, WokenObjects, WakeKept DEF remove_runtime
<1>13. ASSUME NEW t \in Tasks, Shutdown(t) PROVE NoLostWake'
  <2> DEFINE v == task[t].victim
             x == [rt[v] EXCEPT !.stopped = TRUE, !.wake = TRUE]
  <2>1. v \in Runtimes
    BY <1>13 DEF Shutdown, TypeOK, TaskType
  <2>2. x.wake = TRUE
    BY <2>1 DEF TypeOK, RuntimeType
  <2>3. Woken(x)
    BY <2>2 DEF Woken
  <2>4. remove_runtime(t) \/ rt' = [rt EXCEPT ![v] = x]
    BY <1>13 DEF Shutdown
  <2> HIDE DEF x
  <2> QED BY <1>12, <2>3, <2>4, WakeKept
<1>14. ASSUME NEW t \in Tasks, JoinDone(t) PROVE NoLostWake'
  BY <1>12, <1>14 DEF JoinDone
<1>15. ASSUME NEW t \in Runtimes, SpawnBegin(t) \/ SpawnFail(t) PROVE NoLostWake'
  BY <1>15, WakeKept DEF SpawnBegin, SpawnFail
<1>16. ASSUME NEW t \in Runtimes, NEW c \in Spawnable, SpawnManaged(t, c) PROVE NoLostWake'
  <2>1. PICK n : rt' = [rt EXCEPT ![n] = NewRuntime(c, Empty, {})]
    BY <1>16 DEF SpawnManaged
  <2>2. Woken(NewRuntime(c, Empty, {}))
    BY WokenObjects
  <2> QED BY <2>1, <2>2, WakeKept
<1>17. ASSUME NEW t \in Runtimes, NEW c \in Spawnable, SpawnEphemeral(t, c) PROVE NoLostWake'
  <2> DEFINE x == [NewRuntime(c, Empty, {}) EXCEPT !.turn = TRUE, !.status = "running"]
  <2>1. x.mail = {}
    BY DEF NewRuntime, Empty
  <2>2. Woken(x)
    BY <2>1 DEF Woken
  <2>3. \E n : rt' = [rt EXCEPT ![n] = x]
    BY <1>17 DEF SpawnEphemeral
  <2> HIDE DEF x
  <2> QED BY <2>2, <2>3, WakeKept
<1>18. ASSUME NEW t \in Runtimes, ChildClose(t) PROVE NoLostWake'
  BY <1>18, WokenObjects, WakeKept DEF ChildClose
<1>19. ASSUME NEW a \in Agents, Interrupt(a) PROVE NoLostWake'
  <2> DEFINE r == runtimes[a]
             x == [rt[r] EXCEPT !.status = "interrupted"]
  <2>1. r \in Runtimes
    BY <1>19 DEF Interrupt, TypeOK
  <2>2. x.mail = rt[r].mail /\ x.wake = rt[r].wake
    BY <2>1 DEF TypeOK, RuntimeType
  <2>3. Woken(x)
    BY <2>1, <2>2 DEF Woken, NoLostWake
  <2>4. rt' = rt \/ rt' = [rt EXCEPT ![r] = x]
    BY <1>19 DEF Interrupt
  <2> HIDE DEF x
  <2> QED BY <2>3, <2>4, WakeKept
<1>20. ASSUME NEW r \in Runtimes, InterruptDone(r) PROVE NoLostWake'
  BY <1>20, WakeKept DEF InterruptDone
<1>21. CASE UNCHANGED vars
  BY <1>21, WakeKept DEF vars
<1> QED BY <1>1, <1>2, <1>3, <1>4, <1>5, <1>6, <1>7, <1>8, <1>9, <1>10, <1>11, <1>13,
           <1>14, <1>15, <1>16, <1>17, <1>18, <1>19, <1>20, <1>21
        DEF Next, FlushStep, EvictStep, TurnStep
=============================================================================
