-------------------------- MODULE AgentPlaneTypes ---------------------------
(***************************************************************************)
(* Type correctness of AgentPlane, step by step: the lemmas that           *)
(* AgentPlaneOnce combines into theorems.                                  *)
(***************************************************************************)
EXTENDS AgentPlane, SequenceTheorems, TLAPS

-----------------------------------------------------------------------------
(* Sequences of agents: the residents, the queue's keys, a flush's todo.   *)

(* Removing an agent leaves a sequence over the same set.                  *)
LEMMA DiscardType ==
    ASSUME NEW S, NEW s \in Seq(S), NEW a
    PROVE  Discard(s, a) \in Seq(S)
<1>1. CASE \E i \in 1..Len(s) : s[i] = a
  <2> DEFINE k == CHOOSE i \in 1..Len(s) : s[i] = a
  <2>1. k \in 1..Len(s)
    BY <1>1
  <2>2. Discard(s, a) = SubSeq(s, 1, k - 1) \o SubSeq(s, k + 1, Len(s))
    BY <1>1 DEF Discard
  <2> HIDE DEF k
  <2>3. SubSeq(s, 1, k - 1) \in Seq(S) /\ SubSeq(s, k + 1, Len(s)) \in Seq(S)
    BY <2>1
  <2> QED BY <2>2, <2>3
<1>2. CASE ~ \E i \in 1..Len(s) : s[i] = a
  BY <1>2 DEF Discard
<1> QED BY <1>1, <1>2

(* Touching an agent leaves a sequence over the same set.                  *)
LEMMA TouchType ==
    ASSUME NEW S, NEW s \in Seq(S), NEW a \in S
    PROVE  Touch(s, a) \in Seq(S)
BY DiscardType DEF Touch

(* The least recently used candidate is a resident, and the rest are       *)
(* residents.                                                              *)
LEMMA PopLruType ==
    ASSUME residents \in Seq(Agents), NEW p
    PROVE  /\ PopLru(p).candidate \in Agents \cup {None}
           /\ PopLru(p).rest \in Seq(Agents)
<1>1. CASE residents = <<>>
  BY <1>1 DEF PopLru
<1>2. CASE residents # <<>> /\ Head(residents) # p
  BY <1>2 DEF PopLru
<1>3. CASE residents # <<>> /\ Head(residents) = p /\ Len(residents) = 1
  BY <1>3 DEF PopLru
<1>4. CASE residents # <<>> /\ Head(residents) = p /\ Len(residents) # 1
  <2>1. Len(residents) \in Nat /\ Len(residents) # 0
    BY <1>4, EmptySeq
  <2>0. Len(residents) # 1
    BY <1>4
  <2>2. Len(residents) >= 2
    BY <2>0, <2>1
  <2>3. Head(residents) \in Agents /\ Tail(residents) \in Seq(Agents)
    BY <1>4, HeadTailProperties
  <2>5. Tail(residents) # <<>>
    <3>1. Len(Tail(residents)) = Len(residents) - 1
      BY <1>4, HeadTailProperties
    <3>2. Len(Tail(residents)) # 0
      BY <3>1, <2>1, <2>0
    <3> QED BY <3>2, EmptySeq, <2>3
  <2>4. Tail(Tail(residents)) \in Seq(Agents) /\ residents[2] \in Agents
    BY <2>2, <2>3, <2>5, HeadTailProperties
  <2> QED BY <1>4, <2>3, <2>4 DEF PopLru
<1> QED BY <1>1, <1>2, <1>3, <1>4

-----------------------------------------------------------------------------
(* Types of the objects an action builds.                                  *)

(* What a runtime, a task or a record is created as.                       *)
LEMMA ObjectTypes ==
    /\ DeadRuntime \in RuntimeType
    /\ NoTask \in TaskType
    /\ Driver \in TaskType
    /\ Empty \in Records
    /\ \A a \in Agents, rec \in Records, b \in SUBSET Msgs :
         NewRuntime(a, rec, b) \in RuntimeType
    /\ \A s \in Seq(Agents) : [NoTask EXCEPT !.pc = "pick", !.todo = s] \in TaskType
    /\ [NoTask EXCEPT !.pc = "turn"] \in TaskType
    /\ [NoTask EXCEPT !.pc = "pick"] \in TaskType
    /\ [NoTask EXCEPT !.pc = "reserve", !.kind = "spawn"] \in TaskType
<1>1. DeadRuntime \in RuntimeType
  BY DEF DeadRuntime, RuntimeType, Status, Final
<1>2. NoTask \in TaskFields
  BY DEF NoTask, TaskFields
<1>3. NoTask \in TaskType
  BY <1>2 DEF NoTask, TaskType
<1>4. Driver \in TaskType
  BY <1>2 DEF Driver, NoTask, TaskType, TaskFields
<1>5. Empty \in Records
  BY DEF Empty, Records
<1>6. ASSUME NEW a \in Agents, NEW rec \in Records, NEW b \in SUBSET Msgs
      PROVE  NewRuntime(a, rec, b) \in RuntimeType
  BY DEF NewRuntime, RuntimeType, Records, Status, Final
<1>7. \A s \in Seq(Agents) : [NoTask EXCEPT !.pc = "pick", !.todo = s] \in TaskType
  BY <1>2 DEF NoTask, TaskType, TaskFields
<1>8. /\ [NoTask EXCEPT !.pc = "turn"] \in TaskType
      /\ [NoTask EXCEPT !.pc = "pick"] \in TaskType
      /\ [NoTask EXCEPT !.pc = "reserve", !.kind = "spawn"] \in TaskType
  BY <1>2 DEF NoTask, TaskType, TaskFields
<1> QED BY <1>1, <1>3, <1>4, <1>5, <1>6, <1>7, <1>8

(* How a task changes in the middle of a flush, a spawn or an eviction.    *)
LEMMA TaskUpdates ==
    ASSUME NEW x \in TaskType
    PROVE  /\ [x EXCEPT !.pc = "turn"] \in TaskType
           /\ x.todo # <<>> => /\ [x EXCEPT !.todo = Tail(x.todo)] \in TaskType
                               /\ Head(x.todo) \in Agents
           /\ x.todo # <<>> =>
                \A a \in Agents :
                  [[x EXCEPT !.todo = Tail(x.todo)]
                     EXCEPT !.pc = "reserve", !.target = a] \in TaskType
           /\ x.pc = "reserve" =>
                \A n \in Nat : [x EXCEPT !.pc = "scan", !.scan = n] \in TaskType
           /\ x.pc = "scan" /\ x.scan > 0 =>
                /\ [x EXCEPT !.scan = x.scan - 1] \in TaskType
                /\ \A a \in Agents, r \in Runtimes :
                     [[x EXCEPT !.scan = x.scan - 1]
                        EXCEPT !.pc = "write", !.candidate = a, !.victim = r] \in TaskType
           /\ x.pc = "write" => [x EXCEPT !.pc = "prepare"] \in TaskType
           /\ x.pc = "prepare" => [x EXCEPT !.pc = "join"] \in TaskType
           /\ x.pc \in {"write", "prepare"} =>
                [x EXCEPT !.pc = "scan", !.candidate = None, !.victim = None] \in TaskType
           /\ x.pc \in {"prepare", "join"} =>
                [x EXCEPT !.pc = "reserve", !.scan = 0, !.candidate = None,
                          !.victim = None] \in TaskType
           /\ \A c \in Agents, n \in Runtimes :
                [x EXCEPT !.pc = "child", !.target = c, !.victim = n] \in TaskType
<1>1. x \in TaskFields
  BY DEF TaskType
<1>2. [x EXCEPT !.pc = "turn"] \in TaskType
  BY <1>1 DEF TaskType, TaskFields
<1>3. ASSUME x.todo # <<>>
      PROVE  Tail(x.todo) \in Seq(Agents) /\ Head(x.todo) \in Agents
  BY <1>1, <1>3, HeadTailProperties DEF TaskFields
<1>4. ASSUME x.todo # <<>>
      PROVE  /\ [x EXCEPT !.todo = Tail(x.todo)] \in TaskType
             /\ \A a \in Agents : [[x EXCEPT !.todo = Tail(x.todo)]
                                     EXCEPT !.pc = "reserve", !.target = a] \in TaskType
  BY <1>1, <1>3, <1>4 DEF TaskType, TaskFields
<1>5. x.pc = "reserve" =>
        \A n \in Nat : [x EXCEPT !.pc = "scan", !.scan = n] \in TaskType
  BY <1>1 DEF TaskType, TaskFields
<1>6. ASSUME x.pc = "scan", x.scan > 0
      PROVE  /\ [x EXCEPT !.scan = x.scan - 1] \in TaskType
             /\ \A a \in Agents, r \in Runtimes :
                  [[x EXCEPT !.scan = x.scan - 1]
                     EXCEPT !.pc = "write", !.candidate = a, !.victim = r] \in TaskType
  <2>1. x.scan - 1 \in Nat
    BY <1>1, <1>6 DEF TaskFields
  <2> QED BY <1>1, <1>6, <2>1 DEF TaskType, TaskFields
<1>7. x.pc = "write" => [x EXCEPT !.pc = "prepare"] \in TaskType
  BY <1>1 DEF TaskType, TaskFields
<1>8. x.pc = "prepare" => [x EXCEPT !.pc = "join"] \in TaskType
  BY <1>1 DEF TaskType, TaskFields
<1>9. x.pc \in {"write", "prepare"} =>
        [x EXCEPT !.pc = "scan", !.candidate = None, !.victim = None] \in TaskType
  BY <1>1 DEF TaskType, TaskFields
<1>10. x.pc \in {"prepare", "join"} =>
         [x EXCEPT !.pc = "reserve", !.scan = 0, !.candidate = None,
                   !.victim = None] \in TaskType
  BY <1>1 DEF TaskType, TaskFields
<1>11. \A c \in Agents, n \in Runtimes :
         [x EXCEPT !.pc = "child", !.target = c, !.victim = n] \in TaskType
  BY <1>1 DEF TaskType, TaskFields
<1> QED BY <1>2, <1>3, <1>4, <1>5, <1>6, <1>7, <1>8, <1>9, <1>10, <1>11

(* A task that goes on after its reservation is still a task.              *)
LEMMA ResumedType ==
    ASSUME TypeOK, NEW t \in Tasks
    PROVE  Resumed(t) \in TaskType
<1>1. task[t].todo \in Seq(Agents)
  BY DEF TypeOK, TaskType, TaskFields
<1> QED BY <1>1, ObjectTypes DEF Resumed

(* A new runtime object is a runtime that no task stands for yet.          *)
LEMMA FreshType ==
    ASSUME NEW n \in Fresh
    PROVE  /\ n \in Runtimes /\ n \in Tasks /\ n # Waker
           /\ task[n].pc = "none" /\ rt[n] = DeadRuntime
           /\ \A a \in Agents : runtimes[a] # n
           /\ \A t \in Tasks : task[t].victim # n
BY ConstantsAssumption DEF Fresh, Unreferenced, Tasks

(* What a delivery or a park leaves of the types.                          *)
LEMMA DeliverType ==
    ASSUME TypeOK, NEW r \in Runtimes, NEW b \in SUBSET Msgs, Deliver(r, b)
    PROVE  rt' \in [Runtimes -> RuntimeType]
<1> DEFINE new == [rt[r] EXCEPT !.mail = @ \cup b, !.wake = @ \/ b \cap Trigger # {}]
<1>1. rt[r] \in RuntimeType
  BY DEF TypeOK
<1>2. rt' = [rt EXCEPT ![r] = new]
  BY DEF Deliver
<1>3. new \in RuntimeType
  BY <1>1 DEF RuntimeType
<1> HIDE DEF new
<1> QED BY <1>2, <1>3 DEF TypeOK

(* Parking and taking a batch keep the types of the queue.                 *)
LEMMA QueueTypes ==
    ASSUME TypeOK
    PROVE  /\ \A m \in Msgs : park(m) =>
                /\ parked' \in [Agents -> SUBSET Msgs]
                /\ keys' \in Seq(Agents) /\ wakerSet' \in BOOLEAN
           /\ \A a : take_all(a) =>
                /\ parked' \in [Agents -> SUBSET Msgs]
                /\ keys' \in Seq(Agents) /\ wakerSet' \in BOOLEAN
<1>1. ASSUME NEW m \in Msgs, park(m)
      PROVE  /\ parked' \in [Agents -> SUBSET Msgs]
             /\ keys' \in Seq(Agents) /\ wakerSet' \in BOOLEAN
  BY <1>1, ConstantsAssumption DEF TypeOK, park
<1>2. ASSUME NEW a, take_all(a)
      PROVE  /\ parked' \in [Agents -> SUBSET Msgs]
             /\ keys' \in Seq(Agents) /\ wakerSet' \in BOOLEAN
  BY <1>2, DiscardType DEF TypeOK, take_all
<1> QED BY <1>1, <1>2

(* Installing a rehydrated runtime keeps the types of the plane.           *)
LEMMA InstallType ==
    ASSUME TypeOK, NEW a \in Agents, NEW n \in Runtimes, NEW b \in SUBSET Msgs,
           disk[a] # None, install(a, n, b)
    PROVE  /\ runtimes' \in [Agents -> Runtimes \cup {None}]
           /\ rt' \in [Runtimes -> RuntimeType]
           /\ disk' \in [Agents -> Records \cup {None}]
           /\ writes' = writes
           /\ residents' \in Seq(Agents)
<1>1. NewRuntime(a, disk[a], b) \in RuntimeType
  BY ObjectTypes DEF TypeOK
<1> QED BY <1>1, TouchType DEF TypeOK, install

(* The delivery path keeps the types of what it may change.                *)
LEMMA AcceptType ==
    ASSUME TypeOK, NEW m \in Msgs, accept(m)
    PROVE  /\ runtimes' \in [Agents -> Runtimes \cup {None}]
           /\ rt' \in [Runtimes -> RuntimeType]
           /\ disk' \in [Agents -> Records \cup {None}]
           /\ writes' = writes
           /\ residents' \in Seq(Agents)
           /\ parked' \in [Agents -> SUBSET Msgs]
           /\ keys' \in Seq(Agents) /\ wakerSet' \in BOOLEAN
           /\ task' \in [Tasks -> TaskType]
<1> DEFINE a == To[m]
           blocked == m \in Trigger /\ ~has_capacity
<1>0. a \in Agents
  BY ConstantsAssumption
<1>1. CASE /\ runtimes[a] # None
           /\ Deliver(runtimes[a], {m})
           /\ residents' = Touch(residents, a)
           /\ UNCHANGED <<runtimes, disk, writes, task, queue>>
  <2>1. runtimes[a] \in Runtimes
    BY <1>0, <1>1 DEF TypeOK
  <2>2. rt' \in [Runtimes -> RuntimeType]
    BY <1>1, <2>1, DeliverType
  <2>3. residents' \in Seq(Agents)
    BY <1>0, <1>1, TouchType DEF TypeOK
  <2> QED BY <1>1, <2>2, <2>3 DEF TypeOK, queue
<1>2. CASE park(m) /\ UNCHANGED <<plane, task>>
  BY <1>2, QueueTypes DEF TypeOK, plane
<1>3. ASSUME NEW n \in Fresh, disk[a] # None,
             install(a, n, IF blocked THEN {} ELSE {m}),
             task' = [task EXCEPT ![n] = Driver],
             IF blocked THEN park(m) ELSE UNCHANGED queue
      PROVE  /\ runtimes' \in [Agents -> Runtimes \cup {None}]
             /\ rt' \in [Runtimes -> RuntimeType]
             /\ disk' \in [Agents -> Records \cup {None}]
             /\ writes' = writes
             /\ residents' \in Seq(Agents)
             /\ parked' \in [Agents -> SUBSET Msgs]
             /\ keys' \in Seq(Agents) /\ wakerSet' \in BOOLEAN
             /\ task' \in [Tasks -> TaskType]
  <2> DEFINE b == IF blocked THEN {} ELSE {m}
  <2>1. b \in SUBSET Msgs /\ n \in Runtimes
    BY <1>3, FreshType
  <2>2. task' \in [Tasks -> TaskType]
    BY <1>3, ObjectTypes DEF TypeOK
  <2>3. /\ parked' \in [Agents -> SUBSET Msgs]
        /\ keys' \in Seq(Agents) /\ wakerSet' \in BOOLEAN
    BY <1>3, QueueTypes DEF TypeOK, queue
  <2> HIDE DEF b, a
  <2>4. install(a, n, b)
    BY <1>3 DEF b, a
  <2>5. disk[a] # None
    BY <1>3 DEF a
  <2> QED BY <1>0, <2>1, <2>2, <2>3, <2>4, <2>5, InstallType
<1> QED BY <1>1, <1>2, <1>3 DEF accept

(* Leaving a turn keeps the types of what it changes.                      *)
LEMMA LeaveTurnType ==
    ASSUME TypeOK, NEW t \in Runtimes, NEW st \in Final, NEW read \in BOOLEAN,
           LeaveTurn(t, st, read)
    PROVE  /\ rt' \in [Runtimes -> RuntimeType]
           /\ consumed' \subseteq Msgs /\ active' \in Nat
<1> DEFINE new == [rt[t] EXCEPT !.turn = FALSE, !.status = st,
                                !.buf = IF read THEN {} ELSE rt[t].buf]
<1>1. rt[t] \in RuntimeType
  BY DEF TypeOK
<1>2. new \in RuntimeType
  BY <1>1 DEF RuntimeType, Status
<1>3. rt' = [rt EXCEPT ![t] = new]
  BY DEF LeaveTurn
<1>4. rt[t].buf \in SUBSET Msgs
  BY <1>1 DEF RuntimeType
<1> HIDE DEF new
<1> QED BY <1>2, <1>3, <1>4 DEF LeaveTurn, TypeOK

(* Removing an evicted runtime keeps the types of what it changes.         *)
LEMMA RemoveType ==
    ASSUME TypeOK, NEW t \in Tasks, task[t].pc \in {"prepare", "join"}, remove_runtime(t)
    PROVE  /\ runtimes' \in [Agents -> Runtimes \cup {None}]
           /\ rt' \in [Runtimes -> RuntimeType]
           /\ task' \in [Tasks -> TaskType]
           /\ running' \in Tasks \cup {None}
<1>1. [task[t] EXCEPT !.pc = "reserve", !.scan = 0, !.candidate = None,
                      !.victim = None] \in TaskType
  BY TaskUpdates DEF TypeOK
<1> QED BY <1>1, ObjectTypes DEF remove_runtime, TypeOK

(* Any step keeps the types, one case for each action.  (The writer wakes   *)
(* the evictor that awaits the record: EvictedEmpty says it is waiting.)   *)
LEMMA TypeStep ==
    TypeOK /\ EvictedEmpty /\ [Next]_vars => TypeOK'
<1> SUFFICES ASSUME TypeOK, EvictedEmpty, [Next]_vars PROVE TypeOK'
  OBVIOUS
<1> USE DEF plane, queue, history
<1>1. ASSUME NEW m \in Msgs, SendInput(m) PROVE TypeOK'
  BY <1>1, AcceptType DEF SendInput, TypeOK
<1>2. ASSUME NEW c \in Spawnable, WatchPoll(c) PROVE TypeOK'
  <2>0. c \in Agents /\ Note[c] \in Msgs
    BY ConstantsAssumption
  <2>1. watch' \in [Agents -> {"off", "on", "told", "gone"}]
    BY <1>2 DEF WatchPoll, TypeOK
  <2>2. CASE accept(Note[c]) /\ sent' = sent \cup {Note[c]}
    BY <1>2, <2>0, <2>1, <2>2, AcceptType DEF WatchPoll, TypeOK
  <2>3. CASE UNCHANGED <<plane, task, queue, sent>>
    BY <1>2, <2>1, <2>3 DEF WatchPoll, TypeOK
  <2> QED BY <1>2, <2>2, <2>3 DEF WatchPoll
<1>3. ASSUME NEW t \in Runtimes, TurnStart(t) PROVE TypeOK'
  <2> DEFINE new == [rt[t] EXCEPT !.wake = FALSE, !.turn = TRUE,
                                  !.status = "running", !.mail = {},
                                  !.buf = rt[t].buf \cup rt[t].mail]
  <2>0. rt[t] \in RuntimeType /\ task[t] \in TaskType
    BY DEF TypeOK, Tasks
  <2>1. new \in RuntimeType
    BY <2>0 DEF RuntimeType, Status, Final
  <2>2. rt' \in [Runtimes -> RuntimeType]
    BY <1>3, <2>1 DEF TurnStart, TypeOK
  <2>3. task' \in [Tasks -> TaskType]
    <3>1. [task[t] EXCEPT !.pc = "turn"] \in TaskType
      BY <2>0, TaskUpdates
    <3> QED BY <1>3, <3>1, ObjectTypes DEF TurnStart, TypeOK
  <2> QED BY <1>3, <2>2, <2>3 DEF TurnStart, TypeOK
<1>4. ASSUME NEW t \in Runtimes, TurnEnd(t) PROVE TypeOK'
  <2>1. \E st \in Final, read \in BOOLEAN : LeaveTurn(t, st, read)
    BY <1>4 DEF TurnEnd, Final
  <2>2. /\ rt' \in [Runtimes -> RuntimeType]
        /\ consumed' \subseteq Msgs /\ active' \in Nat
    BY <2>1, LeaveTurnType
  <2>3. task' \in [Tasks -> TaskType]
    BY <1>4, ObjectTypes DEF TurnEnd, TypeOK
  <2> QED BY <1>4, <2>2, <2>3 DEF TurnEnd, TypeOK, Tasks
<1>5. ASSUME NEW t \in Runtimes, DriverCancelled(t) PROVE TypeOK'
  <2>1. /\ rt' \in [Runtimes -> RuntimeType]
        /\ consumed' \subseteq Msgs /\ active' \in Nat
    <3>1. CASE \E read \in BOOLEAN : LeaveTurn(t, "interrupted", read)
      BY <3>1, LeaveTurnType DEF Final
    <3>2. CASE UNCHANGED <<rt, consumed, active>>
      BY <3>2 DEF TypeOK
    <3> QED BY <1>5, <3>1, <3>2 DEF DriverCancelled
  <2>2. writes' \in Seq(JobType)
    <3>1. \A i \in 1..Len(writes) :
             [writes[i] EXCEPT !.by = IF @ = t THEN None ELSE @] \in JobType
      <4>1. \A i \in 1..Len(writes) : writes[i] \in JobType
        BY DEF TypeOK
      <4> QED BY <4>1 DEF JobType
    <3>2. Len(writes) \in Nat
      BY DEF TypeOK
    <3> QED BY <1>5, <3>1, <3>2 DEF DriverCancelled
  <2>3. task' \in [Tasks -> TaskType]
    BY <1>5, ObjectTypes DEF DriverCancelled, TypeOK
  <2> QED BY <1>5, <2>1, <2>2, <2>3 DEF DriverCancelled, TypeOK
<1>6. ASSUME WakerRun PROVE TypeOK'
  <2>1. task' \in [Tasks -> TaskType]
    BY <1>6, ObjectTypes DEF WakerRun, TypeOK
  <2> QED BY <1>6, <2>1 DEF WakerRun, TypeOK, Tasks
<1>7. ASSUME NEW t \in Tasks, FlushPick(t) PROVE TypeOK'
  <2> DEFINE a == Head(task[t].todo)
             next == [task[t] EXCEPT !.todo = Tail(task[t].todo)]
  <2>1. /\ a \in Agents /\ next \in TaskType
        /\ [next EXCEPT !.pc = "reserve", !.target = a] \in TaskType
    BY <1>7, TaskUpdates DEF FlushPick, TypeOK
  <2>2. task' \in [Tasks -> TaskType]
    BY <1>7, <2>1 DEF FlushPick, TypeOK
  <2>3. residents' \in Seq(Agents)
    BY <1>7, <2>1, TouchType DEF FlushPick, TypeOK
  <2>4. /\ parked' \in [Agents -> SUBSET Msgs]
        /\ keys' \in Seq(Agents) /\ wakerSet' \in BOOLEAN
    <3>1. take_all(a) \/ UNCHANGED queue
      BY <1>7 DEF FlushPick
    <3> QED BY <3>1, QueueTypes DEF TypeOK
  <2>5. rt' \in [Runtimes -> RuntimeType]
    <3>1. CASE runtimes[a] # None /\ Deliver(runtimes[a], parked[a])
      <4>1. runtimes[a] \in Runtimes /\ parked[a] \in SUBSET Msgs
        BY <2>1, <3>1 DEF TypeOK
      <4> QED BY <3>1, <4>1, DeliverType
    <3>2. CASE UNCHANGED rt
      BY <3>2 DEF TypeOK
    <3> QED BY <1>7, <3>1, <3>2 DEF FlushPick
  <2> QED BY <1>7, <2>2, <2>3, <2>4, <2>5 DEF FlushPick, TypeOK
<1>8. ASSUME NEW t \in Tasks, FlushEnd(t) PROVE TypeOK'
  <2>1. task' \in [Tasks -> TaskType]
    BY <1>8, ObjectTypes DEF FlushEnd, TypeOK
  <2> QED BY <1>8, <2>1 DEF FlushEnd, TypeOK
<1>9. ASSUME NEW t \in Tasks, RehydrateFail(t) PROVE TypeOK'
  <2>1. task' \in [Tasks -> TaskType]
    BY <1>9, ObjectTypes DEF RehydrateFail, TypeOK
  <2> QED BY <1>9, <2>1 DEF RehydrateFail, TypeOK
<1>10. ASSUME NEW t \in Tasks, FlushInstall(t) PROVE TypeOK'
  <2> DEFINE a == task[t].target
  <2>1. a \in Agents
    BY <1>10 DEF FlushInstall, TypeOK, TaskType
  <2>2. parked[a] \in SUBSET Msgs /\ Resumed(t) \in TaskType
    BY <2>1, ResumedType DEF TypeOK
  <2>3. /\ parked' \in [Agents -> SUBSET Msgs]
        /\ keys' \in Seq(Agents) /\ wakerSet' \in BOOLEAN
    BY <1>10, QueueTypes DEF FlushInstall
  <2>4. CASE UNCHANGED plane /\ task' = [task EXCEPT ![t] = Resumed(t)]
    BY <1>10, <2>2, <2>3, <2>4 DEF FlushInstall, TypeOK
  <2>5. ASSUME NEW n \in Fresh, disk[a] # None, install(a, n, parked[a]),
               task' = [task EXCEPT ![n] = Driver, ![t] = Resumed(t)]
        PROVE  TypeOK'
    <3>1. task' \in [Tasks -> TaskType]
      BY <2>2, <2>5, ObjectTypes DEF TypeOK
    <3>2. n \in Runtimes
      BY FreshType
    <3> HIDE DEF a
    <3>3. /\ runtimes' \in [Agents -> Runtimes \cup {None}]
          /\ rt' \in [Runtimes -> RuntimeType]
          /\ disk' \in [Agents -> Records \cup {None}]
          /\ writes' = writes
          /\ residents' \in Seq(Agents)
      BY <2>1, <2>2, <2>5, <3>2, InstallType
    <3> QED BY <1>10, <2>3, <3>1, <3>3 DEF FlushInstall, TypeOK
  <2> QED BY <1>10, <2>4, <2>5 DEF FlushInstall
<1>11. ASSUME NEW t \in Tasks, ReserveFull(t) PROVE TypeOK'
  <2>1. Len(residents) \in Nat
    BY DEF TypeOK
  <2>2. task' \in [Tasks -> TaskType]
    BY <1>11, <2>1, TaskUpdates DEF ReserveFull, TypeOK
  <2> QED BY <1>11, <2>2 DEF ReserveFull, TypeOK
<1>12. ASSUME NEW t \in Tasks, Scan(t) PROVE TypeOK'
  <2> DEFINE p == IF task[t].kind = "flush" THEN None ELSE rt[t].agent
             a == PopLru(p).candidate
             r == runtimes[a]
             next == [task[t] EXCEPT !.scan = task[t].scan - 1]
             written == [by |-> t, agent |-> a, mail |-> rt[r].mail, buf |-> rt[r].buf]
             new == [next EXCEPT !.pc = "write", !.candidate = a, !.victim = r]
  <2>0. task[t] \in TaskType /\ task[t].pc = "scan" /\ Resumed(t) \in TaskType
    BY <1>12, ResumedType DEF Scan, TypeOK
  <2>1. a \in Agents \cup {None} /\ PopLru(p).rest \in Seq(Agents)
    BY PopLruType DEF TypeOK
  <2> HIDE DEF p
  <2>2. CASE /\ residents' \in {residents, PopLru(p).rest}
             /\ task' = [task EXCEPT ![t] = Resumed(t)]
             /\ running' = Holder(t)
             /\ UNCHANGED writes
    BY <1>12, <2>0, <2>1, <2>2 DEF Scan, TypeOK, Holder
  <2>3. CASE /\ task[t].scan > 0 /\ a # None
             /\ residents' \in {PopLru(p).rest, Touch(PopLru(p).rest, a)}
             /\ task' = [task EXCEPT ![t] = next]
             /\ UNCHANGED <<running, writes>>
    <3>1. a \in Agents /\ next \in TaskType
      BY <2>0, <2>1, <2>3, TaskUpdates
    <3>2. residents' \in Seq(Agents)
      BY <2>1, <2>3, <3>1, TouchType
    <3> HIDE DEF next
    <3> QED BY <1>12, <2>3, <3>1, <3>2 DEF Scan, TypeOK
  <2>4. CASE /\ task[t].scan > 0 /\ a # None /\ r # None
             /\ residents' = PopLru(p).rest
             /\ task' = [task EXCEPT ![t] = new]
             /\ writes' = Append(writes, written)
             /\ running' = None
    <3>1. a \in Agents /\ r \in Runtimes
      BY <2>1, <2>4 DEF TypeOK
    <3>2. new \in TaskType
      BY <2>0, <2>4, <3>1, TaskUpdates
    <3>3. written \in JobType
      BY <3>1 DEF TypeOK, JobType, RuntimeType
    <3> HIDE DEF new, written
    <3>4. /\ writes' \in Seq(JobType) /\ task' \in [Tasks -> TaskType]
          /\ residents' \in Seq(Agents) /\ running' \in Tasks \cup {None}
      BY <2>1, <2>4, <3>2, <3>3 DEF TypeOK
    <3>5. UNCHANGED <<runtimes, rt, disk, pendingSlots, queue, active, cancel,
                      interrupting, history, consumed>>
      BY <1>12 DEF Scan
    <3> QED BY <3>4, <3>5 DEF TypeOK
  <2>5. \/ UNCHANGED <<residents, writes>> /\ task' = [task EXCEPT ![t] = Resumed(t)]
           /\ running' = Holder(t)
        \/ /\ residents' = PopLru(p).rest /\ UNCHANGED writes
           /\ task' = [task EXCEPT ![t] = Resumed(t)] /\ running' = Holder(t)
        \/ /\ task[t].scan > 0 /\ a # None
           /\ residents' = PopLru(p).rest \/ residents' = Touch(PopLru(p).rest, a)
           /\ task' = [task EXCEPT ![t] = next] /\ UNCHANGED <<running, writes>>
        \/ /\ task[t].scan > 0 /\ a # None /\ r # None
           /\ residents' = PopLru(p).rest
           /\ task' = [task EXCEPT ![t] = new]
           /\ writes' = Append(writes, written) /\ running' = None
    BY <1>12, Zenon DEF Scan, p
  <2> HIDE DEF a, r, next, new, written
  <2> QED BY <2>2, <2>3, <2>4, <2>5
<1>13. ASSUME DiskWrite PROVE TypeOK'
  <2> DEFINE job == Head(writes)
  <2>1. job \in JobType /\ Tail(writes) \in Seq(JobType) /\ job = writes[1]
    BY <1>13, HeadTailProperties DEF DiskWrite, TypeOK
  <2>2. disk' \in [Agents -> Records \cup {None}]
    BY <1>13, <2>1 DEF DiskWrite, TypeOK, JobType, Records
  <2>3. ASSUME NEW t \in Tasks, t = job.by
        PROVE  [task[t] EXCEPT !.pc = "prepare"] \in TaskType
    <3>1. 1 \in 1..Len(writes) /\ t # None
      BY <1>13, ConstantsAssumption DEF DiskWrite, TypeOK, Tasks
    <3>2. task[t].pc = "write"
      BY <2>1, <2>3, <3>1 DEF EvictedEmpty
    <3> QED BY <3>2, TaskUpdates DEF TypeOK
  <2>4. task' \in [Tasks -> TaskType]
    BY <1>13, <2>3 DEF DiskWrite, TypeOK
  <2> QED BY <1>13, <2>1, <2>2, <2>4 DEF DiskWrite, TypeOK
<1>14. ASSUME NEW t \in Tasks, EvictionFails(t) PROVE TypeOK'
  <2>1. task[t] \in TaskType /\ task[t].pc \in {"write", "prepare"}
    BY <1>14 DEF EvictionFails, TypeOK
  <2>2. task[t].candidate \in Agents
    BY <2>1 DEF TaskType
  <2>3. residents' \in Seq(Agents)
    BY <1>14, <2>2, TouchType DEF EvictionFails, TypeOK
  <2>4. task' \in [Tasks -> TaskType]
    BY <1>14, <2>1, TaskUpdates DEF EvictionFails, TypeOK
  <2>5. writes' \in Seq(JobType)
    BY <1>14, HeadTailProperties DEF EvictionFails, TypeOK
  <2> QED BY <1>14, <2>3, <2>4, <2>5 DEF EvictionFails, TypeOK
<1>15. ASSUME NEW t \in Tasks, Shutdown(t) PROVE TypeOK'
  <2>1. task[t] \in TaskType /\ task[t].pc = "prepare"
    BY <1>15 DEF Shutdown, TypeOK
  <2>2. CASE remove_runtime(t) /\ UNCHANGED cancel
    BY <1>15, <2>1, <2>2, RemoveType DEF Shutdown, TypeOK
  <2>3. CASE /\ rt' = [rt EXCEPT ![task[t].victim] = [@ EXCEPT !.stopped = TRUE, !.wake = TRUE]]
             /\ CancelTask(task[t].victim)
             /\ task' = [task EXCEPT ![t].pc = "join"]
             /\ UNCHANGED <<runtimes, running>>
    <3>1. task[t].victim \in Runtimes
      BY <2>1 DEF TaskType
    <3>2. [rt[task[t].victim] EXCEPT !.stopped = TRUE, !.wake = TRUE] \in RuntimeType
      <4>1. rt[task[t].victim] \in RuntimeType
        BY <3>1 DEF TypeOK
      <4> QED BY <4>1 DEF RuntimeType
    <3>3. rt' \in [Runtimes -> RuntimeType]
      BY <2>3, <3>1, <3>2 DEF TypeOK
    <3>4. task' \in [Tasks -> TaskType]
      BY <2>1, <2>3, TaskUpdates DEF TypeOK
    <3>5. cancel' \in [Tasks -> BOOLEAN]
      BY <2>3 DEF CancelTask
    <3> QED BY <1>15, <2>3, <3>3, <3>4, <3>5 DEF Shutdown, TypeOK
  <2> QED BY <1>15, <2>2, <2>3 DEF Shutdown
<1>16. ASSUME NEW t \in Tasks, JoinDone(t) PROVE TypeOK'
  <2>1. task[t].pc = "join" /\ remove_runtime(t)
    BY <1>16 DEF JoinDone
  <2> QED BY <1>16, <2>1, RemoveType DEF JoinDone, TypeOK
<1>17. ASSUME NEW t \in Runtimes, SpawnBegin(t) PROVE TypeOK'
  <2>1. task' \in [Tasks -> TaskType]
    BY <1>17, ObjectTypes DEF SpawnBegin, TypeOK
  <2> QED BY <1>17, <2>1 DEF SpawnBegin, TypeOK, Tasks
<1>18. ASSUME NEW t \in Runtimes, SpawnFail(t) PROVE TypeOK'
  <2>1. task' \in [Tasks -> TaskType]
    BY <1>18, ResumedType DEF SpawnFail, TypeOK, Tasks
  <2> QED BY <1>18, <2>1 DEF SpawnFail, TypeOK
<1>19. ASSUME NEW t \in Runtimes, NEW c \in Spawnable, SpawnManaged(t, c) PROVE TypeOK'
  <2>0. c \in Agents /\ t \in Tasks
    BY ConstantsAssumption DEF Tasks
  <2>1. PICK n \in Fresh :
          /\ runtimes' = [runtimes EXCEPT ![c] = n]
          /\ rt' = [rt EXCEPT ![n] = NewRuntime(c, Empty, {})]
          /\ task' = [task EXCEPT ![n] = Driver, ![t] = Resumed(t)]
    BY <1>19 DEF SpawnManaged
  <2>2. n \in Runtimes /\ NewRuntime(c, Empty, {}) \in RuntimeType
    BY <2>0, FreshType, ObjectTypes
  <2>3. task' \in [Tasks -> TaskType]
    BY <2>0, <2>1, ResumedType, ObjectTypes DEF TypeOK
  <2>4. residents' \in Seq(Agents)
    BY <1>19, <2>0, TouchType DEF SpawnManaged, TypeOK
  <2>5. rt' \in [Runtimes -> RuntimeType] /\ runtimes' \in [Agents -> Runtimes \cup {None}]
    BY <2>0, <2>1, <2>2 DEF TypeOK
  <2> QED BY <1>19, <2>3, <2>4, <2>5 DEF SpawnManaged, TypeOK
<1>20. ASSUME NEW t \in Runtimes, NEW c \in Spawnable, SpawnEphemeral(t, c) PROVE TypeOK'
  <2>0. c \in Agents /\ t \in Tasks
    BY ConstantsAssumption DEF Tasks
  <2> DEFINE new == [NewRuntime(c, Empty, {}) EXCEPT !.turn = TRUE, !.status = "running"]
  <2>1. PICK n \in Fresh :
          /\ runtimes' = [runtimes EXCEPT ![c] = n]
          /\ rt' = [rt EXCEPT ![n] = new]
          /\ task' = [task EXCEPT ![t] = [@ EXCEPT !.pc = "child", !.target = c,
                                                   !.victim = n]]
    BY <1>20 DEF SpawnEphemeral
  <2>2. n \in Runtimes
    BY FreshType
  <2>3. new \in RuntimeType
    <3>1. NewRuntime(c, Empty, {}) \in RuntimeType
      BY <2>0, ObjectTypes
    <3> QED BY <3>1 DEF RuntimeType, Status
  <2>4. task' \in [Tasks -> TaskType]
    <3>1. [task[t] EXCEPT !.pc = "child", !.target = c, !.victim = n] \in TaskType
      BY <2>0, <2>2, TaskUpdates DEF TypeOK
    <3> QED BY <2>1, <3>1 DEF TypeOK
  <2> HIDE DEF new
  <2>5. rt' \in [Runtimes -> RuntimeType] /\ runtimes' \in [Agents -> Runtimes \cup {None}]
    BY <2>0, <2>1, <2>2, <2>3 DEF TypeOK
  <2> QED BY <1>20, <2>4, <2>5 DEF SpawnEphemeral, TypeOK
<1>21. ASSUME NEW t \in Runtimes, ChildClose(t) PROVE TypeOK'
  <2>1. /\ parked' \in [Agents -> SUBSET Msgs]
        /\ keys' \in Seq(Agents) /\ wakerSet' \in BOOLEAN
    BY <1>21, QueueTypes DEF ChildClose
  <2>2. residents' \in Seq(Agents)
    BY <1>21, DiscardType DEF ChildClose, TypeOK
  <2>3. task' \in [Tasks -> TaskType]
    BY <1>21, ResumedType DEF ChildClose, TypeOK, Tasks
  <2>4. rt' \in [Runtimes -> RuntimeType] /\ runtimes' \in [Agents -> Runtimes \cup {None}]
    BY <1>21, ObjectTypes DEF ChildClose, TypeOK
  <2> QED BY <1>21, <2>1, <2>2, <2>3, <2>4 DEF ChildClose, TypeOK
<1>22. ASSUME NEW a \in Agents, Interrupt(a) PROVE TypeOK'
  <2>1. runtimes[a] \in Runtimes
    BY <1>22 DEF Interrupt, TypeOK
  <2>2. cancel' \in [Tasks -> BOOLEAN]
    BY <1>22 DEF Interrupt, TypeOK, CancelTask
  <2>3. rt' \in [Runtimes -> RuntimeType]
    <3>1. [rt[runtimes[a]] EXCEPT !.status = "interrupted"] \in RuntimeType
      <4>1. rt[runtimes[a]] \in RuntimeType
        BY <2>1 DEF TypeOK
      <4> QED BY <4>1 DEF RuntimeType, Status, Final
    <3> QED BY <1>22, <3>1 DEF Interrupt, TypeOK
  <2> QED BY <1>22, <2>1, <2>2, <2>3 DEF Interrupt, TypeOK
<1>23. ASSUME NEW r \in Runtimes, InterruptDone(r) PROVE TypeOK'
  <2>1. task' \in [Tasks -> TaskType]
    BY <1>23, ObjectTypes DEF InterruptDone, TypeOK
  <2> QED BY <1>23, <2>1 DEF InterruptDone, TypeOK
<1>24. CASE UNCHANGED vars
  BY <1>24 DEF vars, TypeOK
<1> QED BY <1>1, <1>2, <1>3, <1>4, <1>5, <1>6, <1>7, <1>8, <1>9, <1>10, <1>11, <1>12,
           <1>13, <1>14, <1>15, <1>16, <1>17, <1>18, <1>19, <1>20, <1>21, <1>22, <1>23,
           <1>24
        DEF Next, FlushStep, EvictStep, TurnStep
=============================================================================
