--------------------------- MODULE AgentPlaneOnce ---------------------------
(***************************************************************************)
(* Theorems about AgentPlane, for every value of its constants: any number *)
(* of agents, runtimes, messages, children, failures and interrupts.       *)
(***************************************************************************)
EXTENDS AgentPlaneWake

-----------------------------------------------------------------------------
(* No message is delivered twice.                                          *)

(* AtMostOnce without the records, which hold no mail.                     *)
Once ==
    /\ \A r \in Runtimes :
         /\ rt[r].mail \cap rt[r].buf = {}
         /\ Held(r) \cap consumed = {}
         /\ \A s \in Runtimes : r # s => Held(r) \cap Held(s) = {}
         /\ \A a \in Agents : Held(r) \cap parked[a] = {}
    /\ \A a \in Agents :
         /\ parked[a] \cap consumed = {}
         /\ \A b \in Agents : a # b => parked[a] \cap parked[b] = {}

(* Whatever is somewhere was sent, and a watcher that is still to report   *)
(* has not sent its notice: what is accepted now is nowhere yet.           *)
Accounted ==
    /\ consumed \subseteq sent
    /\ \A r \in Runtimes : Held(r) \subseteq sent
    /\ \A a \in Agents : parked[a] \subseteq sent
    /\ \A c \in Spawnable : watch[c] = "on" => c \in born /\ Note[c] \notin sent
    /\ \A c \in Spawnable : c \notin born => Note[c] \notin sent

(* Once implies AtMostOnce when no record holds mail.                      *)
LEMMA OnceSuffices ==
    ASSUME EvictedEmpty, Once
    PROVE  AtMostOnce
<1>1. \A a \in Agents : Stored(a) = {}
  BY DEF EvictedEmpty, Stored, Empty
<1> QED BY <1>1 DEF AtMostOnce, Once

(* A batch that is nowhere else is put into one mailbox.                   *)
LEMMA PutInMailbox ==
    ASSUME Once, NEW r \in Runtimes, NEW B,
           consumed' = consumed,
           \A s \in Runtimes : B \cap Held(s) = {},
           B \cap consumed = {},
           \A a \in Agents : parked'[a] \subseteq parked[a] /\ B \cap parked'[a] = {},
           \A s \in Runtimes : rt'[s].buf \subseteq rt[s].buf,
           \A s \in Runtimes : s # r => rt'[s].mail \subseteq rt[s].mail,
           rt'[r].mail \subseteq rt[r].mail \cup B
    PROVE  Once'
<1>1. \A s \in Runtimes : Held(s)' \subseteq Held(s) \cup (IF s = r THEN B ELSE {})
  BY DEF Held
<1>2. \A s \in Runtimes : rt'[s].mail \cap rt'[s].buf = {}
  BY DEF Once, Held
<1>3. \A s \in Runtimes : Held(s)' \cap consumed' = {}
  BY <1>1 DEF Once
<1>4. \A s, u \in Runtimes : s # u => Held(s)' \cap Held(u)' = {}
  BY <1>1 DEF Once
<1>5. \A s \in Runtimes, a \in Agents : Held(s)' \cap parked'[a] = {}
  BY <1>1 DEF Once
<1>6. \A a \in Agents :
         /\ parked'[a] \cap consumed' = {}
         /\ \A b \in Agents : a # b => parked'[a] \cap parked'[b] = {}
  BY DEF Once
<1> QED BY <1>2, <1>3, <1>4, <1>5, <1>6 DEF Once

(* A batch that is nowhere is parked.                                      *)
LEMMA PutInQueue ==
    ASSUME Once, NEW a \in Agents, NEW B,
           consumed' = consumed,
           \A s \in Runtimes : B \cap Held(s) = {},
           B \cap consumed = {},
           \A b \in Agents : B \cap parked[b] = {},
           \A b \in Agents : b # a => parked'[b] \subseteq parked[b],
           parked'[a] \subseteq parked[a] \cup B,
           \A s \in Runtimes : /\ rt'[s].buf \subseteq rt[s].buf
                               /\ rt'[s].mail \subseteq rt[s].mail
    PROVE  Once'
<1>1. \A s \in Runtimes : Held(s)' \subseteq Held(s)
  BY DEF Held
<1>2. \A s \in Runtimes : rt'[s].mail \cap rt'[s].buf = {}
  BY DEF Once, Held
<1>3. \A s \in Runtimes : Held(s)' \cap consumed' = {}
  BY <1>1 DEF Once
<1>4. \A s, u \in Runtimes : s # u => Held(s)' \cap Held(u)' = {}
  BY <1>1 DEF Once
<1>5. \A s \in Runtimes, b \in Agents : Held(s)' \cap parked'[b] = {}
  BY <1>1 DEF Once
<1>6. \A b, c \in Agents : b # c => parked'[b] \cap parked'[c] = {}
  BY DEF Once
<1>7. \A b \in Agents : parked'[b] \cap consumed' = {}
  BY DEF Once
<1> QED BY <1>2, <1>3, <1>4, <1>5, <1>6, <1>7 DEF Once

(* A step that only forgets mail.                                          *)
LEMMA OnceForgets ==
    ASSUME Once, consumed' = consumed,
           \A a \in Agents : parked'[a] \subseteq parked[a],
           \A s \in Runtimes : /\ rt'[s].buf \subseteq rt[s].buf
                               /\ rt'[s].mail \subseteq rt[s].mail
    PROVE  Once' /\ \A s \in Runtimes : Held(s)' \subseteq Held(s)
<1>1. \A s \in Runtimes : Held(s)' \subseteq Held(s)
  BY DEF Held
<1>2. \A s \in Runtimes : rt'[s].mail \cap rt'[s].buf = {}
  BY DEF Once
<1>3. \A s, u \in Runtimes : s # u => Held(s)' \cap Held(u)' = {}
  BY <1>1 DEF Once
<1>4. \A s \in Runtimes : /\ Held(s)' \cap consumed' = {}
                          /\ \A a \in Agents : Held(s)' \cap parked'[a] = {}
  BY <1>1 DEF Once
<1>5. \A a \in Agents :
         /\ parked'[a] \cap consumed' = {}
         /\ \A b \in Agents : a # b => parked'[a] \cap parked'[b] = {}
  BY DEF Once
<1> QED BY <1>1, <1>2, <1>3, <1>4, <1>5 DEF Once

(* A step that sends and spawns nothing and only forgets mail.             *)
LEMMA OnlyGoes ==
    ASSUME Once, Accounted,
           consumed' = consumed, sent' = sent, born' = born, watch' = watch,
           \A a \in Agents : parked'[a] \subseteq parked[a],
           \A s \in Runtimes : /\ rt'[s].buf \subseteq rt[s].buf
                               /\ rt'[s].mail \subseteq rt[s].mail
    PROVE  Once' /\ Accounted'
<1>1. Once' /\ \A s \in Runtimes : Held(s)' \subseteq Held(s)
  BY OnceForgets
<1> QED BY <1>1 DEF Accounted

(* A flush moves the parked mail of an agent into one mailbox.             *)
LEMMA MoveBatch ==
    ASSUME Once, Accounted, NEW r \in Runtimes, NEW a \in Agents,
           consumed' = consumed, sent' = sent, born' = born, watch' = watch,
           \A s \in Runtimes : rt'[s].buf \subseteq rt[s].buf,
           \A s \in Runtimes : s # r => rt'[s].mail \subseteq rt[s].mail,
           rt'[r].mail \subseteq rt[r].mail \cup parked[a],
           \A b \in Agents : parked'[b] = IF b = a THEN {} ELSE parked[b]
    PROVE  Once' /\ Accounted'
<1> DEFINE B == parked[a]
<1>1. /\ \A s \in Runtimes : B \cap Held(s) = {}
      /\ B \cap consumed = {}
  BY DEF Once
<1>2. \A b \in Agents : parked'[b] \subseteq parked[b] /\ B \cap parked'[b] = {}
  BY DEF Once
<1>3. Once'
  <2> HIDE DEF B
  <2>1. rt'[r].mail \subseteq rt[r].mail \cup B
    BY DEF B
  <2> QED BY <1>1, <1>2, <2>1, PutInMailbox
<1>4. \A s \in Runtimes : Held(s)' \subseteq Held(s) \cup B
  BY DEF Held
<1>5. \A s \in Runtimes : Held(s)' \subseteq sent
  BY <1>4 DEF Accounted
<1>6. Accounted'
  BY <1>2, <1>5 DEF Accounted
<1> QED BY <1>3, <1>6

(* What the building blocks do to mailboxes and to the queue.              *)
LEMMA DeliverMail ==
    ASSUME TypeOK, NEW r \in Runtimes, NEW b, Deliver(r, b)
    PROVE  /\ rt'[r].mail = rt[r].mail \cup b
           /\ \A s \in Runtimes : rt'[s].buf = rt[s].buf
           /\ \A s \in Runtimes : s # r => rt'[s] = rt[s]
<1> DEFINE x == [rt[r] EXCEPT !.mail = rt[r].mail \cup b,
                              !.wake = rt[r].wake \/ b \cap Trigger # {}]
<1>1. x.mail = rt[r].mail \cup b /\ x.buf = rt[r].buf
  BY DEF TypeOK, RuntimeType
<1>2. rt' = [rt EXCEPT ![r] = x]
  BY DEF Deliver
<1> HIDE DEF x
<1> QED BY <1>1, <1>2 DEF TypeOK

(* Installing a runtime gives it the batch and nothing else.               *)
LEMMA InstallMail ==
    ASSUME TypeOK, EvictedEmpty, NEW a \in Agents, NEW n \in Runtimes, NEW b,
           disk[a] # None, install(a, n, b)
    PROVE  /\ rt'[n].mail = b /\ rt'[n].buf = {}
           /\ \A s \in Runtimes : s # n => rt'[s] = rt[s]
<1>1. disk[a] = Empty
  BY DEF EvictedEmpty
<1>2. NewRuntime(a, disk[a], b).mail = b /\ NewRuntime(a, disk[a], b).buf = {}
  BY <1>1 DEF NewRuntime, Empty
<1> QED BY <1>2 DEF install, TypeOK

(* park adds one message to one queue; take_all empties one queue.         *)
LEMMA QueueMail ==
    ASSUME TypeOK
    PROVE  /\ \A m \in Msgs : park(m) => \A b \in Agents :
                parked'[b] = IF b = To[m] THEN parked[b] \cup {m} ELSE parked[b]
           /\ \A a : take_all(a) => \A b \in Agents :
                parked'[b] = IF b = a THEN {} ELSE parked[b]
BY ConstantsAssumption DEF TypeOK, park, take_all

(* Leaving a turn moves at most its own buffer to the messages read.       *)
LEMMA LeaveTurnMail ==
    ASSUME TypeOK, NEW t \in Runtimes, NEW st, NEW read \in BOOLEAN, LeaveTurn(t, st, read)
    PROVE  /\ rt'[t].mail = rt[t].mail
           /\ rt'[t].buf = IF read THEN {} ELSE rt[t].buf
           /\ \A s \in Runtimes : s # t => rt'[s] = rt[s]
<1> DEFINE x == [rt[t] EXCEPT !.turn = FALSE, !.status = st,
                              !.buf = IF read THEN {} ELSE rt[t].buf]
<1>1. x.mail = rt[t].mail /\ x.buf = IF read THEN {} ELSE rt[t].buf
  BY DEF TypeOK, RuntimeType
<1>2. rt' = [rt EXCEPT ![t] = x]
  BY DEF LeaveTurn
<1> HIDE DEF x
<1> QED BY <1>1, <1>2 DEF TypeOK

(* A message that is nowhere is accepted into one place.                   *)
LEMMA AcceptOnce ==
    ASSUME TypeOK, EvictedEmpty, Once, Accounted, NEW m \in Msgs, m \notin sent, accept(m),
           consumed' = consumed, sent' = sent \cup {m}
    PROVE  /\ Once'
           /\ \A r \in Runtimes : Held(r)' \subseteq sent'
           /\ \A a \in Agents : parked'[a] \subseteq sent'
<1>0. To[m] \in Agents
  BY ConstantsAssumption
<1>1. /\ \A s \in Runtimes : {m} \cap Held(s) = {}
      /\ {m} \cap consumed = {}
      /\ \A a \in Agents : {m} \cap parked[a] = {}
  BY DEF Accounted
<1>2. ASSUME NEW r \in Runtimes, parked' = parked,
             \A s \in Runtimes : rt'[s].buf \subseteq rt[s].buf,
             \A s \in Runtimes : s # r => rt'[s].mail \subseteq rt[s].mail,
             rt'[r].mail \subseteq rt[r].mail \cup {m}
      PROVE  /\ Once'
             /\ \A s \in Runtimes : Held(s)' \subseteq sent'
             /\ \A a \in Agents : parked'[a] \subseteq sent'
  <2>1. Once'
    BY <1>1, <1>2, PutInMailbox
  <2>2. \A s \in Runtimes : Held(s)' \subseteq Held(s) \cup {m}
    BY <1>2 DEF Held
  <2> QED BY <1>2, <2>1, <2>2 DEF Accounted
<1>3. ASSUME park(m),
             \A s \in Runtimes : /\ rt'[s].buf \subseteq rt[s].buf
                                 /\ rt'[s].mail \subseteq rt[s].mail
      PROVE  /\ Once'
             /\ \A s \in Runtimes : Held(s)' \subseteq sent'
             /\ \A a \in Agents : parked'[a] \subseteq sent'
  <2>1. \A b \in Agents :
          parked'[b] = IF b = To[m] THEN parked[b] \cup {m} ELSE parked[b]
    BY <1>3, QueueMail
  <2>2. Once'
    <3>1. /\ \A b \in Agents : b # To[m] => parked'[b] \subseteq parked[b]
          /\ parked'[To[m]] \subseteq parked[To[m]] \cup {m}
      BY <1>0, <2>1
    <3> QED BY <1>0, <1>1, <1>3, <3>1, PutInQueue
  <2>3. \A s \in Runtimes : Held(s)' \subseteq Held(s)
    BY <1>3 DEF Held
  <2> QED BY <2>1, <2>2, <2>3 DEF Accounted
<1>4. CASE runtimes[To[m]] # None /\ Deliver(runtimes[To[m]], {m}) /\ UNCHANGED queue
  <2>1. runtimes[To[m]] \in Runtimes
    BY <1>0, <1>4 DEF TypeOK
  <2> QED BY <1>2, <1>4, <2>1, DeliverMail DEF queue
<1>5. CASE park(m) /\ UNCHANGED <<plane, task>>
  BY <1>3, <1>5 DEF plane
<1>6. ASSUME NEW n \in Fresh, disk[To[m]] # None, install(To[m], n, {}), park(m)
      PROVE  /\ Once'
             /\ \A s \in Runtimes : Held(s)' \subseteq sent'
             /\ \A a \in Agents : parked'[a] \subseteq sent'
  <2>1. n \in Runtimes
    BY FreshType
  <2>2. \A s \in Runtimes : /\ rt'[s].buf \subseteq rt[s].buf
                            /\ rt'[s].mail \subseteq rt[s].mail
    BY <1>0, <1>6, <2>1, InstallMail
  <2> QED BY <1>3, <1>6, <2>2
<1>7. ASSUME NEW n \in Fresh, disk[To[m]] # None, install(To[m], n, {m}), UNCHANGED queue
      PROVE  /\ Once'
             /\ \A s \in Runtimes : Held(s)' \subseteq sent'
             /\ \A a \in Agents : parked'[a] \subseteq sent'
  <2>1. n \in Runtimes
    BY FreshType
  <2>2. /\ \A s \in Runtimes : rt'[s].buf \subseteq rt[s].buf
        /\ \A s \in Runtimes : s # n => rt'[s].mail \subseteq rt[s].mail
        /\ rt'[n].mail \subseteq rt[n].mail \cup {m}
    BY <1>0, <1>7, <2>1, InstallMail
  <2> QED BY <1>2, <1>7, <2>1, <2>2 DEF queue
<1> QED BY <1>4, <1>5, <1>6, <1>7 DEF accept

(* Every step keeps Once and Accounted: mail moves between places, is      *)
(* forgotten, or is a message that was not sent before.                    *)
LEMMA OnceStep ==
    ASSUME TypeOK, EvictedEmpty, Once, Accounted, [Next]_vars
    PROVE  Once' /\ Accounted'
<1> USE DEF plane, queue, history
<1>1. ASSUME NEW m \in Msgs, SendInput(m) PROVE Once' /\ Accounted'
  <2>1. /\ m \notin sent /\ accept(m) /\ consumed' = consumed /\ sent' = sent \cup {m}
        /\ born' = born /\ watch' = watch /\ \A c \in Spawnable : m # Note[c]
    BY <1>1 DEF SendInput
  <2>2. /\ Once'
        /\ \A r \in Runtimes : Held(r)' \subseteq sent'
        /\ \A a \in Agents : parked'[a] \subseteq sent'
    BY <2>1, AcceptOnce
  <2> QED BY <2>1, <2>2 DEF Accounted
<1>2. ASSUME NEW c \in Spawnable, WatchPoll(c) PROVE Once' /\ Accounted'
  <2>0. Note[c] \in Msgs /\ c \in Agents /\ \A d \in Spawnable : Note[d] = Note[c] => d = c
    BY ConstantsAssumption
  <2>1. /\ watch[c] = "on" /\ consumed' = consumed /\ born' = born
        /\ \A d \in Spawnable : watch'[d] = "on" => d # c /\ watch[d] = "on"
    BY <1>2, ConstantsAssumption DEF WatchPoll, TypeOK
  <2>2. CASE UNCHANGED <<plane, task, queue, sent>>
    <3>1. Once'
      BY <2>1, <2>2 DEF Once, Held
    <3>2. Accounted'
      BY <2>1, <2>2 DEF Accounted, Held
    <3> QED BY <3>1, <3>2
  <2>3. CASE accept(Note[c]) /\ sent' = sent \cup {Note[c]}
    <3>1. Note[c] \notin sent /\ c \in born
      BY <2>1 DEF Accounted
    <3>2. /\ Once'
          /\ \A r \in Runtimes : Held(r)' \subseteq sent'
          /\ \A a \in Agents : parked'[a] \subseteq sent'
      BY <2>0, <2>1, <2>3, <3>1, AcceptOnce
    <3>3. consumed' \subseteq sent'
      BY <2>1, <2>3 DEF Accounted
    <3>4. \A d \in Spawnable : watch'[d] = "on" => d \in born' /\ Note[d] \notin sent'
      BY <2>0, <2>1, <2>3 DEF Accounted
    <3>5. \A d \in Spawnable : d \notin born' => Note[d] \notin sent'
      BY <2>0, <2>1, <2>3, <3>1 DEF Accounted
    <3> QED BY <3>2, <3>3, <3>4, <3>5 DEF Accounted
  <2> QED BY <1>2, <2>2, <2>3 DEF WatchPoll
<1>3. ASSUME NEW t \in Runtimes, TurnStart(t) PROVE Once' /\ Accounted'
  <2> DEFINE x == [rt[t] EXCEPT !.wake = FALSE, !.turn = TRUE, !.status = "running",
                                !.mail = {}, !.buf = rt[t].buf \cup rt[t].mail]
  <2>1. x.mail = {} /\ x.buf = rt[t].buf \cup rt[t].mail
    BY DEF TypeOK, RuntimeType
  <2>2. rt' = rt \/ rt' = [rt EXCEPT ![t] = x]
    BY <1>3 DEF TurnStart
  <2>3. /\ consumed' = consumed /\ sent' = sent /\ born' = born /\ watch' = watch
        /\ parked' = parked
    BY <1>3 DEF TurnStart
  <2> HIDE DEF x
  <2>4. \A s \in Runtimes : Held(s)' = Held(s) /\ rt'[s].mail \cap rt'[s].buf = {}
    BY <2>1, <2>2 DEF TypeOK, Held, Once
  <2>5. Once'
    BY <2>3, <2>4 DEF Once
  <2>6. Accounted'
    BY <2>3, <2>4 DEF Accounted
  <2> QED BY <2>5, <2>6
<1>4. ASSUME NEW t \in Runtimes, NEW st, NEW read \in BOOLEAN, LeaveTurn(t, st, read),
             sent' = sent, born' = born, watch' = watch, parked' = parked
      PROVE  Once' /\ Accounted'
  <2>1. CASE ~read
    <3>1. consumed' = consumed /\ \A s \in Runtimes : /\ rt'[s].mail = rt[s].mail
                                                      /\ rt'[s].buf = rt[s].buf
      BY <1>4, <2>1, LeaveTurnMail DEF LeaveTurn
    <3> QED BY <1>4, <3>1, OnlyGoes
  <2>2. CASE read
    <3>1. /\ consumed' = consumed \cup rt[t].buf
          /\ rt'[t].mail = rt[t].mail /\ rt'[t].buf = {}
          /\ \A s \in Runtimes : s # t => rt'[s] = rt[s]
      BY <1>4, <2>2, LeaveTurnMail DEF LeaveTurn
    <3>2. \A s \in Runtimes : Held(s)' \subseteq Held(s) /\ Held(s)' \cap rt[t].buf = {}
      BY <3>1 DEF Held, Once
    <3>3. \A s \in Runtimes : rt'[s].mail \cap rt'[s].buf = {}
      BY <3>1 DEF Once
    <3>4. rt[t].buf \subseteq Held(t)
      BY DEF Held
    <3>5. \A s \in Runtimes :
             /\ Held(s)' \cap consumed' = {}
             /\ \A u \in Runtimes : s # u => Held(s)' \cap Held(u)' = {}
             /\ \A a \in Agents : Held(s)' \cap parked'[a] = {}
      BY <1>4, <3>1, <3>2 DEF Once
    <3>6. \A a \in Agents : parked'[a] \cap consumed' = {}
      BY <1>4, <3>1, <3>4 DEF Once
    <3>7. Once'
      BY <1>4, <3>3, <3>5, <3>6 DEF Once
    <3>8. Accounted'
      BY <1>4, <3>1, <3>2, <3>4 DEF Accounted
    <3> QED BY <3>7, <3>8
  <2> QED BY <2>1, <2>2
<1>5. ASSUME NEW t \in Runtimes, TurnEnd(t) PROVE Once' /\ Accounted'
  BY <1>4, <1>5 DEF TurnEnd
<1>6. ASSUME NEW t \in Runtimes, DriverCancelled(t) PROVE Once' /\ Accounted'
  BY <1>4, <1>6, OnlyGoes DEF DriverCancelled
<1>7. ASSUME WakerRun \/ DiskWrite PROVE Once' /\ Accounted'
  BY <1>7, OnlyGoes DEF WakerRun, DiskWrite
<1>8. ASSUME NEW t \in Tasks, FlushPick(t) PROVE Once' /\ Accounted'
  <2> DEFINE a == Head(task[t].todo)
  <2>1. a \in Agents
    BY <1>8, TaskUpdates DEF FlushPick, TypeOK
  <2>2. consumed' = consumed /\ sent' = sent /\ born' = born /\ watch' = watch
    BY <1>8 DEF FlushPick
  <2>3. CASE runtimes[a] # None /\ Deliver(runtimes[a], parked[a]) /\ take_all(a)
    <3>1. runtimes[a] \in Runtimes
      BY <2>1, <2>3 DEF TypeOK
    <3>2. /\ rt'[runtimes[a]].mail = rt[runtimes[a]].mail \cup parked[a]
          /\ \A s \in Runtimes : rt'[s].buf = rt[s].buf
          /\ \A s \in Runtimes : s # runtimes[a] => rt'[s] = rt[s]
      BY <2>3, <3>1, DeliverMail
    <3>3. \A b \in Agents : parked'[b] = IF b = a THEN {} ELSE parked[b]
      BY <2>3, QueueMail
    <3> QED BY <2>1, <2>2, <3>1, <3>2, <3>3, MoveBatch
  <2>4. CASE rt' = rt /\ (take_all(a) \/ UNCHANGED queue)
    <3>1. \A b \in Agents : parked'[b] \subseteq parked[b]
      BY <2>4, QueueMail
    <3> QED BY <2>2, <2>4, <3>1, OnlyGoes
  <2> QED BY <1>8, <2>3, <2>4 DEF FlushPick
<1>9. ASSUME NEW t \in Tasks, FlushEnd(t) \/ RehydrateFail(t) PROVE Once' /\ Accounted'
  BY <1>9, OnlyGoes DEF FlushEnd, RehydrateFail
<1>10. ASSUME NEW t \in Tasks, FlushInstall(t) PROVE Once' /\ Accounted'
  <2> DEFINE a == task[t].target
  <2>1. a \in Agents
    BY <1>10 DEF FlushInstall, TypeOK, TaskType
  <2>2. /\ consumed' = consumed /\ sent' = sent /\ born' = born /\ watch' = watch
        /\ take_all(a)
    BY <1>10 DEF FlushInstall
  <2>3. \A b \in Agents : parked'[b] = IF b = a THEN {} ELSE parked[b]
    BY <2>2, QueueMail
  <2>4. ASSUME NEW n \in Fresh, disk[a] # None, install(a, n, parked[a])
        PROVE  Once' /\ Accounted'
    <3>1. n \in Runtimes
      BY FreshType
    <3>2. /\ rt'[n].mail = parked[a] /\ rt'[n].buf = {}
          /\ \A s \in Runtimes : s # n => rt'[s] = rt[s]
      BY <2>1, <2>4, <3>1, InstallMail
    <3> QED BY <2>1, <2>2, <2>3, <3>1, <3>2, MoveBatch
  <2>5. CASE UNCHANGED plane
    BY <2>2, <2>3, <2>5, OnlyGoes
  <2> QED BY <1>10, <2>4, <2>5 DEF FlushInstall
<1>11. ASSUME NEW t \in Tasks, ReserveFull(t) \/ Scan(t) \/ EvictionFails(t)
       PROVE  Once' /\ Accounted'
  BY <1>11, OnlyGoes DEF ReserveFull, Scan, EvictionFails
<1>12. ASSUME NEW r, NEW x, x.mail = {}, x.buf = {}, rt' = [rt EXCEPT ![r] = x]
       PROVE  \A s \in Runtimes : /\ rt'[s].buf \subseteq rt[s].buf
                                  /\ rt'[s].mail \subseteq rt[s].mail
  BY <1>12 DEF TypeOK
<1>13. DeadRuntime.mail = {} /\ DeadRuntime.buf = {}
  BY DEF DeadRuntime
<1>14. ASSUME NEW t \in Tasks, Shutdown(t) PROVE Once' /\ Accounted'
  <2> DEFINE v == task[t].victim
             x == [rt[v] EXCEPT !.stopped = TRUE, !.wake = TRUE]
  <2>1. v \in Runtimes
    BY <1>14 DEF Shutdown, TypeOK, TaskType
  <2>2. x.mail = rt[v].mail /\ x.buf = rt[v].buf
    BY <2>1 DEF TypeOK, RuntimeType
  <2>3. rt' = [rt EXCEPT ![v] = DeadRuntime] \/ rt' = [rt EXCEPT ![v] = x]
    BY <1>14 DEF Shutdown, remove_runtime
  <2> HIDE DEF x
  <2>4. \A s \in Runtimes : /\ rt'[s].buf \subseteq rt[s].buf
                            /\ rt'[s].mail \subseteq rt[s].mail
    BY <1>13, <2>2, <2>3 DEF TypeOK
  <2> QED BY <1>14, <2>4, OnlyGoes DEF Shutdown
<1>15. ASSUME NEW t \in Tasks, JoinDone(t) PROVE Once' /\ Accounted'
  BY <1>12, <1>13, <1>15, OnlyGoes DEF JoinDone, remove_runtime
<1>16. ASSUME NEW t \in Runtimes, SpawnBegin(t) \/ SpawnFail(t) PROVE Once' /\ Accounted'
  BY <1>16, OnlyGoes DEF SpawnBegin, SpawnFail
<1>17. ASSUME NEW t \in Runtimes, NEW c \in Spawnable, SpawnManaged(t, c)
       PROVE  Once' /\ Accounted'
  <2>0. c \in Agents
    BY ConstantsAssumption
  <2>1. PICK n \in Fresh : rt' = [rt EXCEPT ![n] = NewRuntime(c, Empty, {})]
    BY <1>17 DEF SpawnManaged
  <2>2. NewRuntime(c, Empty, {}).mail = {} /\ NewRuntime(c, Empty, {}).buf = {}
    BY DEF NewRuntime, Empty
  <2>3. \A s \in Runtimes : /\ rt'[s].buf \subseteq rt[s].buf
                            /\ rt'[s].mail \subseteq rt[s].mail
    BY <1>12, <2>1, <2>2
  <2>4. /\ consumed' = consumed /\ sent' = sent /\ parked' = parked /\ c \notin born
        /\ born' = born \cup {c} /\ watch' = [watch EXCEPT ![c] = "on"]
    BY <1>17 DEF SpawnManaged
  <2>5. Once'
    BY <2>3, <2>4, OnceForgets
  <2>6. \A s \in Runtimes : Held(s)' \subseteq Held(s)
    BY <2>3 DEF Held
  <2>7. \A d \in Spawnable : watch'[d] = "on" => d = c \/ watch[d] = "on"
    BY <2>4, ConstantsAssumption DEF TypeOK
  <2>8. Accounted'
    BY <2>4, <2>6, <2>7 DEF Accounted
  <2> QED BY <2>5, <2>8
<1>18. ASSUME NEW t \in Runtimes, NEW c \in Spawnable, SpawnEphemeral(t, c)
       PROVE  Once' /\ Accounted'
  <2>0. c \in Agents
    BY ConstantsAssumption
  <2> DEFINE x == [NewRuntime(c, Empty, {}) EXCEPT !.turn = TRUE, !.status = "running"]
  <2>1. PICK n \in Fresh : rt' = [rt EXCEPT ![n] = x]
    BY <1>18 DEF SpawnEphemeral
  <2>2. x.mail = {} /\ x.buf = {}
    BY DEF NewRuntime, Empty
  <2> HIDE DEF x
  <2>3. \A s \in Runtimes : /\ rt'[s].buf \subseteq rt[s].buf
                            /\ rt'[s].mail \subseteq rt[s].mail
    BY <1>12, <2>1, <2>2
  <2>4. /\ consumed' = consumed /\ sent' = sent /\ parked' = parked
        /\ born' = born \cup {c} /\ watch' = watch
    BY <1>18 DEF SpawnEphemeral
  <2>5. Once'
    BY <2>3, <2>4, OnceForgets
  <2>6. \A s \in Runtimes : Held(s)' \subseteq Held(s)
    BY <2>3 DEF Held
  <2>7. Accounted'
    BY <2>4, <2>6 DEF Accounted
  <2> QED BY <2>5, <2>7
<1>19. ASSUME NEW t \in Runtimes, ChildClose(t) PROVE Once' /\ Accounted'
  <2>1. \A s \in Runtimes : /\ rt'[s].buf \subseteq rt[s].buf
                            /\ rt'[s].mail \subseteq rt[s].mail
    BY <1>12, <1>13, <1>19 DEF ChildClose
  <2>2. \A b \in Agents : parked'[b] \subseteq parked[b]
    BY <1>19, QueueMail DEF ChildClose
  <2> QED BY <1>19, <2>1, <2>2, OnlyGoes DEF ChildClose
<1>20. ASSUME NEW a \in Agents, Interrupt(a) PROVE Once' /\ Accounted'
  <2> DEFINE r == runtimes[a]
             x == [rt[r] EXCEPT !.status = "interrupted"]
  <2>1. r \in Runtimes
    BY <1>20 DEF Interrupt, TypeOK
  <2>2. x.mail = rt[r].mail /\ x.buf = rt[r].buf
    BY <2>1 DEF TypeOK, RuntimeType
  <2>3. rt' = rt \/ rt' = [rt EXCEPT ![r] = x]
    BY <1>20 DEF Interrupt
  <2> HIDE DEF x
  <2>4. \A s \in Runtimes : /\ rt'[s].buf \subseteq rt[s].buf
                            /\ rt'[s].mail \subseteq rt[s].mail
    BY <2>2, <2>3 DEF TypeOK
  <2> QED BY <1>20, <2>4, OnlyGoes DEF Interrupt
<1>21. ASSUME NEW r \in Runtimes, InterruptDone(r) PROVE Once' /\ Accounted'
  BY <1>21, OnlyGoes DEF InterruptDone
<1>22. CASE UNCHANGED vars
  BY <1>22, OnlyGoes DEF vars
<1> QED BY <1>1, <1>2, <1>3, <1>5, <1>6, <1>7, <1>8, <1>9, <1>10, <1>11, <1>14, <1>15,
           <1>16, <1>17, <1>18, <1>19, <1>20, <1>21, <1>22
        DEF Next, FlushStep, EvictStep, TurnStep


-----------------------------------------------------------------------------
(* The theorems.                                                           *)

Inv == TypeOK /\ EvictedEmpty /\ NoLostWake /\ Once /\ Accounted

(* The invariant holds initially: no mail is anywhere.                     *)
LEMMA InitInv == Init => Inv
<1> SUFFICES ASSUME Init PROVE Inv
  OBVIOUS
<1> DEFINE L == Len(Resident0)
<1>1. L \in Nat /\ \A i \in 1..L : Resident0[i] \in Agents
  BY ConstantsAssumption
<1>2. PICK f \in [1..L -> Runtimes] :
        /\ runtimes = [a \in Agents |->
                         IF \E i \in 1..L : Resident0[i] = a
                         THEN f[CHOOSE i \in 1..L : Resident0[i] = a] ELSE None]
        /\ \E st \in [Agents -> {"idle", "completed"}] :
             rt = [r \in Runtimes |->
                     IF \E i \in 1..L : f[i] = r
                     THEN LET a == Resident0[CHOOSE i \in 1..L : f[i] = r]
                          IN  [NewRuntime(a, Empty, {}) EXCEPT !.status = st[a]]
                     ELSE DeadRuntime]
        /\ task = [t \in Tasks |-> IF t = Waker \/ \E i \in 1..L : f[i] = t
                                   THEN Driver ELSE NoTask]
  BY Zenon DEF Init
<1>a. PICK st \in [Agents -> {"idle", "completed"}] :
        rt = [r \in Runtimes |->
                IF \E i \in 1..L : f[i] = r
                THEN LET a == Resident0[CHOOSE i \in 1..L : f[i] = r]
                     IN  [NewRuntime(a, Empty, {}) EXCEPT !.status = st[a]]
                ELSE DeadRuntime]
  BY <1>2
<1>b. /\ disk = [a \in Agents |->
                   IF a \in Spawnable \/ \E i \in 1..L : Resident0[i] = a
                   THEN None ELSE Empty]
      /\ writes = <<>> /\ residents = Resident0 /\ keys = <<>>
      /\ pendingSlots = 0 /\ active = 0 /\ faults = 0 /\ interrupts = 0
      /\ parked = [a \in Agents |-> {}] /\ wakerSet = FALSE
      /\ cancel = [t \in Tasks |-> FALSE] /\ running = None /\ interrupting = {}
      /\ born = {} /\ watch = [a \in Agents |-> "off"] /\ sent = {} /\ consumed = {}
  BY Zenon DEF Init
<1> HIDE DEF L
<1>3. runtimes \in [Agents -> Runtimes \cup {None}]
  BY <1>2
<1>4. \A r \in Runtimes : /\ rt[r] \in RuntimeType
                          /\ rt[r].mail = {} /\ rt[r].buf = {}
  <2> TAKE r \in Runtimes
  <2>1. CASE \E i \in 1..L : f[i] = r
    <3> DEFINE a == Resident0[CHOOSE i \in 1..L : f[i] = r]
    <3>1. a \in Agents
      BY <1>1, <2>1
    <3>2. rt[r] = [NewRuntime(a, Empty, {}) EXCEPT !.status = st[a]]
      BY <1>a, <2>1
    <3>3. st[a] \in {"idle", "completed"}
      BY <3>1
    <3> HIDE DEF a
    <3> DEFINE new == NewRuntime(a, Empty, {})
    <3>4. new \in RuntimeType
      BY <3>1, ObjectTypes
    <3>5. new.mail = {} /\ new.buf = {}
      BY DEF NewRuntime, Empty
    <3> HIDE DEF new
    <3>6. rt[r] = [new EXCEPT !.status = st[a]]
      BY <3>2 DEF new
    <3> QED BY <3>3, <3>4, <3>5, <3>6 DEF RuntimeType, Status, Final
  <2>2. CASE ~ \E i \in 1..L : f[i] = r
    <3>1. rt[r] = DeadRuntime
      BY <1>a, <2>2
    <3>2. DeadRuntime \in RuntimeType
      BY ObjectTypes
    <3> QED BY <3>1, <3>2 DEF DeadRuntime
  <2> QED BY <2>1, <2>2
<1>5. rt \in [Runtimes -> RuntimeType]
  BY <1>a, <1>4
<1>6. task \in [Tasks -> TaskType]
  BY <1>2, ObjectTypes
<1>7. /\ disk \in [Agents -> Records \cup {None}]
      /\ \A a \in Agents : disk[a] \in {None, Empty}
  BY <1>b, ObjectTypes
<1>8. TypeOK
  <2>1. residents \in Seq(Agents) /\ keys \in Seq(Agents) /\ writes \in Seq(JobType)
    BY <1>b, EmptySeq, ConstantsAssumption
  <2>2. /\ parked \in [Agents -> SUBSET Msgs] /\ wakerSet \in BOOLEAN
        /\ cancel \in [Tasks -> BOOLEAN]
        /\ watch \in [Agents -> {"off", "on", "told", "gone"}]
    BY <1>b
  <2>3. /\ pendingSlots \in Nat /\ active \in Nat /\ faults \in Nat /\ interrupts \in Nat
        /\ running \in Tasks \cup {None} /\ interrupting \subseteq Runtimes
        /\ born \subseteq Spawnable /\ sent \subseteq Msgs /\ consumed \subseteq Msgs
    BY <1>b
  <2> QED BY <1>3, <1>5, <1>6, <1>7, <2>1, <2>2, <2>3 DEF TypeOK
<1>9. EvictedEmpty
  <2>1. 1..Len(writes) = {}
    BY <1>b
  <2> QED BY <1>7, <2>1 DEF EvictedEmpty
<1>10. NoLostWake
  BY <1>4 DEF NoLostWake
<1>11. /\ consumed = {} /\ sent = {} /\ \A a \in Agents : parked[a] = {}
       /\ \A c \in Spawnable : watch[c] # "on"
  BY <1>b, ConstantsAssumption
<1>12. \A r \in Runtimes : Held(r) = {}
  BY <1>4 DEF Held
<1>13. Once
  BY <1>4, <1>11, <1>12 DEF Once
<1>14. Accounted
  BY <1>11, <1>12 DEF Accounted
<1> QED BY <1>8, <1>9, <1>10, <1>13, <1>14 DEF Inv

(* The inductive invariant holds in every reachable state.                 *)
THEOREM Invariance == Spec => []Inv
<1>1. Inv /\ [Next]_vars => Inv'
  BY TypeStep, EvictedStep, WakeStep, OnceStep DEF Inv
<1> QED BY <1>1, InitInv, PTL DEF Spec

(* Type correctness, for any number of agents, runtimes and messages.      *)
THEOREM TypeCorrect == Spec => []TypeOK
<1>1. Inv => TypeOK
  BY DEF Inv
<1> QED BY <1>1, Invariance, PTL

(* Evicting an agent never takes mail to disk: is_unloadable is evaluated  *)
(* and the mailboxes are dumped with no await in between, whatever runs    *)
(* before the record is written.                                           *)
THEOREM EvictionTakesNoMail == Spec => []EvictedEmpty
<1>1. Inv => EvictedEmpty
  BY DEF Inv
<1> QED BY <1>1, Invariance, PTL

(* No lost wake: whatever the interleaving of senders, flushes, evictions, *)
(* rehydrations and interrupts, a runtime whose mailbox holds a            *)
(* trigger-turn message has its wake_event set.                            *)
THEOREM WakesKept == Spec => []NoLostWake
<1>1. Inv => NoLostWake
  BY DEF Inv
<1> QED BY <1>1, Invariance, PTL

(* At-most-once delivery: a message is never in two places and never both  *)
(* read and still deliverable.                                             *)
THEOREM DeliveredAtMostOnce == Spec => []AtMostOnce
<1>1. Inv => AtMostOnce
  BY OnceSuffices DEF Inv
<1> QED BY <1>1, Invariance, PTL
=============================================================================
