------------------------------ MODULE FileLocks ------------------------------
(***************************************************************************)
(* The locks of the file operations (src/runtime/fileops/locking.py): a    *)
(* HierarchicalLockManager that hands out sets of shared and exclusive     *)
(* locks.  Each lock is two locks, one inside the other: a reentrant       *)
(* reader-writer lock between the threads of a process, _LocalRWLock, and  *)
(* an advisory lock of the operating system between processes, taken by    *)
(* the outermost acquisition of a thread only.                             *)
(*                                                                         *)
(* A lock is a number, its place in the order (level, key) that            *)
(* _normalize sorts by.  A thread nests with-blocks: the locks of the      *)
(* outer ones are below those it asks for next, or it has them already.    *)
(***************************************************************************)
EXTENDS Naturals, Sequences, SequencesExt, FiniteSets, FiniteSetsExt

CONSTANTS
    Procs,          \* processes
    Threads,        \* threads of all processes
    ProcOf,         \* thread -> its process
    NLocks,         \* number of locks
    Inputs,         \* sets of specs that callers pass to acquire_many
    MaxNest,        \* bound: with-blocks a thread nests
    MaxRequests,    \* bound: thread -> its calls of acquire_many
    MaxCrash,       \* bound: processes that die
    None

Locks == 1..NLocks
Modes == {"S", "X"}

ASSUME LocksAssumption ==
    /\ ProcOf \in [Threads -> Procs]
    /\ NLocks \in Nat
    /\ Inputs \subseteq SUBSET [lock : 1..NLocks, mode : {"S", "X"}] \ {{}}
    /\ None \notin Threads

VARIABLES
    readers,    \* thread -> lock -> depth in the _readers of its process
    writer,     \* process -> lock -> _writer
    depth,      \* process -> lock -> _writer_depth
    waiting,    \* process -> lock -> _waiting_writers
    fd,         \* thread -> lock -> mode of its OS lock, or None
    leases,     \* thread -> its with-blocks, the innermost last: held tokens
    todo,       \* thread -> specs the innermost block has still to acquire
    pc,         \* thread -> where it is
    token,      \* thread -> token being granted or released, or None
    requests,   \* thread -> calls of acquire_many so far
    crashes     \* processes that have died so far

vars == <<readers, writer, depth, waiting, fd, leases, todo, pc, token, requests, crashes>>
local == <<readers, writer, depth, waiting>>

Tokens == [lock : Locks, mode : Modes, first : BOOLEAN]
PCs == {"run", "acquire", "wait", "os", "unlock", "release", "dead"}

TypeOK ==
    /\ readers \in [Threads -> [Locks -> Nat]]
    /\ writer \in [Procs -> [Locks -> Threads \cup {None}]]
    /\ depth \in [Procs -> [Locks -> Nat]]
    /\ waiting \in [Procs -> [Locks -> Nat]]
    /\ fd \in [Threads -> [Locks -> Modes \cup {None}]]
    /\ leases \in [Threads -> Seq(Seq(Tokens))]
    /\ todo \in [Threads -> Seq([lock : Locks, mode : Modes])]
    /\ pc \in [Threads -> PCs]
    /\ token \in [Threads -> Tokens \cup {None}]
    /\ requests \in [Threads -> Nat]
    /\ crashes \in Nat

Init ==
    /\ readers = [t \in Threads |-> [l \in Locks |-> 0]]
    /\ writer = [p \in Procs |-> [l \in Locks |-> None]]
    /\ depth = [p \in Procs |-> [l \in Locks |-> 0]]
    /\ waiting = [p \in Procs |-> [l \in Locks |-> 0]]
    /\ fd = [t \in Threads |-> [l \in Locks |-> None]]
    /\ leases = [t \in Threads |-> <<>>]
    /\ todo = [t \in Threads |-> <<>>]
    /\ pc = [t \in Threads |-> "run"]
    /\ token = [t \in Threads |-> None]
    /\ requests = [t \in Threads |-> 0]
    /\ crashes = 0

-----------------------------------------------------------------------------
(* The tokens thread t holds, over all its with-blocks.                    *)
Held(t) == UNION {Range(leases[t][i]) : i \in DOMAIN leases[t]}
HeldLocks(t) == {k.lock : k \in Held(t)}

(* _normalize: one spec per lock, exclusive if any asks for it, in order.  *)
Normalize(specs) ==
    LET locks == {s.lock : s \in specs}
        strongest(l) == IF [lock |-> l, mode |-> "X"] \in specs THEN "X" ELSE "S"
    IN  [i \in 1..Cardinality(locks) |->
            LET l == SetToSortSeq(locks, <)[i] IN [lock |-> l, mode |-> strongest(l)]]

(* What callers nest: new locks lie above every lock already held.         *)
Nestable(t, specs) ==
    \A s \in specs : s.lock \in HeldLocks(t) \/ \A l \in HeldLocks(t) : l < s.lock

(* with acquire_many(specs): a block with nothing held yet is entered.     *)
Enter(t, specs) ==
    /\ pc[t] = "run"
    /\ Len(leases[t]) < MaxNest /\ requests[t] < MaxRequests[t]
    /\ Nestable(t, specs)
    /\ requests' = [requests EXCEPT ![t] = @ + 1]
    /\ leases' = [leases EXCEPT ![t] = Append(@, <<>>)]
    /\ todo' = [todo EXCEPT ![t] = Normalize(specs)]
    /\ pc' = [pc EXCEPT ![t] = "acquire"]
    /\ UNCHANGED <<local, fd, token, crashes>>

(* The block has the lock of a token: on to the next spec, or to its body. *)
Grant(t, k) ==
    /\ leases' = [leases EXCEPT ![t] = Append(Front(@), Append(Last(@), k))]
    /\ todo' = [todo EXCEPT ![t] = Tail(@)]
    /\ pc' = [pc EXCEPT ![t] = IF Len(todo[t]) = 1 THEN "run" ELSE "acquire"]
    /\ token' = [token EXCEPT ![t] = None]

(* The local lock is acquired: only the outermost token of the thread goes *)
(* on to the OS lock.                                                      *)
LocalGrant(t, k) ==
    \/ /\ k.first
       /\ pc' = [pc EXCEPT ![t] = "os"]
       /\ token' = [token EXCEPT ![t] = k]
       /\ UNCHANGED <<leases, todo>>
    \/ /\ ~k.first
       /\ Grant(t, k)

Others(t) == {u \in Threads : u # t /\ ProcOf[u] = ProcOf[t]}

(* Mutant: a reader that nests waits for the waiting writers too.          *)
ReadBlocked_Nested(t, l) ==
    writer[ProcOf[t]][l] # None \/ waiting[ProcOf[t]][l] > 0

(* _LocalRWLock.acquire, shared: the condition its loop waits for.         *)
ReadBlocked(t, l) ==
    \/ writer[ProcOf[t]][l] # None
    \/ waiting[ProcOf[t]][l] > 0 /\ readers[t][l] = 0

WriteBlocked(t, l) ==
    \/ writer[ProcOf[t]][l] # None
    \/ \E u \in Others(t) \cup {t} : readers[u][l] > 0

AcquireShared(t, l) ==
    \/ /\ writer[ProcOf[t]][l] = t
       /\ LocalGrant(t, [lock |-> l, mode |-> "S", first |-> FALSE])
       /\ UNCHANGED local
    \/ /\ ~ReadBlocked(t, l)
       /\ readers' = [readers EXCEPT ![t][l] = @ + 1]
       /\ LocalGrant(t, [lock |-> l, mode |-> "S", first |-> readers[t][l] = 0])
       /\ UNCHANGED <<writer, depth, waiting>>
    \/ /\ writer[ProcOf[t]][l] # t /\ ReadBlocked(t, l)
       /\ pc' = [pc EXCEPT ![t] = "wait"]
       /\ UNCHANGED <<local, leases, todo, token>>

(* Exclusive: reentrant for the writer, refused to a reader ("lock upgrade *)
(* from shared to exclusive is forbidden"), and counted while it waits.    *)
AcquireExclusive(t, l) ==
    LET p == ProcOf[t]
    IN  \/ /\ writer[p][l] = t
           /\ depth' = [depth EXCEPT ![p][l] = @ + 1]
           /\ LocalGrant(t, [lock |-> l, mode |-> "X", first |-> FALSE])
           /\ UNCHANGED <<readers, writer, waiting>>
        \/ /\ writer[p][l] # t /\ readers[t][l] > 0
           /\ pc' = [pc EXCEPT ![t] = "unlock"]
           /\ UNCHANGED <<local, leases, todo, token>>
        \/ /\ ~WriteBlocked(t, l)
           /\ writer' = [writer EXCEPT ![p][l] = t]
           /\ depth' = [depth EXCEPT ![p][l] = 1]
           /\ LocalGrant(t, [lock |-> l, mode |-> "X", first |-> TRUE])
           /\ UNCHANGED <<readers, waiting>>
        \/ /\ writer[p][l] # t /\ readers[t][l] = 0 /\ WriteBlocked(t, l)
           /\ waiting' = [waiting EXCEPT ![p][l] = @ + 1]
           /\ pc' = [pc EXCEPT ![t] = "wait"]
           /\ UNCHANGED <<readers, writer, depth, leases, todo, token>>

(* _acquire_one, first half: the local lock of the next spec.              *)
Acquire(t) ==
    /\ pc[t] = "acquire"
    /\ LET s == Head(todo[t])
       IN  IF s.mode = "S" THEN AcquireShared(t, s.lock) ELSE AcquireExclusive(t, s.lock)
    /\ UNCHANGED <<fd, requests, crashes>>

(* _wait returns and the loop's condition is over: the lock is taken.      *)
Wake(t) ==
    /\ pc[t] = "wait"
    /\ LET s == Head(todo[t])
           p == ProcOf[t]
       IN  \/ /\ s.mode = "S" /\ ~ReadBlocked(t, s.lock)
              /\ readers' = [readers EXCEPT ![t][s.lock] = @ + 1]
              /\ LocalGrant(t, [lock |-> s.lock, mode |-> "S", first |-> readers[t][s.lock] = 0])
              /\ UNCHANGED <<writer, depth, waiting>>
           \/ /\ s.mode = "X" /\ ~WriteBlocked(t, s.lock)
              /\ waiting' = [waiting EXCEPT ![p][s.lock] = @ - 1]
              /\ writer' = [writer EXCEPT ![p][s.lock] = t]
              /\ depth' = [depth EXCEPT ![p][s.lock] = 1]
              /\ LocalGrant(t, [lock |-> s.lock, mode |-> "X", first |-> TRUE])
              /\ UNCHANGED readers
    /\ UNCHANGED <<fd, requests, crashes>>

(* Mutant: a writer that gives up stays counted.                           *)
WaitRaises_Counted(t) ==
    /\ pc[t] = "wait"
    /\ pc' = [pc EXCEPT ![t] = "unlock"]
    /\ UNCHANGED <<local, fd, leases, todo, token, requests, crashes>>

(* _wait raises: the deadline has passed or the caller cancelled.          *)
WaitRaises(t) ==
    /\ pc[t] = "wait"
    /\ LET s == Head(todo[t])
           p == ProcOf[t]
       IN  waiting' = [waiting EXCEPT ![p][s.lock] = IF s.mode = "X" THEN @ - 1 ELSE @]
    /\ pc' = [pc EXCEPT ![t] = "unlock"]
    /\ UNCHANGED <<readers, writer, depth, fd, leases, todo, token, requests, crashes>>

(* flock: a shared lock excludes exclusive ones, an exclusive one all.     *)
OsFree(t, k) ==
    \A u \in Threads \ {t} :
        fd[u][k.lock] = None \/ (fd[u][k.lock] = "S" /\ k.mode = "S")

(* _acquire_one, second half: the poll of the OS lock succeeds...          *)
TryOsLock(t) ==
    /\ pc[t] = "os"
    /\ OsFree(t, token[t])
    /\ fd' = [fd EXCEPT ![t][token[t].lock] = token[t].mode]
    /\ Grant(t, token[t])
    /\ UNCHANGED <<local, requests, crashes>>

(* ... or it raises (open fails, deadline, cancel): the local lock is      *)
(* released, and then the locks of the block.                              *)
OsRaises(t) ==
    /\ pc[t] = "os"
    /\ pc' = [pc EXCEPT ![t] = "release"]
    /\ UNCHANGED <<local, fd, leases, todo, token, requests, crashes>>

(* __exit__: the body of the innermost block is over.                      *)
Exit(t) ==
    /\ pc[t] = "run" /\ leases[t] # <<>>
    /\ pc' = [pc EXCEPT ![t] = "unlock"]
    /\ UNCHANGED <<local, fd, leases, todo, token, requests, crashes>>

(* Mutant: the OS lock is given up with any token of the thread.           *)
OsHeld_Any(k) == TRUE

(* _HeldLock.fd: the outermost token has the OS lock.                      *)
OsHeld(k) == k.first

(* _release_all: the OS lock of the last token is given up, if it has one; *)
(* with no token left the block is over.                                   *)
Unlock(t) ==
    /\ pc[t] = "unlock"
    /\ \/ /\ Last(leases[t]) # <<>>
          /\ LET k == Last(Last(leases[t]))
             IN  /\ token' = [token EXCEPT ![t] = k]
                 /\ fd' = [fd EXCEPT ![t][k.lock] = IF OsHeld(k) THEN None ELSE @]
          /\ leases' = [leases EXCEPT ![t] = Append(Front(@), Front(Last(@)))]
          /\ pc' = [pc EXCEPT ![t] = "release"]
          /\ UNCHANGED todo
       \/ /\ Last(leases[t]) = <<>>
          /\ leases' = [leases EXCEPT ![t] = Front(@)]
          /\ todo' = [todo EXCEPT ![t] = <<>>]
          /\ pc' = [pc EXCEPT ![t] = "run"]
          /\ UNCHANGED <<token, fd>>
    /\ UNCHANGED <<local, requests, crashes>>

(* A shared token taken under the thread's own exclusive lock.             *)
Uncounted(t, k) == k.mode = "S" /\ writer[ProcOf[t]][k.lock] = t /\ ~k.first

(* _LocalRWLock.release: a shared token taken under the thread's own       *)
(* exclusive lock was not counted.                                         *)
Release(t) ==
    LET k == token[t]
        p == ProcOf[t]
    IN  /\ pc[t] = "release"
        /\ \/ /\ Uncounted(t, k)
              /\ UNCHANGED local
           \/ /\ k.mode = "S" /\ ~Uncounted(t, k)
              /\ readers' = [readers EXCEPT ![t][k.lock] = @ - 1]
              /\ UNCHANGED <<writer, depth, waiting>>
           \/ /\ k.mode = "X"
              /\ depth' = [depth EXCEPT ![p][k.lock] = @ - 1]
              /\ writer' = [writer EXCEPT ![p][k.lock] = IF depth[p][k.lock] = 1 THEN None ELSE @]
              /\ UNCHANGED <<readers, waiting>>
        /\ token' = [token EXCEPT ![t] = None]
        /\ pc' = [pc EXCEPT ![t] = "unlock"]
        /\ UNCHANGED <<fd, leases, todo, requests, crashes>>

(* A process dies: the kernel drops its OS locks, its memory is gone.      *)
Crash(p) ==
    LET mine == {t \in Threads : ProcOf[t] = p}
        over(f, v) == [t \in Threads |-> IF t \in mine THEN v ELSE f[t]]
    IN  /\ crashes < MaxCrash
        /\ \E t \in mine : pc[t] # "dead"
        /\ readers' = over(readers, [l \in Locks |-> 0])
        /\ writer' = [writer EXCEPT ![p] = [l \in Locks |-> None]]
        /\ depth' = [depth EXCEPT ![p] = [l \in Locks |-> 0]]
        /\ waiting' = [waiting EXCEPT ![p] = [l \in Locks |-> 0]]
        /\ fd' = over(fd, [l \in Locks |-> None])
        /\ leases' = over(leases, <<>>)
        /\ todo' = over(todo, <<>>)
        /\ pc' = over(pc, "dead")
        /\ token' = over(token, None)
        /\ crashes' = crashes + 1
        /\ UNCHANGED requests

Step(t) ==
    Acquire(t) \/ Wake(t) \/ TryOsLock(t) \/ Exit(t) \/ Unlock(t) \/ Release(t)

Next ==
    \/ \E t \in Threads :
         \/ \E specs \in Inputs : Enter(t, specs)
         \/ Step(t)
         \/ WaitRaises(t)
         \/ OsRaises(t)
    \/ \E p \in Procs : Crash(p)

Spec == Init /\ [][Next]_vars

(* Threads run, and bodies of with-blocks end; nobody has to give up.      *)
FairSpec == Spec /\ \A t \in Threads : WF_vars(Step(t))

-----------------------------------------------------------------------------
(* A thread whose block has an exclusive lock has it alone, against        *)
(* threads of its own process and of others: two layers of locks, taken    *)
(* and given up in steps, and reentrant tokens without an OS lock of their *)
(* own, make one lock (_acquire_one and _HeldLock.release).                *)
Exclusion ==
    \A t, u \in Threads : t # u =>
        \A k \in Held(t), j \in Held(u) :
            k.lock = j.lock => k.mode = "S" /\ j.mode = "S"

Count(t, l, S) ==
    LET all == FlattenSeq(leases[t]) \o (IF token[t] = None THEN <<>> ELSE <<token[t]>>)
    IN  Len(SelectSeq(all, LAMBDA k : k.lock = l /\ k \in S))

(* The counters of the local locks are the tokens given out, whatever      *)
(* timeouts, refused upgrades and failing opens did in between; a release  *)
(* never meets "released by non-owner", and a lock nobody holds is free.   *)
Accounted ==
    TypeOK /\ \A p \in Procs, l \in Locks :
        LET mine == {t \in Threads : ProcOf[t] = p}
            exclusive(t) == Count(t, l, [lock : {l}, mode : {"X"}, first : BOOLEAN])
            outer(t) == Count(t, l, [lock : {l}, mode : Modes, first : {TRUE}])
        IN  /\ \A t \in mine :
                 /\ outer(t) <= 1
                 /\ writer[p][l] = t <=> exclusive(t) > 0
                 /\ writer[p][l] = t => depth[p][l] = exclusive(t) /\ readers[t][l] = 0
                 /\ writer[p][l] # t =>
                      readers[t][l] = Count(t, l, [lock : {l}, mode : {"S"}, first : BOOLEAN])
                 /\ fd[t][l] # None => outer(t) = 1
            /\ writer[p][l] = None => depth[p][l] = 0
            /\ waiting[p][l] = Cardinality({t \in mine :
                 pc[t] = "wait" /\ Head(todo[t]) = [lock |-> l, mode |-> "X"]})

(* If every body ends and no process keeps asking for ever, every thread   *)
(* gets its locks and is done with them: nested blocks, waiting writers    *)
(* that hold readers back, and readers that nest never wait for each other *)
(* in a circle.  acquire_many has no timeout in src/runtime/fileops.       *)
Drains == <>[](\A t \in Threads : pc[t] = "dead" \/ (pc[t] = "run" /\ leases[t] = <<>>))
=============================================================================
