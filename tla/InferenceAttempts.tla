-------------------------- MODULE InferenceAttempts --------------------------
(***************************************************************************)
(* One attempt at a provider: the executions of the embedded inference     *)
(* runtime (src/runtime/inference/runtime.py and, for service commands,    *)
(* command_runtime.py), the durable receipts and the usage ledger they     *)
(* write (src/product/inference/backends/sqlite.py,                        *)
(* src/contracts/inference/receipt.py), and the recovery that closes open  *)
(* receipts when a runtime starts.                                         *)
(*                                                                         *)
(* A database operation is one step, run by a disk thread.  A dispatch     *)
(* task that is cancelled while it awaits one leaves it running: the       *)
(* operation still happens, and nobody reads its result.                   *)
(***************************************************************************)
EXTENDS Naturals, FiniteSets, FiniteSetsExt

CONSTANTS
    Attempts,       \* attempt ids
    Commands,       \* those of the command runtime
    Units,          \* units an attempt reserves
    Limit,          \* limit_units of the project they are charged to
    Usage,          \* units a provider may report for an answer
    MaxStarts,      \* bound: attempt -> calls of start_attempt
    MaxCrash,       \* bound: crashes of the runtime
    MaxForeign,     \* bound: recoveries run by another runtime on the database
    MaxCancel,      \* bound: dispatch tasks that are cancelled
    MaxFaults,      \* bound: crashes, recoveries and cancellations together
    None

ASSUME AttemptsAssumption ==
    /\ Commands \subseteq Attempts
    /\ Units \in Nat /\ Limit \in Nat /\ Usage \subseteq Nat
    /\ MaxStarts \in [Attempts -> Nat]

VARIABLES
    receipt,    \* attempt -> its durable receipt, or None
    ledger,     \* attempt -> its durable reservation, or None
    run,        \* attempt -> its execution in memory, or None
    orphan,     \* attempt -> operation a cancelled task left behind, or None
    sent,       \* attempt -> requests put on the wire
    told,       \* attempt -> terminal events its executions emitted
    up,         \* the runtime is running
    starts, crashes, foreign, cancels   \* counters behind the bounds

vars == <<receipt, ledger, run, orphan, sent, told, up, starts, crashes, foreign, cancels>>
counters == <<starts, crashes, foreign, cancels>>

Uncommitted == {"accepted", "intent"}
Outcomes == {"succeeded", "failed", "cancelled", "in_doubt"}
States == Uncommitted \cup {"committed", "wire_started", "ack"} \cup Outcomes
Receipts == [rev : Nat \ {0}, state : States, permit : BOOLEAN]

Reservations == [state : {"reserved", "pending", "settled", "released"}, units : Nat]

PCs == {"accept", "enqueue", "queued", "reserve", "auth", "release", "withdraw", "intent", "commit",
        "send", "wired", "answer", "ack", "settle", "succeed", "budget", "close", "doubt",
        "done", "gone", "lost"}
Executions ==
    [pc : PCs, receipt : Receipts \cup {None}, permit : BOOLEAN, cancel : BOOLEAN,
     res : BOOLEAN, final : BOOLEAN, usage : Usage \cup {None},
     exc : Outcomes \cup {None}]

TypeOK ==
    /\ receipt \in [Attempts -> Receipts \cup {None}]
    /\ ledger \in [Attempts -> Reservations \cup {None}]
    /\ run \in [Attempts -> Executions \cup {None}]
    /\ orphan \in [Attempts -> Executions \cup {None}]
    /\ sent \in [Attempts -> Nat]
    /\ told \in [Attempts -> SUBSET Outcomes]
    /\ up \in BOOLEAN
    /\ starts \in [Attempts -> Nat]
    /\ {crashes, foreign, cancels} \subseteq Nat

Init ==
    /\ receipt = [a \in Attempts |-> None]
    /\ ledger = [a \in Attempts |-> None]
    /\ run = [a \in Attempts |-> None]
    /\ orphan = [a \in Attempts |-> None]
    /\ sent = [a \in Attempts |-> 0]
    /\ told = [a \in Attempts |-> {}]
    /\ up = TRUE
    /\ starts = [a \in Attempts |-> 0]
    /\ crashes = 0 /\ foreign = 0 /\ cancels = 0

-----------------------------------------------------------------------------
(* Receipts.                                                               *)

(* RECEIPT_TRANSITIONS: the states a receipt may go to.                    *)
Transitions ==
    [s \in States |->
        CASE s = "accepted"     -> {"intent", "failed", "cancelled"}
          [] s = "intent"       -> {"committed", "failed", "cancelled"}
          [] s = "committed"    -> {"wire_started", "failed", "cancelled", "in_doubt"}
          [] s = "wire_started" -> {"ack"} \cup Outcomes
          [] s = "ack"          -> Outcomes
          [] OTHER              -> {}]

(* The validator a stored receipt passes through when it is read back.     *)
Readable(r) == r.state \in Uncommitted \/ r.permit

(* Mutant: the table of transitions is not consulted. *)
CasAnswer_AnyState(a, mine, state) ==
    IF ~Readable(receipt[a]) THEN "illegal"
    ELSE IF receipt[a].rev # mine.rev THEN "conflict" ELSE "ok"

(* _compare_and_swap, up to the write: the stored row is read first.       *)
CasAnswer(a, mine, state) ==
    IF ~Readable(receipt[a]) THEN "illegal"
    ELSE IF receipt[a].rev # mine.rev THEN "conflict"
    ELSE IF state \notin Transitions[receipt[a].state] THEN "illegal"
    ELSE "ok"

(* _transition: model_copy of the execution's own receipt, unvalidated.    *)
Advanced(mine, state, permit) == [rev |-> mine.rev + 1, state |-> state, permit |-> permit]

(* _reconcile_incomplete: every receipt past the send and not closed goes  *)
(* in doubt; it reads them all, and one it cannot read makes it raise.     *)
AllReadable == \A a \in {b \in Attempts : receipt[b] # None} : Readable(receipt[a])

Reconciled(r) ==
    IF r # None /\ r.state \notin Outcomes \cup Uncommitted
    THEN [r EXCEPT !.rev = @ + 1, !.state = "in_doubt"] ELSE r

-----------------------------------------------------------------------------
(* The usage ledger.                                                       *)

(* What a reservation takes from the budget: the units it holds, or those  *)
(* it was settled for.                                                     *)
Charge(l) == IF l = None \/ l.state = "released" THEN 0 ELSE l.units

Charged == MapThenSumSet(LAMBDA a : Charge(ledger[a]), Attempts)

(* _settle: the same settlement again is answered from the record; any     *)
(* other needs the reservation still open and no more units than it holds. *)
SettleAnswer(a, state, units) ==
    IF /\ units <= Units
       /\ ledger[a] = [state |-> state, units |-> units] \/ ledger[a].state = "reserved"
    THEN "ok" ELSE "raise"

-----------------------------------------------------------------------------
(* What an execution is about to ask of the database at its pc.            *)

Committed(x) == x.receipt.state \notin Uncommitted

Target(x) ==
    CASE x.pc = "intent"   -> "intent"
      [] x.pc = "commit"   -> "committed"
      [] x.pc = "wired"    -> "wire_started"
      [] x.pc = "ack"      -> "ack"
      [] x.pc = "succeed"  -> "succeeded"
      [] x.pc = "withdraw" -> "cancelled"
      [] x.pc = "close"    -> x.exc
      [] x.pc = "doubt"    -> "in_doubt"
Swaps == {"intent", "commit", "wired", "ack", "succeed", "withdraw", "close", "doubt"}
Written(x) == Advanced(x.receipt, Target(x), x.receipt.permit \/ x.pc = "commit")


(* release on the way out before the wire; settle, or pending when the     *)
(* provider reported no usage; pending when a failure follows the commit.  *)
Settlement(x) ==
    IF x.pc = "settle" /\ x.usage # None THEN [state |-> "settled", units |-> x.usage]
    ELSE [state |-> IF x.pc = "release" \/ ~Committed(x) THEN "released" ELSE "pending", units |-> Units]
Settles == {"release", "settle", "budget"}

(* compare_and_swap, by a task that goes on with the answer or by none.    *)
Swap(a, x) ==
    receipt' = IF CasAnswer(a, x.receipt, Target(x)) = "ok"
               THEN [receipt EXCEPT ![a] = Written(x)] ELSE receipt
Settling(a, x) ==
    ledger' = IF SettleAnswer(a, Settlement(x).state, Settlement(x).units) = "ok"
              THEN [ledger EXCEPT ![a] = Settlement(x)] ELSE ledger
Reserving(a) ==
    ledger' = IF ledger[a] = None /\ Charged + Units <= Limit
              THEN [ledger EXCEPT ![a] = [state |-> "reserved", units |-> Units]] ELSE ledger


(* The except clauses of dispatch.                                         *)
Raise(x) == [x EXCEPT !.pc = "budget", !.exc = IF Committed(x) THEN "in_doubt" ELSE "failed"]

Becomes(a, x) == run' = [run EXCEPT ![a] = x]

(* The terminal event: a command's execution is forgotten with it, an      *)
(* attempt's stays.                                                        *)
Tell(a, x, outcome) ==
    /\ told' = [told EXCEPT ![a] = @ \cup {outcome}]
    /\ Becomes(a, IF a \in Commands THEN None ELSE [x EXCEPT !.pc = "done"])

At(a, pcs) == run[a] # None /\ run[a].pc \in pcs

-----------------------------------------------------------------------------
(* start_attempt, start_command: register, accept, enqueue.                *)

Start(a) ==
    /\ up /\ run[a] = None /\ starts[a] < MaxStarts[a]
    /\ starts' = [starts EXCEPT ![a] = @ + 1]
    /\ Becomes(a, [pc |-> "accept", receipt |-> None, permit |-> FALSE, cancel |-> FALSE,
                   res |-> FALSE, final |-> FALSE, usage |-> None, exc |-> None])
    /\ UNCHANGED <<receipt, ledger, orphan, sent, told, up, crashes, foreign, cancels>>

(* The receipt accept writes. *)
First == [rev |-> 1, state |-> "accepted", permit |-> FALSE]

(* Mutant: accept writes a new receipt over the old one. *)
Accept_Overwrites(a) ==
    /\ At(a, {"accept"})
    /\ receipt' = [receipt EXCEPT ![a] = First]
    /\ Becomes(a, [run[a] EXCEPT !.receipt = First, !.pc = "enqueue"])
    /\ UNCHANGED <<ledger, orphan, sent, told, up, counters>>

(* The receipt of an earlier start is taken over as it is.                 *)
Accept(a) ==
    /\ At(a, {"accept"})
    /\ LET r == IF receipt[a] = None THEN First ELSE receipt[a] IN
        IF Readable(r)
        THEN /\ receipt' = [receipt EXCEPT ![a] = r]
             /\ Becomes(a, [run[a] EXCEPT !.receipt = r, !.pc = "enqueue"])
        ELSE receipt' = receipt /\ Becomes(a, None)
    /\ UNCHANGED <<ledger, orphan, sent, told, up, counters>>

(* The queue takes it, or refuses it: closed, full, or past the deadline.  *)
Enqueue(a) ==
    /\ At(a, {"enqueue"})
    /\ Becomes(a, [run[a] EXCEPT !.pc = "queued"]) \/ Becomes(a, None)
    /\ UNCHANGED <<receipt, ledger, orphan, sent, told, up, counters>>

(* The deadline passes in the queue: the entry is dropped without a word   *)
(* (_discard_invalid_heads).                                               *)
Discard(a) ==
    /\ At(a, {"queued"})
    /\ Becomes(a, [run[a] EXCEPT !.pc = "lost"])
    /\ UNCHANGED <<receipt, ledger, orphan, sent, told, up, counters>>

(* The deadline passes while a worker waits for the bulkhead.              *)
DispatchTimeout(a) ==
    /\ At(a, {"queued"})
    /\ Becomes(a, [run[a] EXCEPT !.pc = "budget", !.exc = "failed"])
    /\ UNCHANGED <<receipt, ledger, orphan, sent, told, up, counters>>

-----------------------------------------------------------------------------
(* dispatch.                                                               *)

(* Deadline, credential health and provider quota let it in, or not.       *)
Dispatch(a) ==
    /\ At(a, {"queued"})
    /\ Becomes(a, [run[a] EXCEPT !.pc = "reserve"]) \/ Becomes(a, Raise(run[a]))
    /\ UNCHANGED <<receipt, ledger, orphan, sent, told, up, counters>>

(* A reservation of the same attempt is returned whatever its state.       *)
Reserve(a) ==
    /\ At(a, {"reserve"})
    /\ Reserving(a)
    /\ Becomes(a, IF ledger'[a] # None THEN [run[a] EXCEPT !.res = TRUE, !.pc = "auth"]
                  ELSE Raise(run[a]))
    /\ UNCHANGED <<receipt, orphan, sent, told, up, counters>>

(* The owner answers the authorization event with a permit.                *)
AuthorizeWire(a) ==
    /\ At(a, {"auth"}) /\ ~run[a].permit
    /\ Becomes(a, [run[a] EXCEPT !.permit = TRUE])
    /\ UNCHANGED <<receipt, ledger, orphan, sent, told, up, counters>>

(* cancel: read once, after the wait for the authorization; a call that    *)
(* comes later changes nothing and is left out.                            *)
CancelRequest(a) ==
    /\ At(a, {"queued", "reserve", "auth"}) /\ ~run[a].cancel
    /\ Becomes(a, [run[a] EXCEPT !.cancel = TRUE])
    /\ UNCHANGED <<receipt, ledger, orphan, sent, told, up, counters>>

Authorized(a) ==
    /\ At(a, {"auth"}) /\ (run[a].cancel \/ run[a].permit)
    /\ Becomes(a, [run[a] EXCEPT !.pc = IF run[a].cancel THEN "release" ELSE "intent"])
    /\ UNCHANGED <<receipt, ledger, orphan, sent, told, up, counters>>


(* The deadline passes before the owner answers.                           *)
AuthorizationTimeout(a) ==
    /\ At(a, {"auth"})
    /\ Becomes(a, Raise(run[a]))
    /\ UNCHANGED <<receipt, ledger, orphan, sent, told, up, counters>>

(* The receipt moves on: intent and commit before the send, the wire and   *)
(* the acknowledgement as the transport reports them.                      *)
Transition(a) ==
    /\ At(a, {"intent", "commit", "wired", "ack"})
    /\ LET x == run[a]
           next == CASE x.pc = "intent" -> "commit" [] x.pc = "commit" -> "send"
                     [] x.pc = "wired" -> "answer" [] x.pc = "ack" -> "settle"
       IN  /\ Swap(a, x)
           /\ Becomes(a, IF CasAnswer(a, x.receipt, Target(x)) = "ok"
                         THEN [x EXCEPT !.receipt = Written(x), !.pc = next] ELSE Raise(x))
    /\ UNCHANGED <<ledger, orphan, sent, told, up, counters>>

(* generate_once, execute_once: the request goes out and its headers are   *)
(* reported sent; or it fails, with or without having gone out.            *)
Send(a) ==
    /\ At(a, {"send"})
    /\ \/ /\ sent' = [sent EXCEPT ![a] = @ + 1]
          /\ Becomes(a, [run[a] EXCEPT !.pc = "wired"])
       \/ /\ \E n \in {0, 1} : sent' = [sent EXCEPT ![a] = @ + n]
          /\ Becomes(a, Raise(run[a]))
    /\ UNCHANGED <<receipt, ledger, orphan, told, up, counters>>

(* The provider answers, with or without usage, or the transport fails.    *)
Answer(a) ==
    /\ At(a, {"answer"})
    /\ \/ \E u \in Usage \cup {None} :
            Becomes(a, [run[a] EXCEPT !.usage = u, !.pc = IF a \in Commands THEN "ack" ELSE "settle"])
       \/ Becomes(a, Raise(run[a]))
    /\ UNCHANGED <<receipt, ledger, orphan, sent, told, up, counters>>

(* _settle_budget, _mark_budget_pending, and _release_budget before a      *)
(* cancellation.                                                           *)
Settle(a) ==
    /\ At(a, {"settle", "release"})
    /\ LET x == run[a] IN
        /\ Settling(a, x)
        /\ Becomes(a, IF SettleAnswer(a, Settlement(x).state, Settlement(x).units) = "ok"
                      THEN [x EXCEPT !.final = TRUE, !.pc = IF x.pc = "settle" THEN "succeed" ELSE "withdraw"]
                      ELSE Raise(x))
    /\ UNCHANGED <<receipt, orphan, sent, told, up, counters>>

(* The closing transition of a success or of a cancellation before the     *)
(* wire, and the event.                                                    *)
Conclude(a) ==
    /\ At(a, {"succeed", "withdraw"})
    /\ LET x == run[a] IN
        /\ Swap(a, x)
        /\ \/ /\ CasAnswer(a, x.receipt, Target(x)) = "ok"
              /\ Tell(a, [x EXCEPT !.receipt = Written(x)], Target(x))
           \/ /\ CasAnswer(a, x.receipt, Target(x)) # "ok"
              /\ Becomes(a, Raise(x)) /\ told' = told
    /\ UNCHANGED <<ledger, orphan, sent, up, counters>>

-----------------------------------------------------------------------------
(* _fail_after_dispatch.                                                   *)

(* The budget: an error here only turns the outcome to in doubt.           *)
FailBudget(a) ==
    /\ At(a, {"budget"})
    /\ LET x == run[a]
           held == x.res /\ ~x.final
           ok == SettleAnswer(a, Settlement(x).state, Settlement(x).units) = "ok"
       IN  /\ IF held THEN Settling(a, x) ELSE ledger' = ledger
           /\ Becomes(a, [x EXCEPT !.pc = "close",
                                   !.final = @ \/ (held /\ ok),
                                   !.exc = IF held /\ ~ok /\ Committed(x) THEN "in_doubt" ELSE @])
    /\ UNCHANGED <<receipt, orphan, sent, told, up, counters>>

(* The receipt: an illegal transition is answered by in doubt or by the    *)
(* event alone, a conflict leaves the task, and the owner without an event.*)
FailClose(a) ==
    /\ At(a, {"close", "doubt"})
    /\ LET x == run[a]
           answer == CasAnswer(a, x.receipt, Target(x))
       IN  /\ Swap(a, x)
           /\ \/ /\ answer = "ok"
                 /\ Tell(a, [x EXCEPT !.receipt = Written(x)], Target(x))
              \/ /\ answer = "illegal" /\ x.pc = "close"
                 /\ \/ /\ Committed(x) /\ x.exc # "in_doubt"
                       /\ Becomes(a, [x EXCEPT !.pc = "doubt"]) /\ told' = told
                    \/ /\ ~Committed(x) \/ x.exc = "in_doubt"
                       /\ Tell(a, x, x.exc)
              \/ /\ answer = "conflict" \/ (answer = "illegal" /\ x.pc = "doubt")
                 /\ Becomes(a, [x EXCEPT !.pc = "gone"]) /\ told' = told
    /\ UNCHANGED <<ledger, orphan, sent, up, counters>>

-----------------------------------------------------------------------------
(* Cancellation of a dispatch task, and faults of the process.             *)

MoreFaults == crashes + foreign + cancels < MaxFaults

CancelTask(a) ==
    /\ cancels < MaxCancel /\ MoreFaults
    /\ At(a, {"reserve", "auth", "release", "withdraw", "intent", "commit", "send", "wired",
              "answer", "ack", "settle", "succeed"})
    /\ cancels' = cancels + 1
    /\ orphan' = [orphan EXCEPT ![a] = IF run[a].pc \in {"auth", "send", "answer"} THEN @ ELSE run[a]]
    /\ Becomes(a, [run[a] EXCEPT !.pc = "budget", !.exc = "cancelled"])
    /\ UNCHANGED <<receipt, ledger, sent, told, up, starts, crashes, foreign>>

(* The disk thread finishes what the cancelled task asked for.             *)
FinishOrphan(a) ==
    /\ orphan[a] # None
    /\ LET x == orphan[a] IN
        /\ IF x.pc \in Swaps THEN Swap(a, x) ELSE receipt' = receipt
        /\ IF x.pc = "reserve" THEN Reserving(a)
           ELSE IF x.pc \in Settles THEN Settling(a, x)
           ELSE ledger' = ledger
    /\ orphan' = [orphan EXCEPT ![a] = None]
    /\ UNCHANGED <<run, sent, told, up, counters>>

Crash ==
    /\ up /\ crashes < MaxCrash /\ MoreFaults
    /\ up' = FALSE /\ crashes' = crashes + 1
    /\ run' = [a \in Attempts |-> None]
    /\ orphan' = [a \in Attempts |-> None]
    /\ UNCHANGED <<receipt, ledger, sent, told, starts, foreign, cancels>>

Reconcile == receipt' = [a \in Attempts |-> Reconciled(receipt[a])]

(* The runtime starts again once recovery has gone through.                *)
Restart ==
    /\ ~up /\ AllReadable
    /\ Reconcile
    /\ up' = TRUE
    /\ UNCHANGED <<ledger, run, orphan, sent, told, counters>>

(* Another runtime starts on the same database while this one is at work.  *)
ForeignStart ==
    /\ foreign < MaxForeign /\ MoreFaults /\ AllReadable
    /\ Reconcile
    /\ foreign' = foreign + 1
    /\ UNCHANGED <<ledger, run, orphan, sent, told, up, starts, crashes, cancels>>

-----------------------------------------------------------------------------
Owner(a) == Start(a) \/ AuthorizeWire(a) \/ CancelRequest(a)
Progress(a) ==
    \/ Accept(a) \/ Enqueue(a) \/ Dispatch(a) \/ Discard(a) \/ DispatchTimeout(a) \/ Reserve(a)
    \/ Authorized(a) \/ AuthorizationTimeout(a) \/ Transition(a) \/ Send(a) \/ Answer(a) \/ Settle(a)
    \/ Conclude(a) \/ FailBudget(a) \/ FailClose(a)

Next ==
    \/ \E a \in Attempts : Owner(a) \/ Progress(a) \/ CancelTask(a) \/ FinishOrphan(a)
    \/ Crash \/ Restart \/ ForeignStart

Spec == Init /\ [][Next]_vars

(* The event loop and the disk threads run what is ready; every wait of a  *)
(* dispatch has the attempt's deadline; a supervisor restarts the daemon.  *)
FairSpec ==
    /\ Spec
    /\ \A a \in Attempts : WF_vars(Progress(a)) /\ WF_vars(FinishOrphan(a))
    /\ WF_vars(Restart)

-----------------------------------------------------------------------------
(* An attempt goes on the wire at most once: over crashes, recoveries,     *)
(* cancelled tasks and starts of the same attempt id again (_accept,       *)
(* _compare_and_swap, RECEIPT_TRANSITIONS).  What has gone out is on       *)
(* record: its durable receipt is past the commit and bound to a permit,   *)
(* whatever happens after (the two transitions before generate_once).      *)
WireOnce ==
    \A a \in Attempts :
        /\ sent[a] <= 1
        /\ sent[a] > 0 => receipt[a] # None /\ receipt[a].state \notin Uncommitted /\ receipt[a].permit



(* A closed receipt is never written again, by dispatch, orphan or         *)
(* recovery (validate_receipt_transition).                                 *)
ClosedForGood ==
    [][\A a \in Attempts :
        receipt[a] # None /\ receipt[a].state \in Outcomes => receipt'[a] = receipt[a]]_vars


(* After a crash the runtime comes back: "Committed non-terminal           *)
(* executions reconcile or become IN_DOUBT".                               *)
RestartRecovers == ~up ~> up

=============================================================================
