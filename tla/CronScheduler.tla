--------------------------- MODULE CronScheduler ----------------------------
(***************************************************************************)
(* Cron automation (src/orchestration/automation/cron): the sessions of a  *)
(* workspace, one process each, that share a lock file and a schedule      *)
(* file, and the "mote cron" command that edits the schedule without the   *)
(* lock.  A process is interleaved with the others at every file operation *)
(* and may die between two of them.                                        *)
(*                                                                         *)
(* A cron expression is the set of times it matches; the jitter is left    *)
(* out, and so are tasks held in memory, which no entry point creates.     *)
(***************************************************************************)
EXTENDS Naturals, FiniteSets, FiniteSetsExt

CONSTANTS
    Sessions, Tasks,
    Recurring, Initial,     \* subsets of Tasks
    Runs,                   \* task -> times its expression matches
    MaxAge,                 \* recurring_max_age_ms
    Dispositions,           \* what the trigger sink answers
    None,
    MaxTime, MaxFires, MaxEdits,    \* bounds
    MaxStarts,                      \* bound: processes, in all
    MaxFaults                       \* bound: crashes and saves that fail

ASSUME CronAssumption ==
    /\ Recurring \subseteq Tasks /\ Initial \subseteq Tasks
    /\ Runs \in [Tasks -> SUBSET (1..MaxTime)]
    /\ Dispositions \subseteq {"accepted", "deferred"}

Never == MaxTime + 1        \* math.inf; also: not in the file
Unset == MaxTime + 2        \* no entry in _next_fire_at
Moments == 0..Unset

VARIABLES
    now,
    lock,       \* the lock file: None, or its inode and its body
    disk,       \* the schedule file: task -> last_fired_at or created_at
    born,       \* task -> created_at
    proc,       \* session -> its process
    editor,     \* a "mote cron" command
    fires,      \* task -> times on_fire was called
    last,       \* task -> the moment of the tick that fired it last
    lost,       \* one-shot tasks removed that no agent was given
    robbed,     \* a live session's lock file was unlinked or overwritten by another
    overlaps,   \* saves that overwrote a version they had not loaded
    blinded,    \* a scheduler took the mtime of another's save for its own
    starts, crashes, failures, edits    \* counters behind the bounds

vars == <<now, lock, disk, born, proc, editor, fires, last, lost, robbed, overlaps, blinded,
          starts, crashes, failures, edits>>

Empty == [t \in Tasks |-> Never]
In(f) == {t \in Tasks : f[t] # Never}

(* durable, next: _durable, _next_fire_at; seen: _last_mtime is the file's;*)
(* clean: nobody saved since this process loaded or saved the file.        *)
Down == [pc |-> "down", ino |-> None, owner |-> FALSE, durable |-> Empty,
         next |-> [t \in Tasks |-> Unset], seen |-> FALSE, at |-> 0,
         todo |-> {}, fired |-> {}, gone |-> {}, unheard |-> {},
         starting |-> FALSE, file |-> Empty, clean |-> TRUE]

Init ==
    /\ now = 0 /\ lock = None
    /\ disk = [t \in Tasks |-> IF t \in Initial THEN 0 ELSE Never]
    /\ born = disk
    /\ proc = [s \in Sessions |-> Down]
    /\ editor = [pc |-> "idle", op |-> None, task |-> None, file |-> Empty, clean |-> TRUE]
    /\ fires = [t \in Tasks |-> 0] /\ last = [t \in Tasks |-> 0]
    /\ lost = {} /\ robbed = FALSE /\ overlaps = 0 /\ blinded = FALSE
    /\ starts = [s \in Sessions |-> 0] /\ crashes = 0 /\ failures = 0 /\ edits = 0

-----------------------------------------------------------------------------
(* The lock                                                                *)

Me(s) == <<s, starts[s]>>
Body(s, ino) == [ino |-> ino, by |-> s, pid |-> starts[s]]
Running(l) == proc[l.by].pc # "down" /\ starts[l.by] = l.pid

(* Where s is.  Bound: the processes are followed until one of them loses  *)
(* its lock file to another, from where on both may own the schedule.      *)
At(s, pcs) == ~robbed /\ proc[s].pc \in pcs

Go(s, pc) == proc' = [proc EXCEPT ![s] = [@ EXCEPT !.pc = pc]]

Start(s) ==
    /\ At(s, {"down"}) /\ MapThenSumSet(LAMBDA q : starts[q], Sessions) < MaxStarts
    /\ starts' = [starts EXCEPT ![s] = @ + 1]
    /\ proc' = [proc EXCEPT ![s] = [Down EXCEPT !.pc = "create", !.starting = TRUE]]
    /\ UNCHANGED <<now, lock, disk, born, editor, fires, last, lost, robbed, overlaps, blinded, crashes, failures, edits>>


(* _try_create_exclusive, as far as the empty file.                        *)
TryCreate(s, otherwise) ==
    \/ /\ lock = None
       /\ lock' = [ino |-> Me(s), by |-> None, pid |-> 0]
       /\ proc' = [proc EXCEPT ![s] = [@ EXCEPT !.pc = "write", !.ino = Me(s)]]
    \/ lock # None /\ Go(s, otherwise) /\ UNCHANGED lock

Create(s) ==
    /\ \/ At(s, {"create"}) /\ TryCreate(s, "read")
       \/ At(s, {"retry"}) /\ TryCreate(s, "load")
    /\ UNCHANGED <<now, disk, born, editor, fires, last, lost, robbed, overlaps, blinded, starts, crashes, failures, edits>>

(* The body is written into the file that was opened, linked or not.       *)
WriteBody(s) ==
    /\ At(s, {"write"})
    /\ lock' = IF lock # None /\ lock.ino = proc[s].ino THEN Body(s, lock.ino) ELSE lock
    /\ proc' = [proc EXCEPT ![s] = [@ EXCEPT !.pc = "load", !.owner = TRUE]]
    /\ UNCHANGED <<now, disk, born, editor, fires, last, lost, robbed, overlaps, blinded, starts, crashes, failures, edits>>

(* The file exists: it is ours (of an earlier process of this session), a  *)
(* live session's, or stale, corrupt or gone.                              *)
Read(s) ==
    /\ At(s, {"read"})
    /\ LET body == lock # None /\ lock.by # None IN
        \/ body /\ lock.by = s /\ Go(s, "rewrite")
        \/ body /\ lock.by # s /\ Running(lock) /\ Go(s, "load")
        \/ ~(body /\ (lock.by = s \/ Running(lock))) /\ Go(s, "unlink")
    /\ UNCHANGED <<now, lock, disk, born, editor, fires, last, lost, robbed, overlaps, blinded, starts, crashes, failures, edits>>

(* Another live process made this lock file, or wrote into it.             *)
Takes(s) == lock # None /\ \E q \in Sessions \ {s} : proc[q].pc # "down" /\ proc[q].ino = lock.ino

(* write_text: the file is truncated, or made, and then written.           *)
Rewrite(s) ==
    /\ At(s, {"rewrite"})
    /\ robbed' = (robbed \/ Takes(s))
    /\ lock' = [ino |-> IF lock = None THEN Me(s) ELSE lock.ino, by |-> None, pid |-> 0]
    /\ proc' = [proc EXCEPT ![s] = [@ EXCEPT !.pc = "write", !.ino = lock'.ino]]
    /\ UNCHANGED <<now, disk, born, editor, fires, last, lost, overlaps, blinded, starts, crashes, failures, edits>>

(* The unlink, of whatever has the name by now: of a stale lock, of a lock *)
(* judged stale, or in release of one's own.                               *)
Unlink(s) ==
    /\ At(s, {"unlink", "release"})
    /\ robbed' = (robbed \/ Takes(s))
    /\ lock' = None
    /\ IF proc[s].pc = "unlink" THEN Go(s, "retry") ELSE proc' = [proc EXCEPT ![s] = Down]
    /\ UNCHANGED <<now, disk, born, editor, fires, last, lost, overlaps, blinded, starts, crashes, failures, edits>>

(* stop: the loop ends between two ticks; release reads the body first.    *)
Stop(s) ==
    /\ At(s, {"idle", "stuck"})
    /\ IF proc[s].owner /\ ~(lock # None /\ lock.by # None /\ lock.by # s)
       THEN proc' = [proc EXCEPT ![s] = [@ EXCEPT !.pc = "release", !.owner = FALSE]]
       ELSE proc' = [proc EXCEPT ![s] = Down]
    /\ UNCHANGED <<now, lock, disk, born, editor, fires, last, lost, robbed, overlaps, blinded, starts, crashes, failures, edits>>

-----------------------------------------------------------------------------
(* The schedule                                                            *)

(* _next_cron_run_ms: the first match after a time.                        *)
NextRun(t, from) == LET runs == {r \in Runs[t] : r > from} IN IF runs = {} THEN Never ELSE Min(runs)

(* A save by s, whose process is r now, or by the editor (None).           *)
Saved(s, r) ==
    [q \in Sessions |-> IF q = s THEN [r EXCEPT !.seen = FALSE, !.clean = TRUE]
                        ELSE [proc[q] EXCEPT !.seen = FALSE,
                                             !.clean = @ /\ proc[q].pc \notin {"rmsave", "psave", "mtime"}]]
Overwrites(clean) == overlaps' = IF clean THEN overlaps ELSE overlaps + 1

Reloaded(r) == [r EXCEPT !.durable = disk, !.seen = TRUE]

(* on_fire: the sink is told, and its answer is not looked at.             *)
Fire(ts, at) ==
    /\ fires' = [t \in Tasks |-> IF t \in ts THEN Min({fires[t] + 1, MaxFires}) ELSE fires[t]]
    /\ last' = [t \in Tasks |-> IF t \in ts THEN at ELSE last[t]]

Unheard(r, ts, d) == IF d = "accepted" THEN r.unheard \ ts ELSE r.unheard \cup ts

(* The rest of start: the schedule is loaded, and the owner fires the      *)
(* one-shot tasks whose time passed.  Another session stays passive.       *)
Load(s) ==
    /\ At(s, {"load"})
    /\ LET r == Reloaded(proc[s])
           missed == {t \in In(disk) \ Recurring : proc[s].owner /\ NextRun(t, disk[t]) < now}
       IN  \E d \in Dispositions :
            /\ Fire(missed, now)
            /\ proc' = [proc EXCEPT ![s] =
                 IF ~proc[s].owner THEN [Down EXCEPT !.pc = "idle"]
                 ELSE IF missed = {} THEN [r EXCEPT !.pc = "idle", !.starting = FALSE]
                 ELSE [r EXCEPT !.pc = "remove", !.gone = missed, !.unheard = Unheard(r, missed, d),
                                !.next = [t \in Tasks |-> IF t \in missed THEN Never ELSE Unset]]]
    /\ UNCHANGED <<now, lock, disk, born, editor, lost, robbed, overlaps, blinded, starts, crashes, failures, edits>>

(* The next fire time of each durable task: kept, or computed from the     *)
(* file; those of tasks that are gone are dropped (at the end of _check).  *)
Anchored(r) ==
    [t \in Tasks |-> IF t \notin In(r.durable) THEN Unset
                     ELSE IF r.next[t] = Unset THEN NextRun(t, r.durable[t]) ELSE r.next[t]]


(* _check, as far as the first due task: a changed file is reloaded.       *)
Check(s) ==
    /\ At(s, {"idle"}) /\ proc[s].owner
    /\ \E r \in {IF proc[s].seen THEN proc[s] ELSE Reloaded(proc[s])} :
        \E next \in {Anchored(r)} :
            LET due == {t \in In(r.durable) : next[t] <= now} IN
            proc' = [proc EXCEPT ![s] = [r EXCEPT !.next = next, !.at = IF due = {} THEN 0 ELSE now,
                                                  !.todo = due, !.pc = IF due = {} THEN "idle" ELSE "fire"]]
    /\ UNCHANGED <<now, lock, disk, born, editor, fires, last, lost, robbed, overlaps, blinded, starts, crashes, failures, edits>>

After(r) == IF r.todo # {} THEN "fire" ELSE IF r.fired # {} THEN "persist" ELSE "idle"
Resume(r) == [r EXCEPT !.pc = After(r), !.at = IF After(r) = "idle" THEN 0 ELSE r.at]

(* process, for one due task: fired, and then rescheduled or removed.      *)
Process(s, t) ==
    /\ At(s, {"fire"}) /\ t \in proc[s].todo
    /\ LET again == t \in Recurring /\ proc[s].at - born[t] < MaxAge IN
       \E d \in Dispositions :
        /\ Fire({t}, proc[s].at)
        /\ \E r \in {[proc[s] EXCEPT !.todo = @ \ {t}]} :
            proc' = [proc EXCEPT ![s] =
                IF again
                THEN Resume([r EXCEPT !.next[t] = NextRun(t, r.at), !.durable[t] = r.at, !.fired = @ \cup {t}])
                ELSE [r EXCEPT !.pc = "remove", !.gone = {t}, !.unheard = Unheard(r, {t}, d)]]
    /\ UNCHANGED <<now, lock, disk, born, editor, lost, robbed, overlaps, blinded, starts, crashes, failures, edits>>

(* How a remove ends: in start the schedule is loaded again.               *)
Removed(r) ==
    IF r.starting THEN [r EXCEPT !.gone = {}, !.unheard = {}, !.starting = FALSE, !.pc = "reload"]
    ELSE Resume([r EXCEPT !.gone = {}, !.unheard = {}, !.next = [t \in Tasks |->
                             IF t \in r.gone THEN Unset ELSE r.next[t]]])

Reload(s) ==
    /\ At(s, {"reload"})
    /\ proc' = [proc EXCEPT ![s] = [Reloaded(proc[s]) EXCEPT !.pc = "idle"]]
    /\ UNCHANGED <<now, lock, disk, born, editor, fires, last, lost, robbed, overlaps, blinded, starts, crashes, failures, edits>>

(* store.remove and _persist_fired load the file; with none of their tasks *)
(* in it they save nothing.                                                *)
Wanted(r) == IF r.pc = "remove" THEN r.gone ELSE r.fired

(* Mutant: the cached tasks are saved instead of the loaded ones. *)
LoadFile_Cached(s) ==
    /\ At(s, {"remove", "persist"})
    /\ UNCHANGED disk
    /\ \E r \in {proc[s]} : proc' = [proc EXCEPT ![s] =
         IF Wanted(r) \cap In(disk) # {}
         THEN [r EXCEPT !.pc = IF r.pc = "remove" THEN "rmsave" ELSE "psave", !.file = r.durable, !.clean = TRUE]
         ELSE IF r.pc = "remove" THEN Removed(r) ELSE Resume([r EXCEPT !.fired = {}])]
    /\ UNCHANGED <<now, lock, born, editor, fires, last, lost, robbed, overlaps, blinded, starts, crashes, failures, edits>>

LoadFile(s) ==
    /\ At(s, {"remove", "persist"})
    /\ UNCHANGED disk
    /\ \E r \in {proc[s]} : proc' = [proc EXCEPT ![s] =
         IF Wanted(r) \cap In(disk) # {}
         THEN [r EXCEPT !.pc = IF r.pc = "remove" THEN "rmsave" ELSE "psave", !.file = disk, !.clean = TRUE]
         ELSE IF r.pc = "remove" THEN Removed(r) ELSE Resume([r EXCEPT !.fired = {}])]
    /\ UNCHANGED <<now, lock, born, editor, fires, last, lost, robbed, overlaps, blinded, starts, crashes, failures, edits>>

(* Mutant: the one-shot task stays in the file. *)
RemoveSave_Kept(s) ==
    /\ At(s, {"rmsave"})
    /\ disk' = proc[s].file
    /\ Overwrites(proc[s].clean)
    /\ editor' = [editor EXCEPT !.clean = editor.pc = "idle"]
    /\ proc' = Saved(s, [Removed(proc[s]) EXCEPT !.file = Empty])
    /\ UNCHANGED <<now, lock, born, fires, last, lost, robbed, blinded, starts, crashes, failures, edits>>

RemoveSave(s) ==
    /\ At(s, {"rmsave"})
    /\ disk' = [t \in Tasks |-> IF t \in proc[s].gone THEN Never ELSE proc[s].file[t]]
    /\ Overwrites(proc[s].clean)
    /\ editor' = [editor EXCEPT !.clean = editor.pc = "idle"]
    /\ lost' = lost \cup ((proc[s].gone \cap proc[s].unheard) \ Recurring)
    /\ proc' = Saved(s, [Removed(proc[s]) EXCEPT !.file = Empty])
    /\ UNCHANGED <<now, lock, born, fires, last, robbed, blinded, starts, crashes, failures, edits>>

PersistSave(s) ==
    /\ At(s, {"psave"})
    /\ disk' = [t \in Tasks |-> IF t \in proc[s].fired \cap In(proc[s].file) THEN proc[s].at
                                ELSE proc[s].file[t]]
    /\ Overwrites(proc[s].clean)
    /\ editor' = [editor EXCEPT !.clean = editor.pc = "idle"]
    /\ proc' = Saved(s, [proc[s] EXCEPT !.pc = "mtime", !.file = disk'])
    /\ UNCHANGED <<now, lock, born, fires, last, lost, robbed, blinded, starts, crashes, failures, edits>>

(* The mtime is read after the save, and taken for that of the save.       *)
Reanchor(s) ==
    /\ At(s, {"mtime"})
    /\ \E r \in {proc[s]} : proc' = [proc EXCEPT ![s] =
         Resume([r EXCEPT !.seen = TRUE, !.durable = r.file, !.file = Empty,
                          !.fired = {}, !.clean = TRUE])]
    /\ blinded' = (blinded \/ ~proc[s].clean)
    /\ UNCHANGED <<now, lock, disk, born, editor, fires, last, lost, robbed, overlaps, starts, crashes, failures, edits>>

(* A save raises: a tick is given up, a start leaves no loop behind.       *)
GivenUp(r) ==
    [r EXCEPT !.pc = IF r.starting THEN "stuck" ELSE "idle", !.at = 0, !.todo = {}, !.fired = {},
              !.gone = {}, !.unheard = {}, !.starting = FALSE, !.file = Empty, !.clean = TRUE]

SaveFails(s) ==
    /\ At(s, {"rmsave", "psave"}) /\ crashes + failures < MaxFaults
    /\ failures' = failures + 1
    /\ proc' = [proc EXCEPT ![s] = GivenUp(proc[s])]
    /\ UNCHANGED <<now, lock, disk, born, editor, fires, last, lost, robbed, overlaps, blinded, starts, crashes, edits>>

(* A process dies; a lock it holds stays.                                  *)
Crash(s) ==
    /\ ~At(s, {"down"}) /\ ~robbed /\ crashes + failures < MaxFaults
    /\ crashes' = crashes + 1
    /\ proc' = [proc EXCEPT ![s] = Down]
    /\ UNCHANGED <<now, lock, disk, born, editor, fires, last, lost, robbed, overlaps, blinded, starts, failures, edits>>

-----------------------------------------------------------------------------
(* "mote cron add" and "mote cron rm": validated, loaded, and saved.       *)
Edit(op, t) ==
    /\ editor.pc = "idle" /\ edits < MaxEdits
    /\ \/ op = "add" /\ born[t] = Never /\ NextRun(t, now) # Never
       \/ op = "rm" /\ t \in In(disk)
    /\ edits' = edits + 1
    /\ born' = IF op = "add" THEN [born EXCEPT ![t] = now] ELSE born
    /\ editor' = [pc |-> "save", op |-> op, task |-> t, file |-> disk, clean |-> TRUE]
    /\ UNCHANGED <<now, lock, disk, proc, fires, last, lost, robbed, overlaps, blinded, starts, crashes, failures>>

EditSave ==
    /\ editor.pc = "save"
    /\ disk' = [editor.file EXCEPT ![editor.task] = IF editor.op = "add" THEN born[editor.task] ELSE Never]
    /\ Overwrites(editor.clean)
    /\ proc' = Saved(None, Down)
    /\ editor' = [editor EXCEPT !.pc = "idle", !.file = Empty, !.clean = TRUE]
    /\ UNCHANGED <<now, lock, born, fires, last, lost, robbed, blinded, starts, crashes, failures, edits>>

(* Time passes between ticks, starts and stops.                            *)
Clock ==
    /\ now < MaxTime /\ \A s \in Sessions : proc[s].pc \in {"down", "idle", "stuck"}
    /\ now' = now + 1
    /\ UNCHANGED <<lock, disk, born, proc, editor, fires, last, lost, robbed, overlaps, blinded, starts, crashes, failures, edits>>

(* What a process does of itself, once started.                            *)
Step(s) ==
    \/ Create(s) \/ WriteBody(s) \/ Read(s) \/ Rewrite(s) \/ Unlink(s)
    \/ Load(s) \/ Check(s) \/ (\E t \in Tasks : Process(s, t))
    \/ LoadFile(s) \/ RemoveSave(s) \/ Reload(s) \/ PersistSave(s) \/ Reanchor(s)

Next ==
    \/ \E s \in Sessions : Start(s) \/ Step(s) \/ Stop(s) \/ SaveFails(s) \/ Crash(s)
    \/ \E op \in {"add", "rm"}, t \in Tasks : Edit(op, t)
    \/ EditSave \/ Clock

Spec == Init /\ [][Next]_vars

(* A process goes on, its loop ticks every second, and time passes.        *)
FairSpec == Spec /\ WF_vars(Clock) /\ \A s \in Sessions : WF_vars(Step(s))

-----------------------------------------------------------------------------
Pcs == {"down", "create", "write", "read", "rewrite", "unlink", "retry", "release", "load", "reload",
        "idle", "stuck", "fire", "remove", "rmsave", "persist", "psave", "mtime"}

(* Every variable has its type, and a scheduler between two ticks has      *)
(* nothing left to fire, to remove or to persist.                          *)
TypeOK ==
    /\ now \in 0..MaxTime
    /\ lock # None => lock.ino[1] \in Sessions /\ lock.by \in Sessions \cup {None}
    /\ disk \in [Tasks -> 0..Never] /\ born \in [Tasks -> 0..Never]
    /\ \A s \in Sessions :
        /\ proc[s].pc \in Pcs /\ proc[s].owner \in BOOLEAN
        /\ proc[s].durable \in [Tasks -> 0..Never] /\ proc[s].next \in [Tasks -> 0..Unset]
        /\ proc[s].pc \in {"down", "idle", "stuck"} =>
             proc[s].todo = {} /\ proc[s].fired = {} /\ proc[s].gone = {} /\ proc[s].file = Empty
    /\ editor.pc \in {"idle", "save"}
    /\ fires \in [Tasks -> 0..MaxFires] /\ last \in [Tasks -> 0..MaxTime]
    /\ lost \subseteq Tasks /\ {robbed, blinded} \subseteq BOOLEAN
    /\ {overlaps, crashes, failures, edits} \subseteq Nat


(* A one-shot task fires once, and once more for each crash, failed save   *)
(* or save over a version not loaded that leaves it in the file: it is     *)
(* fired before it is removed (process, _run_missed).  Without these a     *)
(* recurring task fires at most once for each time its expression matches, *)
(* also when one session stops and another takes over: the anchor is in    *)
(* the file ("disk is truth").  This holds while there is one owner whose  *)
(* cache is the file's.                                                    *)
FiresPaid ==
    [][LET excuses == crashes + failures + overlaps
       IN  \A t \in Tasks : fires[t] > 0 /\ fires'[t] > fires[t] /\ ~robbed /\ ~blinded =>
             \/ t \notin Recurring /\ fires[t] <= excuses
             \/ t \in Recurring /\ excuses > 0
             \/ t \in Recurring /\ \E run \in Runs[t] : last[t] < run /\ run <= last'[t]]_vars

(* A task comes into the file when it is added, and leaves it when it is   *)
(* deleted or has fired, unless a save went over a version not loaded (add,*)
(* remove and _persist_fired take no lock).                                *)
NoLostEdit ==
    [][\A t \in Tasks :
         /\ t \in In(disk) /\ t \notin In(disk') =>
              fires[t] > 0 \/ (editor.op = "rm" /\ editor.task = t) \/ overlaps' > overlaps
         /\ t \notin In(disk) /\ t \in In(disk') =>
              (editor.op = "add" /\ editor.task = t) \/ overlaps' > overlaps]_vars


(* "firing is deferred while the target agent is mid-turn" (the module's   *)
(* description): a one-shot task the sink deferred is not removed.         *)
DeferredKept == lost = {}

=============================================================================
