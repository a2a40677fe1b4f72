----------------------------- MODULE Scheduler -----------------------------
(***************************************************************************)
(* The work-stealing scheduler of async_scheduler                          *)
(* (src/scheduler/worksteal.zig) under its C interface                     *)
(* (src/async_core.zig): client threads spawn tasks into the injector and  *)
(* await them; worker threads move them to deques of their own, steal from *)
(* one another, run them and release their entries.                        *)
(*                                                                         *)
(* A deque's operations are single steps here, as WorkStealDeque shows     *)
(* that it implements TaskDeque; pop and steal may return null though the  *)
(* deque is not empty.  Each critical section of a mutex is one action.    *)
(* Allocation succeeds, but for a deque that cannot grow.                  *)
(***************************************************************************)
EXTENDS Naturals, Sequences, FiniteSets

CONSTANTS
  Worker, Client, Task, None,
  injector_batch,  \* tasks drained in one go
  Spawners, Waiters,  \* bound: the clients that spawn tasks, that await them,
  Stoppers, Askers,   \* that stop and destroy the scheduler, that ask for statistics
  PushMayFail      \* whether growing a deque may run out of memory

ASSUME SchedulerAssumption ==
  /\ IsFiniteSet(Worker) /\ IsFiniteSet(Client)
  /\ None \notin Task
  /\ injector_batch \in Nat \ {0}
  /\ Spawners \union Waiters \union Stoppers \union Askers \subseteq Client
  /\ PushMayFail \in BOOLEAN

VARIABLES
  running,          \* the flag the workers poll
  injector, deque,  \* sequences of tasks, oldest first
  task_map,         \* tasks registered
  state, ref_count, \* of each task's entry
  freed,            \* entries destroyed
  runs,             \* history: how often each task's function ran
  tasks_spawned, tasks_completed,
  worker, client

queues == <<injector, deque>>
entries == <<task_map, state, ref_count, freed, runs>>
counts == <<tasks_spawned, tasks_completed>>
vars == <<running, queues, entries, counts, worker, client>>

WorkerPc == {"loop", "pop", "drain", "push", "steal", "sleep", "waiting", "execute", "run",
             "complete", "unregister", "release", "exited"}
ClientPc == {"idle", "enqueue", "count", "check", "wait", "drop", "stats", "underflow",
             "destroying", "destroyed"}

Init ==
  /\ running = TRUE
  /\ injector = <<>>
  /\ deque = [w \in Worker |-> <<>>]
  /\ task_map = {}
  /\ state = [t \in Task |-> "none"]
  /\ ref_count = [t \in Task |-> 0]
  /\ freed = {}
  /\ runs = [t \in Task |-> 0]
  /\ tasks_spawned = 0 /\ tasks_completed = 0
  /\ worker = [w \in Worker |-> [pc |-> "loop", task |-> None, drained |-> 0, draining |-> FALSE]]
  /\ client = [c \in Client |-> [pc |-> "idle", task |-> None, seen |-> 0]]

goto(w, pc) == worker' = [worker EXCEPT ![w].pc = pc]

\* Sleeping workers wake at a broadcast.
woken(threads) == [w \in Worker |-> IF threads[w].pc = "waiting" THEN [threads[w] EXCEPT !.pc = "loop"]
                                    ELSE threads[w]]

\* Give up one reference; the last one destroys the entry.
isLastZero(count) == count = 0  \* mutant: fetchSub taken for the new count
isLast(count) == count = 1
dropRef(t) ==
  /\ ref_count' = [ref_count EXCEPT ![t] = @ - 1]
  /\ freed' = IF isLast(ref_count[t]) THEN freed \union {t} ELSE freed

-----------------------------------------------------------------------------
(* workerThread: look for a task in the own deque, the injector, the others. *)

Loop(w) ==
  /\ worker[w].pc = "loop"
  /\ goto(w, IF running THEN "pop" ELSE "exited")
  /\ UNCHANGED <<running, queues, entries, counts, client>>

obtained(w, t) == worker' = [worker EXCEPT ![w].pc = "execute", ![w].task = t]

PopOwn(w) ==
  /\ worker[w].pc = "pop" /\ deque[w] # <<>>
  /\ deque' = [deque EXCEPT ![w] = SubSeq(@, 1, Len(@) - 1)]
  /\ obtained(w, deque[w][Len(deque[w])])
  /\ UNCHANGED <<running, injector, entries, counts, client>>

\* Empty, or the race for the last task is lost, perhaps to nobody.
PopNull(w) ==
  /\ worker[w].pc = "pop" /\ Len(deque[w]) <= 1
  /\ worker' = [worker EXCEPT ![w].pc = "drain", ![w].drained = 0, ![w].draining = TRUE]
  /\ UNCHANGED <<running, queues, entries, counts, client>>

DrainOne(w) ==
  /\ worker[w].pc = "drain" /\ injector # <<>> /\ worker[w].drained < injector_batch
  /\ injector' = Tail(injector)
  /\ worker' = [worker EXCEPT ![w].pc = "push", ![w].task = Head(injector), ![w].drained = @ + 1]
  /\ UNCHANGED <<running, deque, entries, counts, client>>

DrainPush(w) ==
  /\ worker[w].pc = "push"
  /\ deque' = [deque EXCEPT ![w] = Append(@, worker[w].task)]
  /\ worker' = [worker EXCEPT ![w].pc = "drain", ![w].task = None]
  /\ UNCHANGED <<running, injector, entries, counts, client>>

\* A task that the deque has no room for is run at once.
DrainInline(w) ==
  /\ worker[w].pc = "push" /\ PushMayFail
  /\ goto(w, "execute")
  /\ UNCHANGED <<running, queues, entries, counts, client>>

DrainEnds(w) ==
  /\ worker[w].pc = "drain"
  /\ injector = <<>> \/ worker[w].drained = injector_batch
  /\ worker' = [worker EXCEPT ![w].pc = IF worker[w].drained > 0 THEN "loop" ELSE "steal",
                              ![w].draining = FALSE]
  /\ UNCHANGED <<running, queues, entries, counts, client>>

Steal(w, victim) ==
  /\ worker[w].pc = "steal" /\ victim # w /\ deque[victim] # <<>>
  /\ deque' = [deque EXCEPT ![victim] = Tail(@)]
  /\ obtained(w, Head(deque[victim]))
  /\ UNCHANGED <<running, injector, entries, counts, client>>

\* The victims are drawn at random, and a steal may fail.
StealNothing(w) ==
  /\ worker[w].pc = "steal"
  /\ goto(w, "sleep")
  /\ UNCHANGED <<running, queues, entries, counts, client>>

Sleep(w) ==
  /\ worker[w].pc = "sleep"
  /\ goto(w, IF running THEN "waiting" ELSE "exited")
  /\ UNCHANGED <<running, queues, entries, counts, client>>

\* The wait times out after 5 ms if no broadcast ends it before.
TimeOut(w) ==
  /\ worker[w].pc = "waiting"
  /\ goto(w, "loop")
  /\ UNCHANGED <<running, queues, entries, counts, client>>

-----------------------------------------------------------------------------
(* execute and unregisterTask. *)

Execute(w) ==
  /\ worker[w].pc = "execute"
  /\ state' = [state EXCEPT ![worker[w].task] = "running"]
  /\ goto(w, "run")
  /\ UNCHANGED <<running, queues, task_map, ref_count, freed, runs, counts, client>>

RunFunc(w) ==
  /\ worker[w].pc = "run"
  /\ runs' = [runs EXCEPT ![worker[w].task] = @ + 1]
  /\ tasks_completed' = tasks_completed + 1
  /\ goto(w, "complete")
  /\ UNCHANGED <<running, queues, task_map, state, ref_count, freed, tasks_spawned, client>>

\* complete and broadcast under the entry's mutex.
awakenedNone(t) == client  \* mutant: no broadcast
awakened(t) ==
  [c \in Client |-> IF client[c].pc = "wait" /\ client[c].task = t
                    THEN [client[c] EXCEPT !.pc = "check"] ELSE client[c]]

Complete(w) ==
  /\ worker[w].pc = "complete"
  /\ state' = [state EXCEPT ![worker[w].task] = "completed"]
  /\ client' = awakened(worker[w].task)
  /\ goto(w, "unregister")
  /\ UNCHANGED <<running, queues, task_map, ref_count, freed, runs, counts>>

Unregister(w) ==
  /\ worker[w].pc = "unregister"
  /\ task_map' = task_map \ {worker[w].task}
  /\ goto(w, "release")
  /\ UNCHANGED <<running, queues, state, ref_count, freed, runs, counts, client>>

\* The worker's reference is the one the spawner made; an inline run resumes draining.
Release(w) ==
  /\ worker[w].pc = "release"
  /\ dropRef(worker[w].task)
  /\ worker' = [worker EXCEPT ![w].pc = IF worker[w].draining THEN "drain" ELSE "loop",
                              ![w].task = None]
  /\ UNCHANGED <<running, queues, task_map, state, runs, counts, client>>

-----------------------------------------------------------------------------
(* Clients: spawn, await, stats. *)

\* The entry is made and registered; its one reference is the worker's.
Spawn(c, t) ==
  /\ c \in Spawners /\ client[c].pc = "idle" /\ state[t] = "none"
  /\ state' = [state EXCEPT ![t] = "pending"]
  /\ ref_count' = [ref_count EXCEPT ![t] = 1]
  /\ task_map' = task_map \union {t}
  /\ client' = [client EXCEPT ![c].pc = "enqueue", ![c].task = t]
  /\ UNCHANGED <<running, queues, freed, runs, counts, worker>>

\* Injector.push.
linkedLost(list, t) == IF list = <<>> THEN <<t>> ELSE list  \* mutant: the old tail is not linked
linked(list, t) == Append(list, t)

Enqueue(c) ==
  /\ client[c].pc = "enqueue"
  /\ injector' = linked(injector, client[c].task)
  /\ worker' = woken(worker)
  /\ client' = [client EXCEPT ![c].pc = "count"]
  /\ UNCHANGED <<running, deque, entries, counts>>

\* as_scheduler_spawn counts the task after the scheduler has it.
CountSpawned(c) ==
  /\ client[c].pc = "count"
  /\ tasks_spawned' = tasks_spawned + 1
  /\ client' = [client EXCEPT ![c].pc = "idle", ![c].task = None]
  /\ UNCHANGED <<running, queues, entries, tasks_completed, worker>>

\* mutant: await keeps no reference of its own
awaitRefNone(t) == ref_count
awaitRef(t) == [ref_count EXCEPT ![t] = @ + 1]

\* await_completion looks the task up; one that is gone has completed.
Await(c, t) ==
  /\ c \in Waiters /\ client[c].pc = "idle" /\ t \in task_map
  /\ ref_count' = awaitRef(t)
  /\ client' = [client EXCEPT ![c].pc = "check", ![c].task = t]
  /\ UNCHANGED <<running, queues, task_map, state, freed, runs, counts, worker>>

isCompletedEarly(t) == state[t] # "pending"  \* mutant: a running task taken for done
isCompleted(t) == state[t] = "completed"

AwaitCheck(c) ==
  /\ client[c].pc = "check"
  /\ client' = [client EXCEPT ![c].pc = IF isCompleted(client[c].task) THEN "drop" ELSE "wait"]
  /\ UNCHANGED <<running, queues, entries, counts, worker>>

AwaitDrop(c) ==
  /\ client[c].pc = "drop"
  /\ dropRef(client[c].task)
  /\ client' = [client EXCEPT ![c].pc = "idle", ![c].task = None]
  /\ UNCHANGED <<running, queues, task_map, state, runs, counts, worker>>

\* as_scheduler_stats loads the tasks spawned, then those completed, and subtracts.
StatsBegin(c) ==
  /\ c \in Askers /\ client[c].pc = "idle"
  /\ client' = [client EXCEPT ![c].pc = "stats", ![c].seen = tasks_spawned]
  /\ UNCHANGED <<running, queues, entries, counts, worker>>

StatsEnd(c) ==
  /\ client[c].pc = "stats"
  /\ client' = [client EXCEPT ![c].pc = IF client[c].seen >= tasks_completed THEN "idle" ELSE "underflow",
                              ![c].seen = 0]
  /\ UNCHANGED <<running, queues, entries, counts, worker>>

-----------------------------------------------------------------------------
(* stop and destroy. *)

Stop(c) ==
  /\ c \in Stoppers /\ client[c].pc = "idle"
  /\ running' = FALSE
  /\ worker' = woken(worker)
  /\ UNCHANGED <<queues, entries, counts, client>>

\* as_scheduler_destroy stops the workers, joins them and then gives up the
\* references of the tasks still registered.
DestroyBegin(c) ==
  /\ c \in Stoppers /\ client[c].pc = "idle"
  /\ \A d \in Client : client[d].pc \in {"idle", "wait"}
  /\ running' = FALSE
  /\ worker' = woken(worker)
  /\ client' = [client EXCEPT ![c].pc = "destroying"]
  /\ UNCHANGED <<queues, entries, counts>>

DestroyEnd(c) ==
  /\ client[c].pc = "destroying"
  /\ \A w \in Worker : worker[w].pc = "exited"
  /\ ref_count' = [t \in Task |-> IF t \in task_map THEN ref_count[t] - 1 ELSE ref_count[t]]
  /\ freed' = freed \union {t \in task_map : isLast(ref_count[t])}
  /\ task_map' = {}
  /\ injector' = <<>> /\ deque' = [w \in Worker |-> <<>>]
  /\ client' = [client EXCEPT ![c].pc = "destroyed"]
  /\ UNCHANGED <<running, state, runs, counts, worker>>

-----------------------------------------------------------------------------

WorkerStep(w) ==
  \/ Loop(w) \/ PopOwn(w) \/ PopNull(w) \/ DrainOne(w) \/ DrainPush(w) \/ DrainInline(w)
  \/ DrainEnds(w) \/ (\E victim \in Worker : Steal(w, victim)) \/ StealNothing(w)
  \/ Sleep(w) \/ TimeOut(w)
  \/ Execute(w) \/ RunFunc(w) \/ Complete(w) \/ Unregister(w) \/ Release(w)

\* The rest of a call begun.
ClientStep(c) ==
  Enqueue(c) \/ CountSpawned(c) \/ AwaitCheck(c) \/ AwaitDrop(c) \/ StatsEnd(c) \/ DestroyEnd(c)

\* Nobody calls a scheduler being destroyed.
Call(c) ==
  /\ \A d \in Client : client[d].pc \notin {"destroying", "destroyed"}
  /\ \/ \E t \in Task : Spawn(c, t) \/ Await(c, t)
     \/ StatsBegin(c) \/ Stop(c) \/ DestroyBegin(c)

Next == (\E w \in Worker : WorkerStep(w)) \/ (\E c \in Client : ClientStep(c) \/ Call(c))

Spec == Init /\ [][Next]_vars

\* Threads run, task functions return, and the owner's compare-and-swap on its
\* last task does not fail for ever.
Fairness ==
  /\ \A w \in Worker : WF_vars(WorkerStep(w)) /\ SF_vars(PopOwn(w))
  /\ \A c \in Client : WF_vars(ClientStep(c))

FairSpec == Spec /\ Fairness

-----------------------------------------------------------------------------
(* Properties. *)

TypeOK ==
  /\ running \in BOOLEAN
  /\ injector \in Seq(Task) /\ deque \in [Worker -> Seq(Task)]
  /\ task_map \subseteq Task
  /\ state \in [Task -> {"none", "pending", "running", "completed"}]
  /\ ref_count \in [Task -> 0..(Cardinality(Client) + 1)]
  /\ freed \subseteq Task
  /\ runs \in [Task -> Nat]
  /\ tasks_spawned \in Nat /\ tasks_completed \in Nat
  /\ worker \in [Worker -> [pc : WorkerPc, task : Task \union {None},
                            drained : 0..injector_batch, draining : BOOLEAN]]
  /\ client \in [Client -> [pc : ClientPc, task : Task \union {None}, seen : Nat]]

\* Nobody can reach an entry that was destroyed: no queue, no registered id, no
\* worker on its way to release it, and no client that waits on its mutex.
NoUseAfterFree ==
  \A t \in freed :
    /\ t \notin task_map
    /\ \A i \in 1..Len(injector) : injector[i] # t
    /\ \A w \in Worker : worker[w].task # t /\ \A i \in 1..Len(deque[w]) : deque[w][i] # t
    /\ \A c \in Client : client[c].task = t => client[c].pc = "count"

\* A task is run once, whoever steals it and even when its deque cannot grow,
\* and await returns only after that.
RunsOnce ==
  \A t \in Task :
    /\ runs[t] <= 1
    /\ (\E c \in Client : client[c].pc = "drop" /\ client[c].task = t) => runs[t] = 1

\* When everybody is done with it, the entry of a finished task is destroyed.
NoEntryLeaks ==
  \A t \in Task :
    ( /\ state[t] # "none" /\ t \notin task_map
      /\ \A w \in Worker : worker[w].task # t
      /\ \A c \in Client : client[c].task = t => client[c].pc = "count") => t \in freed

\* While the scheduler runs, every task spawned is run: none is lost between
\* the injector, the deques and the sleeping workers.
SpawnedIsRun == \A t \in Task : state[t] = "pending" ~> (runs[t] = 1 \/ ~running)

\* And whoever awaits one gets an answer.
AwaitReturns ==
  \A c \in Client : client[c].pc \in {"check", "wait"} ~> (client[c].pc = "idle" \/ ~running)
=============================================================================
