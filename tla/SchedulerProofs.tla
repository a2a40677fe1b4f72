-------------------------- MODULE SchedulerProofs --------------------------
(***************************************************************************)
(* Proofs about Scheduler, for any workers, clients and tasks: each task   *)
(* is in the custody of one holder and runs once; an entry's references    *)
(* are those of its holder and of the clients that await it, so that it is *)
(* destroyed when, and only when, the last of them is done with it.        *)
(***************************************************************************)
EXTENDS Scheduler, FiniteSetTheorems, SequenceTheorems, TLAPS

-----------------------------------------------------------------------------
(* Sequences without repetition. *)

Tasks(s) == {s[i] : i \in 1..Len(s)}

Distinct(s) == \A i, j \in 1..Len(s) : s[i] = s[j] => i = j

LEMMA TailOfDistinct ==
  ASSUME NEW s \in Seq(Task), s # <<>>
  PROVE  /\ Head(s) \in Tasks(s) /\ Tail(s) \in Seq(Task)
         /\ Distinct(s) => Distinct(Tail(s)) /\ Tasks(Tail(s)) = Tasks(s) \ {Head(s)}
<1>1. /\ Head(s) = s[1] /\ 1 \in 1..Len(s) /\ Len(Tail(s)) = Len(s) - 1
      /\ Tail(s) \in Seq(Task) /\ Len(s) \in Nat
      /\ \A i \in 1..(Len(s) - 1) : Tail(s)[i] = s[i + 1]
  OBVIOUS
<1>2. Head(s) \in Tasks(s)
  BY <1>1 DEF Tasks
<1>3. ASSUME Distinct(s) PROVE Distinct(Tail(s))
  <2>1. \A i, j \in 1..(Len(s) - 1) : s[i + 1] = s[j + 1] => i = j
    BY <1>1, <1>3 DEF Distinct
  <2>. QED  BY <1>1, <2>1 DEF Distinct
<1>4. ASSUME Distinct(s) PROVE Tasks(Tail(s)) = Tasks(s) \ {Head(s)}
  <2>1. \A i \in 1..Len(s) : i # 1 => s[i] # s[1] /\ i - 1 \in 1..(Len(s) - 1)
    BY <1>1, <1>4 DEF Distinct
  <2>2. \A i \in 1..(Len(s) - 1) : i + 1 \in 1..Len(s) /\ i + 1 # 1
    BY <1>1
  <2>3. \A i \in 1..Len(s) : i # 1 => Tail(s)[i - 1] = s[i]
    BY <1>1, <2>1
  <2>4. Tasks(Tail(s)) \subseteq Tasks(s) \ {Head(s)}
    BY <1>1, <2>1, <2>2 DEF Tasks
  <2>5. Tasks(s) \ {Head(s)} \subseteq Tasks(Tail(s))
    BY <1>1, <2>1, <2>3 DEF Tasks
  <2>. QED  BY <2>4, <2>5
<1>. QED  BY <1>1, <1>2, <1>3, <1>4

LEMMA FrontOfDistinct ==
  ASSUME NEW s \in Seq(Task), s # <<>>
  PROVE  LET last == s[Len(s)]
             front == SubSeq(s, 1, Len(s) - 1)
         IN  /\ last \in Tasks(s) /\ front \in Seq(Task)
             /\ Distinct(s) => Distinct(front) /\ Tasks(front) = Tasks(s) \ {last}
<1>. DEFINE front == SubSeq(s, 1, Len(s) - 1)
<1>1. /\ Len(s) \in 1..Len(s) /\ Len(front) = Len(s) - 1 /\ front \in Seq(Task)
      /\ Len(s) \in Nat /\ \A i \in 1..(Len(s) - 1) : front[i] = s[i] /\ i \in 1..Len(s)
  <2>1. Len(s) \in Nat /\ Len(s) > 0
    OBVIOUS
  <2>2. \A i \in 1..Len(s) : s[i] \in Task
    OBVIOUS
  <2>3. /\ front \in Seq(Task)
        /\ Len(front) = IF 1 <= Len(s) - 1 THEN (Len(s) - 1) - 1 + 1 ELSE 0
        /\ \A i \in 1..((Len(s) - 1) - 1 + 1) : front[i] = s[1 + i - 1]
    BY <2>1, <2>2, SubSeqProperties
  <2>. HIDE DEF front
  <2>4. Len(front) = Len(s) - 1
    <3>1. PICK n \in Nat : n = Len(s)
      BY <2>1
    <3>2. n > 0 /\ Len(front) = IF 1 <= n - 1 THEN (n - 1) - 1 + 1 ELSE 0
      BY <2>1, <2>3, <3>1
    <3>3. Len(front) = n - 1
      BY <3>2
    <3>. QED  BY <3>1, <3>3
  <2>5. \A i \in 1..(Len(s) - 1) : front[i] = s[i] /\ i \in 1..Len(s)
    BY <2>1, <2>3
  <2>6. Len(s) \in 1..Len(s)
    BY <2>1
  <2>. QED  BY <2>1, <2>3, <2>4, <2>5, <2>6
<1>. HIDE DEF front
<1>2. s[Len(s)] \in Tasks(s)
  BY <1>1 DEF Tasks
<1>3. ASSUME Distinct(s) PROVE Distinct(front)
  BY <1>1, <1>3 DEF Distinct
<1>4. ASSUME Distinct(s) PROVE Tasks(front) = Tasks(s) \ {s[Len(s)]}
  <2>1. \A i \in 1..(Len(s) - 1) : s[i] # s[Len(s)]
    BY <1>1, <1>4 DEF Distinct
  <2>2. \A i \in 1..Len(s) : i # Len(s) => i \in 1..(Len(s) - 1)
    BY <1>1
  <2>. QED  BY <1>1, <2>1, <2>2 DEF Tasks
<1>. QED  BY <1>1, <1>2, <1>3, <1>4 DEF front

LEMMA AppendToDistinct ==
  ASSUME NEW s \in Seq(Task), NEW t \in Task
  PROVE  /\ Append(s, t) \in Seq(Task) /\ Tasks(Append(s, t)) = Tasks(s) \union {t}
         /\ Distinct(s) /\ t \notin Tasks(s) => Distinct(Append(s, t))
<1>. DEFINE longer == Append(s, t)
<1>1. /\ longer \in Seq(Task) /\ Len(s) \in Nat /\ Len(longer) = Len(s) + 1
      /\ longer[Len(s) + 1] = t /\ \A i \in 1..Len(s) : longer[i] = s[i]
  OBVIOUS
<1>. HIDE DEF longer
<1>2. \A i : i \in 1..(Len(s) + 1) <=> i \in 1..Len(s) \/ i = Len(s) + 1
  BY <1>1
<1>3. Tasks(longer) = Tasks(s) \union {t}
  BY <1>1, <1>2 DEF Tasks
<1>4. ASSUME Distinct(s), t \notin Tasks(s) PROVE Distinct(longer)
  <2>1. \A i \in 1..Len(s) : s[i] # t
    BY <1>4 DEF Tasks
  <2>. QED  BY <1>1, <1>2, <1>4, <2>1 DEF Distinct
<1>. QED  BY <1>1, <1>3, <1>4 DEF longer

-----------------------------------------------------------------------------
(* Types, and who has a task in hand. *)

WorkerState == [pc : WorkerPc, task : Task \union {None},
                drained : 0..injector_batch, draining : BOOLEAN]
ClientState == [pc : ClientPc, task : Task \union {None}, seen : Nat]

Busy == {"push", "execute", "run", "complete", "unregister", "release"}
Awaiting == {"check", "wait", "drop"}

TypeInv ==
  /\ running \in BOOLEAN
  /\ injector \in Seq(Task)
  /\ deque \in [Worker -> Seq(Task)]
  /\ task_map \subseteq Task
  /\ freed \subseteq Task
  /\ state \in [Task -> {"none", "pending", "running", "completed"}]
  /\ ref_count \in [Task -> Int]
  /\ runs \in [Task -> Nat]
  /\ tasks_spawned \in Nat /\ tasks_completed \in Nat
  /\ worker \in [Worker -> WorkerState]
  /\ client \in [Client -> ClientState]
  /\ \A w \in Worker : worker[w].pc \in Busy <=> worker[w].task # None
  /\ \A c \in Client :
       client[c].pc \in Awaiting \union {"enqueue", "count"} <=> client[c].task # None

LEMMA InitTypes == Init => TypeInv
BY SchedulerAssumption DEF Init, TypeInv, WorkerState, ClientState, WorkerPc, ClientPc, Busy, Awaiting

\* What a worker's step does to it; the other workers stay.
WorkerTo(w, pc, task) ==
  /\ worker' \in [Worker -> WorkerState]
  /\ worker'[w].pc = pc /\ worker'[w].task = task
  /\ \A v \in Worker \ {w} : worker'[v] = worker[v]

ClientTo(c, pc, task) ==
  /\ client' \in [Client -> ClientState]
  /\ client'[c].pc = pc /\ client'[c].task = task
  /\ \A d \in Client \ {c} : client'[d] = client[d]

LEMMA gotoMoves ==
  ASSUME TypeInv, NEW w \in Worker, NEW pc \in WorkerPc, goto(w, pc)
  PROVE  WorkerTo(w, pc, worker[w].task)
BY DEF goto, WorkerTo, TypeInv, WorkerState

LEMMA obtainedMoves ==
  ASSUME TypeInv, NEW w \in Worker, NEW t \in Task, obtained(w, t)
  PROVE  WorkerTo(w, "execute", t)
BY ZenonT(40) DEF obtained, WorkerTo, TypeInv, WorkerState, WorkerPc

\* Changes of the two fields that count, pc and task.
LEMMA WorkerSets ==
  ASSUME TypeInv, NEW w \in Worker, NEW pc \in WorkerPc, NEW task \in Task \union {None}
  PROVE  /\ worker' = [worker EXCEPT ![w].pc = pc, ![w].task = task] => WorkerTo(w, pc, task)
         /\ \A drained \in 0..injector_batch :
              worker' = [worker EXCEPT ![w].pc = pc, ![w].task = task, ![w].drained = drained]
                => WorkerTo(w, pc, task)
<1>1. worker \in [Worker -> WorkerState]
  BY DEF TypeInv
<1>2. ASSUME worker' = [worker EXCEPT ![w].pc = pc, ![w].task = task] PROVE WorkerTo(w, pc, task)
  BY <1>1, <1>2 DEF WorkerTo, WorkerState
<1>3. ASSUME NEW drained \in 0..injector_batch,
             worker' = [worker EXCEPT ![w].pc = pc, ![w].task = task, ![w].drained = drained]
      PROVE  WorkerTo(w, pc, task)
  BY <1>1, <1>3 DEF WorkerTo, WorkerState
<1>. QED  BY <1>2, <1>3

LEMMA ClientSets ==
  ASSUME TypeInv, NEW c \in Client, NEW pc \in ClientPc, NEW task \in Task \union {None}
  PROVE  /\ client' = [client EXCEPT ![c].pc = pc, ![c].task = task] => ClientTo(c, pc, task)
         /\ client' = [client EXCEPT ![c].pc = pc] => ClientTo(c, pc, client[c].task)
         /\ \A seen \in Nat :
              client' = [client EXCEPT ![c].pc = pc, ![c].seen = seen]
                => ClientTo(c, pc, client[c].task)
<1>1. client \in [Client -> ClientState]
  BY DEF TypeInv
<1>2. ASSUME client' = [client EXCEPT ![c].pc = pc, ![c].task = task] PROVE ClientTo(c, pc, task)
  BY <1>1, <1>2 DEF ClientTo, ClientState
<1>3. ASSUME client' = [client EXCEPT ![c].pc = pc] PROVE ClientTo(c, pc, client[c].task)
  BY <1>1, <1>3 DEF ClientTo, ClientState
<1>4. ASSUME NEW seen \in Nat, client' = [client EXCEPT ![c].pc = pc, ![c].seen = seen]
      PROVE  ClientTo(c, pc, client[c].task)
  BY <1>1, <1>4 DEF ClientTo, ClientState
<1>. QED  BY <1>2, <1>3, <1>4

LEMMA wokenMoves ==
  ASSUME TypeInv, worker' = woken(worker)
  PROVE  /\ worker' \in [Worker -> WorkerState]
         /\ \A w \in Worker : /\ worker'[w].task = worker[w].task
                              /\ worker'[w].pc \in Busy <=> worker[w].pc \in Busy
                              /\ worker[w].pc # "waiting" => worker'[w].pc = worker[w].pc
                              /\ worker'[w].pc \in {worker[w].pc, "loop"}
BY ZenonT(40) DEF woken, TypeInv, WorkerState, WorkerPc, Busy

\* Where each step of a worker takes it.
LEMMA WorkerMoves ==
  ASSUME TypeInv, NEW w \in Worker
  PROVE  /\ Loop(w) => \E pc \in {"pop", "exited"} : WorkerTo(w, pc, worker[w].task)
         /\ PopOwn(w) => WorkerTo(w, "execute", deque[w][Len(deque[w])])
         /\ PopNull(w) => WorkerTo(w, "drain", worker[w].task)
         /\ DrainOne(w) => WorkerTo(w, "push", Head(injector))
         /\ DrainPush(w) => WorkerTo(w, "drain", None)
         /\ DrainInline(w) => WorkerTo(w, "execute", worker[w].task)
         /\ DrainEnds(w) => \E pc \in {"loop", "steal"} : WorkerTo(w, pc, worker[w].task)
         /\ \A v \in Worker : Steal(w, v) => WorkerTo(w, "execute", Head(deque[v]))
         /\ StealNothing(w) => WorkerTo(w, "sleep", worker[w].task)
         /\ Sleep(w) => \E pc \in {"waiting", "exited"} : WorkerTo(w, pc, worker[w].task)
         /\ TimeOut(w) => WorkerTo(w, "loop", worker[w].task)
         /\ Execute(w) => WorkerTo(w, "run", worker[w].task)
         /\ RunFunc(w) => WorkerTo(w, "complete", worker[w].task)
         /\ Complete(w) => WorkerTo(w, "unregister", worker[w].task)
         /\ Unregister(w) => WorkerTo(w, "release", worker[w].task)
         /\ Release(w) => \E pc \in {"drain", "loop"} : WorkerTo(w, pc, None)
<1>1. Loop(w) => \E pc \in {"pop", "exited"} : WorkerTo(w, pc, worker[w].task)
  BY gotoMoves DEF Loop, WorkerPc
<1>2. PopOwn(w) => WorkerTo(w, "execute", deque[w][Len(deque[w])])
  <2>1. ASSUME PopOwn(w) PROVE deque[w][Len(deque[w])] \in Task
    BY <2>1 DEF PopOwn, TypeInv
  <2>. QED  BY <2>1, obtainedMoves DEF PopOwn
<1>3. PopNull(w) => WorkerTo(w, "drain", worker[w].task)
  <2>1. ASSUME PopNull(w)
        PROVE  worker' = [worker EXCEPT ![w].pc = "drain", ![w].drained = 0, ![w].draining = TRUE]
    BY <2>1 DEF PopNull
  <2>2. worker \in [Worker -> WorkerState] /\ 0 \in 0..injector_batch
    BY SchedulerAssumption DEF TypeInv
  <2>. QED  BY <2>1, <2>2 DEF WorkerTo, WorkerState, WorkerPc
<1>4. DrainOne(w) => WorkerTo(w, "push", Head(injector))
  <2>1. ASSUME DrainOne(w)
        PROVE  Head(injector) \in Task /\ worker[w].drained + 1 \in 0..injector_batch
    <3>1. worker[w] \in WorkerState /\ injector \in Seq(Task)
      BY DEF TypeInv
    <3>2. injector # <<>> /\ worker[w].drained < injector_batch
      BY <2>1 DEF DrainOne
    <3>. QED  BY <3>1, <3>2, SchedulerAssumption DEF WorkerState
  <2>2. ASSUME DrainOne(w)
        PROVE  worker' = [worker EXCEPT ![w].pc = "push", ![w].task = Head(injector),
                                        ![w].drained = worker[w].drained + 1]
    BY <2>2, Zenon DEF DrainOne
  <2>. QED  BY <2>1, <2>2, WorkerSets DEF WorkerPc
<1>5. DrainPush(w) => WorkerTo(w, "drain", None)
  BY WorkerSets DEF DrainPush, WorkerPc
<1>6. DrainInline(w) => WorkerTo(w, "execute", worker[w].task)
  BY gotoMoves DEF DrainInline, WorkerPc
<1>7. DrainEnds(w) => \E pc \in {"loop", "steal"} : WorkerTo(w, pc, worker[w].task)
  <2>1. ASSUME DrainEnds(w)
        PROVE  \E pc \in {"loop", "steal"} :
                 worker' = [worker EXCEPT ![w].pc = pc, ![w].draining = FALSE]
    BY <2>1 DEF DrainEnds
  <2>2. ASSUME NEW pc \in {"loop", "steal"},
               worker' = [worker EXCEPT ![w].pc = pc, ![w].draining = FALSE]
        PROVE  WorkerTo(w, pc, worker[w].task)
    BY <2>2, ZenonT(40) DEF WorkerTo, TypeInv, WorkerState, WorkerPc
  <2>. QED  BY <2>1, <2>2
<1>8. \A v \in Worker : Steal(w, v) => WorkerTo(w, "execute", Head(deque[v]))
  <2>1. ASSUME NEW v \in Worker, Steal(w, v) PROVE Head(deque[v]) \in Task
    BY <2>1 DEF Steal, TypeInv
  <2>. QED  BY <2>1, obtainedMoves DEF Steal
<1>9. StealNothing(w) => WorkerTo(w, "sleep", worker[w].task)
  BY gotoMoves DEF StealNothing, WorkerPc
<1>10. Sleep(w) => \E pc \in {"waiting", "exited"} : WorkerTo(w, pc, worker[w].task)
  BY gotoMoves DEF Sleep, WorkerPc
<1>11. TimeOut(w) => WorkerTo(w, "loop", worker[w].task)
  BY gotoMoves DEF TimeOut, WorkerPc
<1>12. Execute(w) => WorkerTo(w, "run", worker[w].task)
  BY gotoMoves DEF Execute, WorkerPc
<1>13. RunFunc(w) => WorkerTo(w, "complete", worker[w].task)
  BY gotoMoves DEF RunFunc, WorkerPc
<1>14. Complete(w) => WorkerTo(w, "unregister", worker[w].task)
  BY gotoMoves DEF Complete, WorkerPc
<1>15. Unregister(w) => WorkerTo(w, "release", worker[w].task)
  BY gotoMoves DEF Unregister, WorkerPc
<1>16. Release(w) => \E pc \in {"drain", "loop"} : WorkerTo(w, pc, None)
  <2>1. ASSUME Release(w)
        PROVE  \E pc \in {"drain", "loop"} :
                 worker' = [worker EXCEPT ![w].pc = pc, ![w].task = None]
    BY <2>1 DEF Release
  <2>2. ASSUME NEW pc \in {"drain", "loop"},
               worker' = [worker EXCEPT ![w].pc = pc, ![w].task = None]
        PROVE  WorkerTo(w, pc, None)
    BY <2>2, ZenonT(40) DEF WorkerTo, TypeInv, WorkerState, WorkerPc
  <2>. QED  BY <2>1, <2>2
<1>. QED
  BY <1>1, <1>2, <1>3, <1>4, <1>5, <1>6, <1>7, <1>8, <1>9, <1>10, <1>11, <1>12, <1>13, <1>14,
     <1>15, <1>16

\* Where each step of a client takes it.
LEMMA ClientMoves ==
  ASSUME TypeInv, NEW c \in Client
  PROVE  /\ \A t \in Task : /\ Spawn(c, t) => ClientTo(c, "enqueue", t)
                            /\ Await(c, t) => ClientTo(c, "check", t)
         /\ Enqueue(c) => ClientTo(c, "count", client[c].task)
         /\ CountSpawned(c) => ClientTo(c, "idle", None)
         /\ AwaitCheck(c) => \E pc \in {"drop", "wait"} : ClientTo(c, pc, client[c].task)
         /\ AwaitDrop(c) => ClientTo(c, "idle", None)
         /\ StatsBegin(c) => ClientTo(c, "stats", client[c].task)
         /\ StatsEnd(c) => \E pc \in {"idle", "underflow"} : ClientTo(c, pc, client[c].task)
         /\ DestroyBegin(c) => ClientTo(c, "destroying", client[c].task)
         /\ DestroyEnd(c) => ClientTo(c, "destroyed", client[c].task)
<1>1. \A t \in Task : /\ Spawn(c, t) => ClientTo(c, "enqueue", t)
                      /\ Await(c, t) => ClientTo(c, "check", t)
  BY ClientSets DEF Spawn, Await, ClientPc
<1>2. /\ Enqueue(c) => ClientTo(c, "count", client[c].task)
      /\ CountSpawned(c) => ClientTo(c, "idle", None)
      /\ AwaitDrop(c) => ClientTo(c, "idle", None)
  BY ClientSets DEF Enqueue, CountSpawned, AwaitDrop, ClientPc
<1>3. AwaitCheck(c) => \E pc \in {"drop", "wait"} : ClientTo(c, pc, client[c].task)
  BY ClientSets DEF AwaitCheck, ClientPc
<1>4. /\ StatsBegin(c) => ClientTo(c, "stats", client[c].task)
      /\ DestroyBegin(c) => ClientTo(c, "destroying", client[c].task)
      /\ DestroyEnd(c) => ClientTo(c, "destroyed", client[c].task)
  <2>1. tasks_spawned \in Nat
    BY DEF TypeInv
  <2>. QED  BY <2>1, ClientSets DEF StatsBegin, DestroyBegin, DestroyEnd, ClientPc
<1>5. StatsEnd(c) => \E pc \in {"idle", "underflow"} : ClientTo(c, pc, client[c].task)
  <2>1. ASSUME StatsEnd(c)
        PROVE  \E pc \in {"idle", "underflow"} :
                 client' = [client EXCEPT ![c].pc = pc, ![c].seen = 0]
    BY <2>1 DEF StatsEnd
  <2>2. ASSUME NEW pc \in {"idle", "underflow"},
               client' = [client EXCEPT ![c].pc = pc, ![c].seen = 0]
        PROVE  ClientTo(c, pc, client[c].task)
    BY <2>2 DEF ClientTo, TypeInv, ClientState, ClientPc
  <2>. QED  BY <2>1, <2>2
<1>. QED  BY <1>1, <1>2, <1>3, <1>4, <1>5

\* The broadcast at the end of a task moves clients that wait, and nothing else of them.
LEMMA awakenedMoves ==
  ASSUME TypeInv, NEW t \in Task, client' = awakened(t)
  PROVE  /\ client' \in [Client -> ClientState]
         /\ \A c \in Client : /\ client'[c].task = client[c].task
                              /\ \/ client'[c].pc = client[c].pc
                                 \/ client[c].pc = "wait" /\ client'[c].pc = "check"
BY ZenonT(40) DEF awakened, TypeInv, ClientState, ClientPc

\* The two parts of TypeInv, so that a step needs to look only at what it changes.
DataTypes ==
  /\ running \in BOOLEAN
  /\ injector \in Seq(Task)
  /\ deque \in [Worker -> Seq(Task)]
  /\ task_map \subseteq Task
  /\ freed \subseteq Task
  /\ state \in [Task -> {"none", "pending", "running", "completed"}]
  /\ ref_count \in [Task -> Int]
  /\ runs \in [Task -> Nat]
  /\ tasks_spawned \in Nat /\ tasks_completed \in Nat

WorkerTypes ==
  /\ worker \in [Worker -> WorkerState]
  /\ \A w \in Worker : worker[w].pc \in Busy <=> worker[w].task # None

ClientTypes ==
  /\ client \in [Client -> ClientState]
  /\ \A c \in Client :
       client[c].pc \in Awaiting \union {"enqueue", "count"} <=> client[c].task # None

LEMMA TypeParts == TypeInv <=> DataTypes /\ WorkerTypes /\ ClientTypes
BY DEF TypeInv, DataTypes, WorkerTypes, ClientTypes

\* The task of a busy worker, and of a client in a call about one.
LEMMA InHand ==
  ASSUME TypeInv
  PROVE  /\ \A w \in Worker : worker[w].pc \in Busy => worker[w].task \in Task
         /\ \A c \in Client : client[c].pc \in Awaiting \union {"enqueue", "count"}
                                => client[c].task \in Task
BY DEF TypeInv, WorkerState, ClientState

LEMMA WorkerToTypes ==
  ASSUME WorkerTypes, NEW w \in Worker, NEW pc, NEW task, WorkerTo(w, pc, task),
         pc \in Busy <=> task # None
  PROVE  WorkerTypes'
<1>1. worker' \in [Worker -> WorkerState]
  BY DEF WorkerTo
<1>2. ASSUME NEW v \in Worker PROVE worker'[v].pc \in Busy <=> worker'[v].task # None
  <2>1. CASE v = w
    BY <2>1 DEF WorkerTo
  <2>2. CASE v # w
    BY <2>2 DEF WorkerTo, WorkerTypes
  <2>. QED  BY <2>1, <2>2
<1>. QED  BY <1>1, <1>2 DEF WorkerTypes

LEMMA ClientToTypes ==
  ASSUME ClientTypes, NEW c \in Client, NEW pc, NEW task, ClientTo(c, pc, task),
         pc \in Awaiting \union {"enqueue", "count"} <=> task # None
  PROVE  ClientTypes'
<1>1. client' \in [Client -> ClientState]
  BY DEF ClientTo
<1>2. ASSUME NEW d \in Client
      PROVE  client'[d].pc \in Awaiting \union {"enqueue", "count"} <=> client'[d].task # None
  <2>1. CASE d = c
    BY <2>1 DEF ClientTo
  <2>2. CASE d # c
    BY <2>2 DEF ClientTo, ClientTypes
  <2>. QED  BY <2>1, <2>2
<1>. QED  BY <1>1, <1>2 DEF ClientTypes

LEMMA wokenTypes ==
  ASSUME TypeInv, worker' = woken(worker)
  PROVE  WorkerTypes'
BY wokenMoves DEF TypeInv, WorkerTypes

LEMMA awakenedTypes ==
  ASSUME TypeInv, NEW t \in Task, client' = awakened(t)
  PROVE  ClientTypes'
BY awakenedMoves DEF TypeInv, ClientTypes, Awaiting

LEMMA WorkerStepTypes ==
  ASSUME TypeInv, NEW w \in Worker, WorkerStep(w)
  PROVE  TypeInv'
<1>. USE DEF Busy
<1>1. DataTypes /\ WorkerTypes /\ ClientTypes
  BY TypeParts
<1>2. WorkerTypes'
  <2>1. worker[w].pc \in Busy <=> worker[w].task # None
    BY <1>1 DEF WorkerTypes
  <2>2. CASE \/ Loop(w) \/ PopNull(w) \/ DrainInline(w) \/ DrainEnds(w) \/ StealNothing(w)
             \/ Sleep(w) \/ TimeOut(w)
    BY <1>1, <2>1, <2>2, WorkerMoves, WorkerToTypes
    DEF Loop, PopNull, DrainInline, DrainEnds, StealNothing, Sleep, TimeOut
  <2>3. CASE Execute(w) \/ RunFunc(w) \/ Complete(w) \/ Unregister(w)
    BY <1>1, <2>1, <2>3, WorkerMoves, WorkerToTypes DEF Execute, RunFunc, Complete, Unregister
  <2>4. CASE DrainPush(w) \/ Release(w)
    BY <1>1, <2>1, <2>4, WorkerMoves, WorkerToTypes DEF DrainPush, Release
  <2>5. CASE PopOwn(w)
    <3>1. deque[w][Len(deque[w])] # None
      BY <2>5, SchedulerAssumption DEF PopOwn, TypeInv
    <3>. QED  BY <1>1, <2>5, <3>1, WorkerMoves, WorkerToTypes
  <2>6. CASE DrainOne(w)
    <3>1. Head(injector) # None
      BY <2>6, SchedulerAssumption DEF DrainOne, TypeInv
    <3>. QED  BY <1>1, <2>6, <3>1, WorkerMoves, WorkerToTypes
  <2>7. ASSUME NEW v \in Worker, Steal(w, v) PROVE WorkerTypes'
    <3>1. Head(deque[v]) # None
      BY <2>7, SchedulerAssumption DEF Steal, TypeInv
    <3>. QED  BY <1>1, <2>7, <3>1, WorkerMoves, WorkerToTypes
  <2>. QED  BY <2>2, <2>3, <2>4, <2>5, <2>6, <2>7 DEF WorkerStep
<1>3. ClientTypes'
  <2>1. CASE Complete(w)
    BY <2>1, InHand, awakenedTypes DEF Complete
  <2>2. CASE UNCHANGED client
    BY <1>1, <2>2 DEF ClientTypes
  <2>. QED
    BY <2>1, <2>2
    DEF WorkerStep, Loop, PopOwn, PopNull, DrainOne, DrainPush, DrainInline, DrainEnds, Steal,
        StealNothing, Sleep, TimeOut, Execute, RunFunc, Unregister, Release
<1>4. DataTypes'
  <2>1. CASE \/ Loop(w) \/ PopNull(w) \/ DrainInline(w) \/ DrainEnds(w) \/ StealNothing(w)
             \/ Sleep(w) \/ TimeOut(w)
    BY <1>1, <2>1
    DEF DataTypes, Loop, PopNull, DrainInline, DrainEnds, StealNothing, Sleep, TimeOut, queues,
        entries, counts
  <2>2. CASE PopOwn(w)
    <3>1. SubSeq(deque[w], 1, Len(deque[w]) - 1) \in Seq(Task)
      BY <1>1, <2>2, FrontOfDistinct DEF DataTypes, PopOwn
    <3>. QED  BY <1>1, <2>2, <3>1 DEF DataTypes, PopOwn, entries, counts
  <2>3. CASE DrainOne(w)
    BY <1>1, <2>3 DEF DataTypes, DrainOne, entries, counts
  <2>4. CASE DrainPush(w)
    BY <1>1, <2>4, InHand DEF DataTypes, DrainPush, entries, counts
  <2>5. ASSUME NEW v \in Worker, Steal(w, v) PROVE DataTypes'
    BY <1>1, <2>5 DEF DataTypes, Steal, entries, counts
  <2>6. CASE Execute(w) \/ Complete(w)
    BY <1>1, <2>6 DEF DataTypes, Execute, Complete, queues, counts
  <2>7. CASE RunFunc(w)
    BY <1>1, <2>7, InHand DEF DataTypes, RunFunc, queues
  <2>8. CASE Unregister(w)
    BY <1>1, <2>8 DEF DataTypes, Unregister, queues, counts
  <2>9. CASE Release(w)
    BY <1>1, <2>9, InHand DEF DataTypes, Release, dropRef, queues, counts
  <2>. QED  BY <2>1, <2>2, <2>3, <2>4, <2>5, <2>6, <2>7, <2>8, <2>9 DEF WorkerStep
<1>. QED  BY <1>2, <1>3, <1>4, TypeParts, PTL

LEMMA ClientActs ==
  ASSUME NEW c \in Client, ClientStep(c) \/ Call(c)
  PROVE  \/ \E t \in Task : Spawn(c, t) \/ Await(c, t)
         \/ Enqueue(c) \/ CountSpawned(c) \/ AwaitCheck(c) \/ AwaitDrop(c) \/ StatsBegin(c)
         \/ StatsEnd(c) \/ Stop(c) \/ DestroyBegin(c) \/ DestroyEnd(c)
BY DEF ClientStep, Call

LEMMA ClientStepTypes ==
  ASSUME TypeInv, NEW c \in Client, ClientStep(c) \/ Call(c)
  PROVE  TypeInv'
<1>1. DataTypes /\ WorkerTypes /\ ClientTypes
  BY TypeParts
<1>2. client[c].pc \in Awaiting \union {"enqueue", "count"} <=> client[c].task # None
  BY <1>1 DEF ClientTypes
<1>3. None \notin Task
  BY SchedulerAssumption
<1>4. ClientTypes'
  <2>1. ASSUME NEW t \in Task, Spawn(c, t) \/ Await(c, t) PROVE ClientTypes'
    BY <1>1, <1>3, <2>1, ClientMoves, ClientToTypes DEF Awaiting
  <2>2. CASE Enqueue(c) \/ CountSpawned(c) \/ AwaitCheck(c) \/ AwaitDrop(c)
    BY <1>1, <1>2, <2>2, ClientMoves, ClientToTypes
    DEF Awaiting, Enqueue, CountSpawned, AwaitCheck, AwaitDrop
  <2>3. CASE StatsBegin(c) \/ StatsEnd(c) \/ DestroyBegin(c) \/ DestroyEnd(c)
    BY <1>1, <1>2, <2>3, ClientMoves, ClientToTypes
    DEF Awaiting, StatsBegin, StatsEnd, DestroyBegin, DestroyEnd
  <2>4. CASE Stop(c)
    BY <1>1, <2>4 DEF Stop, ClientTypes
  <2>. QED  BY <2>1, <2>2, <2>3, <2>4, ClientActs
<1>5. WorkerTypes'
  <2>1. CASE worker' = woken(worker)
    BY <2>1, wokenTypes
  <2>2. CASE UNCHANGED worker
    BY <1>1, <2>2 DEF WorkerTypes
  <2>. QED
    BY <2>1, <2>2, ClientActs
    DEF Spawn, Await, Enqueue, CountSpawned, AwaitCheck, AwaitDrop, StatsBegin, StatsEnd, Stop,
        DestroyBegin, DestroyEnd
<1>6. DataTypes'
  <2>1. ASSUME NEW t \in Task, Spawn(c, t) PROVE DataTypes'
    BY <1>1, <2>1 DEF DataTypes, Spawn, queues, counts
  <2>2. ASSUME NEW t \in Task, Await(c, t) PROVE DataTypes'
    BY <1>1, <2>2 DEF DataTypes, Await, awaitRef, queues, counts
  <2>3. CASE Enqueue(c)
    BY <1>1, <2>3, InHand DEF DataTypes, Enqueue, linked, entries, counts
  <2>4. CASE CountSpawned(c)
    BY <1>1, <2>4 DEF DataTypes, CountSpawned, queues, entries
  <2>5. CASE AwaitCheck(c) \/ StatsBegin(c) \/ StatsEnd(c)
    BY <1>1, <2>5 DEF DataTypes, AwaitCheck, StatsBegin, StatsEnd, queues, entries, counts
  <2>6. CASE AwaitDrop(c)
    BY <1>1, <2>6, InHand DEF DataTypes, AwaitDrop, dropRef, queues, counts, Awaiting
  <2>7. CASE Stop(c) \/ DestroyBegin(c)
    BY <1>1, <2>7 DEF DataTypes, Stop, DestroyBegin, queues, entries, counts
  <2>8. CASE DestroyEnd(c)
    <3>1. ref_count' \in [Task -> Int]
      BY <1>1, <2>8 DEF DataTypes, DestroyEnd
    <3>2. injector' \in Seq(Task) /\ deque' \in [Worker -> Seq(Task)]
      BY <2>8 DEF DestroyEnd
    <3>. QED  BY <1>1, <2>8, <3>1, <3>2 DEF DataTypes, DestroyEnd, counts
  <2>. QED  BY <2>1, <2>2, <2>3, <2>4, <2>5, <2>6, <2>7, <2>8, ClientActs
<1>. QED  BY <1>4, <1>5, <1>6, TypeParts, PTL

-----------------------------------------------------------------------------
(* Custody: a task that was spawned and not yet released is in one place.  *)

\* What a worker has, in its deque or in hand, and what a client is about to enqueue.
Own(w) == Tasks(deque[w]) \union ({worker[w].task} \ {None})
Hands(c) == IF client[c].pc = "enqueue" THEN {client[c].task} ELSE {}

InCustody(t) ==
  \/ t \in Tasks(injector)
  \/ \E w \in Worker : t \in Own(w)
  \/ \E c \in Client : t \in Hands(c)

NoRepeats ==
  /\ Distinct(injector)
  /\ \A w \in Worker : Distinct(deque[w]) /\ worker[w].task \notin Tasks(deque[w])

Disjoint ==
  /\ \A w \in Worker : Own(w) \intersect Tasks(injector) = {}
  /\ \A v, w \in Worker : v # w => Own(v) \intersect Own(w) = {}
  /\ \A c \in Client : Hands(c) \intersect Tasks(injector) = {}
  /\ \A c \in Client, w \in Worker : Hands(c) \intersect Own(w) = {}
  /\ \A c, d \in Client : c # d => Hands(c) \intersect Hands(d) = {}

\* The change of custody in each kind of step.  Nothing changes hands:
SameHands ==
  /\ Tasks(injector)' = Tasks(injector)
  /\ \A w \in Worker : Own(w)' = Own(w)
  /\ \A c \in Client : Hands(c)' = Hands(c)

\* a worker takes a task from the injector,
Drained(w, t) ==
  /\ t \in Tasks(injector) /\ Tasks(injector)' = Tasks(injector) \ {t}
  /\ Own(w)' = Own(w) \union {t}
  /\ \A v \in Worker \ {w} : Own(v)' = Own(v)
  /\ \A c \in Client : Hands(c)' = Hands(c)

\* or from another worker,
Stolen(w, victim, t) ==
  /\ w # victim /\ t \in Own(victim)
  /\ Own(victim)' = Own(victim) \ {t} /\ Own(w)' = Own(w) \union {t}
  /\ \A v \in Worker \ {w, victim} : Own(v)' = Own(v)
  /\ Tasks(injector)' = Tasks(injector)
  /\ \A c \in Client : Hands(c)' = Hands(c)

\* or releases the task it has in hand;
Released(w, t) ==
  /\ t \in Own(w) /\ Own(w)' = Own(w) \ {t}
  /\ \A v \in Worker \ {w} : Own(v)' = Own(v)
  /\ Tasks(injector)' = Tasks(injector)
  /\ \A c \in Client : Hands(c)' = Hands(c)

\* a client makes a task,
Made(c, t) ==
  /\ Hands(c)' = {t}
  /\ \A d \in Client \ {c} : Hands(d)' = Hands(d)
  /\ Tasks(injector)' = Tasks(injector)
  /\ \A w \in Worker : Own(w)' = Own(w)

\* or hands it to the injector;
Handed(c, t) ==
  /\ Hands(c) = {t} /\ Hands(c)' = {} /\ Tasks(injector)' = Tasks(injector) \union {t}
  /\ \A d \in Client \ {c} : Hands(d)' = Hands(d)
  /\ \A w \in Worker : Own(w)' = Own(w)

\* the scheduler is destroyed.
Dropped ==
  /\ Tasks(injector)' = {}
  /\ \A w \in Worker : Own(w)' = {}
  /\ \A c \in Client : Hands(c) = {} /\ Hands(c)' = {}

LEMMA DisjointStays ==
  ASSUME Disjoint
  PROVE  /\ SameHands => Disjoint'
         /\ \A w \in Worker, t \in Task : Drained(w, t) \/ Released(w, t) => Disjoint'
         /\ \A w, v \in Worker, t \in Task : Stolen(w, v, t) => Disjoint'
         /\ \A c \in Client, t \in Task : Made(c, t) /\ ~InCustody(t) => Disjoint'
         /\ \A c \in Client, t \in Task : Handed(c, t) => Disjoint'
         /\ Dropped => Disjoint'
<1>1. SameHands => Disjoint'
  BY DEF Disjoint, SameHands
<1>2. ASSUME NEW w \in Worker, NEW t \in Task, Drained(w, t) PROVE Disjoint'
  <2>1. \A v \in Worker : t \notin Own(v)
    BY <1>2 DEF Disjoint, Drained
  <2>2. \A c \in Client : t \notin Hands(c)
    BY <1>2 DEF Disjoint, Drained
  <2>. QED  BY <1>2, <2>1, <2>2 DEF Disjoint, Drained
<1>3. ASSUME NEW w \in Worker, NEW t \in Task, Released(w, t) PROVE Disjoint'
  BY <1>3 DEF Disjoint, Released
<1>4. ASSUME NEW w \in Worker, NEW v \in Worker, NEW t \in Task, Stolen(w, v, t) PROVE Disjoint'
  <2>1. \A u \in Worker \ {v} : t \notin Own(u)
    BY <1>4 DEF Disjoint, Stolen
  <2>2. t \notin Tasks(injector) /\ \A c \in Client : t \notin Hands(c)
    BY <1>4 DEF Disjoint, Stolen
  <2>. QED  BY <1>4, <2>1, <2>2 DEF Disjoint, Stolen
<1>5. ASSUME NEW c \in Client, NEW t \in Task, Made(c, t), ~InCustody(t) PROVE Disjoint'
  BY <1>5 DEF Disjoint, Made, InCustody
<1>6. ASSUME NEW c \in Client, NEW t \in Task, Handed(c, t) PROVE Disjoint'
  <2>1. \A w \in Worker : t \notin Own(w)
    BY <1>6 DEF Disjoint, Handed
  <2>2. \A d \in Client \ {c} : t \notin Hands(d)
    BY <1>6 DEF Disjoint, Handed
  <2>. QED  BY <1>6, <2>1, <2>2 DEF Disjoint, Handed
<1>7. Dropped => Disjoint'
  BY DEF Disjoint, Dropped
<1>. QED  BY <1>1, <1>2, <1>3, <1>4, <1>5, <1>6, <1>7

-----------------------------------------------------------------------------
(* Which step changes custody how. *)

QuietStep(w) ==
  \/ Loop(w) \/ PopNull(w) \/ DrainInline(w) \/ DrainEnds(w) \/ StealNothing(w) \/ Sleep(w)
  \/ TimeOut(w) \/ Execute(w) \/ RunFunc(w) \/ Complete(w) \/ Unregister(w)

LEMMA QuietSteps ==
  ASSUME TypeInv, NEW w \in Worker, QuietStep(w)
  PROVE  /\ injector' = injector /\ deque' = deque
         /\ \E pc \in WorkerPc : WorkerTo(w, pc, worker[w].task)
         /\ \A c \in Client : Hands(c)' = Hands(c)
<1>1. injector' = injector /\ deque' = deque
  BY DEF QuietStep, Loop, PopNull, DrainInline, DrainEnds, StealNothing, Sleep, TimeOut, Execute,
         RunFunc, Complete, Unregister, queues
<1>2. \E pc \in WorkerPc : WorkerTo(w, pc, worker[w].task)
  BY WorkerMoves DEF QuietStep, WorkerPc
<1>3. \A c \in Client : Hands(c)' = Hands(c)
  <2>1. CASE Complete(w)
    <3>1. client' = awakened(worker[w].task) /\ worker[w].task \in Task
      BY <2>1, InHand DEF Complete, Busy
    <3>. QED  BY <3>1, awakenedMoves DEF Hands
  <2>2. CASE client' = client
    BY <2>2 DEF Hands
  <2>. QED
    BY <2>1, <2>2
    DEF QuietStep, Loop, PopNull, DrainInline, DrainEnds, StealNothing, Sleep, TimeOut, Execute,
        RunFunc, Unregister
<1>. QED  BY <1>1, <1>2, <1>3

\* Worker w moves; what the others have stays theirs.
LEMMA OthersOwn ==
  ASSUME NEW w \in Worker, NEW pc, NEW task, WorkerTo(w, pc, task), NEW v \in Worker \ {w},
         deque'[v] = deque[v]
  PROVE  Own(v)' = Own(v) /\ worker'[v].task = worker[v].task
BY DEF WorkerTo, Own

LEMMA QuietCustody ==
  ASSUME TypeInv, NoRepeats, NEW w \in Worker, QuietStep(w)
  PROVE  SameHands /\ NoRepeats'
<1>1. PICK pc \in WorkerPc : WorkerTo(w, pc, worker[w].task)
  BY QuietSteps
<1>2. \A v \in Worker : worker'[v].task = worker[v].task
  BY <1>1 DEF WorkerTo
<1>3. injector' = injector /\ deque' = deque /\ \A c \in Client : Hands(c)' = Hands(c)
  BY QuietSteps
<1>4. SameHands
  BY <1>2, <1>3 DEF SameHands, Own
<1>5. NoRepeats'
  BY <1>2, <1>3 DEF NoRepeats
<1>. QED  BY <1>4, <1>5

LEMMA PopCustody ==
  ASSUME TypeInv, NoRepeats, NEW w \in Worker, PopOwn(w)
  PROVE  SameHands /\ NoRepeats'
<1>. DEFINE t == deque[w][Len(deque[w])]
            front == SubSeq(deque[w], 1, Len(deque[w]) - 1)
<1>1. deque[w] \in Seq(Task) /\ deque[w] # <<>> /\ Distinct(deque[w]) /\ worker[w].task = None
  BY DEF TypeInv, PopOwn, NoRepeats, Busy
<1>2. /\ t \in Tasks(deque[w]) /\ Distinct(front)
      /\ Tasks(front) = Tasks(deque[w]) \ {t}
  BY <1>1, FrontOfDistinct
<1>3. t \in Task /\ t # None
  BY <1>1, SchedulerAssumption
<1>4. WorkerTo(w, "execute", t)
  BY WorkerMoves
<1>5. /\ deque' = [deque EXCEPT ![w] = front] /\ injector' = injector /\ client' = client
      /\ deque \in [Worker -> Seq(Task)]
  BY DEF PopOwn, TypeInv
<1>. HIDE DEF t, front
<1>6. worker'[w].task = t /\ deque'[w] = front /\ \A v \in Worker \ {w} : deque'[v] = deque[v]
  BY <1>4, <1>5 DEF WorkerTo
<1>7. Own(w)' = Own(w)
  BY <1>1, <1>2, <1>3, <1>6 DEF Own
<1>8. SameHands
  BY <1>4, <1>5, <1>6, <1>7, OthersOwn DEF SameHands, Hands
<1>9. NoRepeats'
  <2>1. ASSUME NEW v \in Worker
        PROVE  Distinct(deque'[v]) /\ worker'[v].task \notin Tasks(deque'[v])
    <3>1. CASE v = w
      BY <1>2, <1>6, <3>1
    <3>2. CASE v # w
      BY <1>4, <1>6, <3>2, OthersOwn DEF NoRepeats
    <3>. QED  BY <3>1, <3>2
  <2>2. Distinct(injector')
    BY <1>5 DEF NoRepeats
  <2>. QED  BY <2>1, <2>2 DEF NoRepeats
<1>. QED  BY <1>8, <1>9

LEMMA DrainOneCustody ==
  ASSUME TypeInv, NoRepeats, Disjoint, NEW w \in Worker, DrainOne(w)
  PROVE  Drained(w, Head(injector)) /\ Head(injector) \in Task /\ NoRepeats'
<1>. DEFINE t == Head(injector)
<1>1. injector \in Seq(Task) /\ injector # <<>> /\ Distinct(injector) /\ worker[w].task = None
  BY DEF TypeInv, DrainOne, NoRepeats, Busy
<1>2. t \in Tasks(injector) /\ Distinct(Tail(injector)) /\ Tasks(Tail(injector)) = Tasks(injector) \ {t}
  BY <1>1, TailOfDistinct
<1>3. t \in Task /\ t # None
  BY <1>1, SchedulerAssumption
<1>4. WorkerTo(w, "push", t)
  BY WorkerMoves
<1>5. deque' = deque /\ injector' = Tail(injector) /\ client' = client
  BY DEF DrainOne
<1>. HIDE DEF t
<1>6. worker'[w].task = t
  BY <1>4 DEF WorkerTo
<1>7. Own(w)' = Own(w) \union {t}
  BY <1>1, <1>3, <1>5, <1>6 DEF Own
<1>8. Drained(w, t)
  BY <1>2, <1>4, <1>5, <1>7, OthersOwn DEF Drained, Hands
<1>9. t \notin Tasks(deque[w])
  BY <1>2 DEF Disjoint, Own
<1>10. NoRepeats'
  <2>1. ASSUME NEW v \in Worker
        PROVE  Distinct(deque'[v]) /\ worker'[v].task \notin Tasks(deque'[v])
    <3>1. CASE v = w
      BY <1>5, <1>6, <1>9, <3>1 DEF NoRepeats
    <3>2. CASE v # w
      BY <1>4, <1>5, <3>2, OthersOwn DEF NoRepeats
    <3>. QED  BY <3>1, <3>2
  <2>2. Distinct(injector')
    BY <1>2, <1>5
  <2>. QED  BY <2>1, <2>2 DEF NoRepeats
<1>. QED  BY <1>3, <1>8, <1>10 DEF t

LEMMA DrainPushCustody ==
  ASSUME TypeInv, NoRepeats, NEW w \in Worker, DrainPush(w)
  PROVE  SameHands /\ NoRepeats'
<1>. DEFINE t == worker[w].task
<1>1. deque[w] \in Seq(Task) /\ Distinct(deque[w]) /\ t \notin Tasks(deque[w])
  BY DEF TypeInv, NoRepeats
<1>2. t \in Task /\ t # None
  BY InHand, SchedulerAssumption DEF DrainPush, Busy
<1>3. Distinct(Append(deque[w], t)) /\ Tasks(Append(deque[w], t)) = Tasks(deque[w]) \union {t}
  BY <1>1, <1>2, AppendToDistinct
<1>4. WorkerTo(w, "drain", None)
  BY WorkerMoves
<1>5. /\ deque' = [deque EXCEPT ![w] = Append(@, t)] /\ injector' = injector /\ client' = client
      /\ deque \in [Worker -> Seq(Task)]
  BY DEF DrainPush, TypeInv
<1>6. /\ worker'[w].task = None /\ deque'[w] = Append(deque[w], t)
      /\ \A v \in Worker \ {w} : deque'[v] = deque[v]
  BY <1>4, <1>5 DEF WorkerTo
<1>7. Own(w)' = Own(w)
  BY <1>2, <1>3, <1>6 DEF Own
<1>8. SameHands
  BY <1>4, <1>5, <1>6, <1>7, OthersOwn DEF SameHands, Hands
<1>9. NoRepeats'
  <2>1. ASSUME NEW v \in Worker
        PROVE  Distinct(deque'[v]) /\ worker'[v].task \notin Tasks(deque'[v])
    <3>1. CASE v = w
      <4>1. Tasks(deque[w]) \subseteq Task
        BY <1>1 DEF Tasks
      <4>2. None \notin Tasks(deque'[w])
        BY <1>2, <1>3, <1>6, <4>1, SchedulerAssumption
      <4>. QED  BY <1>3, <1>6, <3>1, <4>2
    <3>2. CASE v # w
      BY <1>4, <1>6, <3>2, OthersOwn DEF NoRepeats
    <3>. QED  BY <3>1, <3>2
  <2>2. Distinct(injector')
    BY <1>5 DEF NoRepeats
  <2>. QED  BY <2>1, <2>2 DEF NoRepeats
<1>. QED  BY <1>8, <1>9

LEMMA StealCustody ==
  ASSUME TypeInv, NoRepeats, Disjoint, NEW w \in Worker, NEW u \in Worker, Steal(w, u)
  PROVE  Stolen(w, u, Head(deque[u])) /\ Head(deque[u]) \in Task /\ NoRepeats'
<1>. DEFINE t == Head(deque[u])
<1>1. /\ deque[u] \in Seq(Task) /\ deque[u] # <<>> /\ Distinct(deque[u]) /\ worker[w].task = None
      /\ u # w /\ worker[u].task \notin Tasks(deque[u])
  BY DEF TypeInv, Steal, NoRepeats, Busy
<1>2. t \in Tasks(deque[u]) /\ Distinct(Tail(deque[u])) /\ Tasks(Tail(deque[u])) = Tasks(deque[u]) \ {t}
  BY <1>1, TailOfDistinct
<1>3. t \in Task /\ t # None
  BY <1>1, SchedulerAssumption
<1>4. WorkerTo(w, "execute", t)
  BY WorkerMoves
<1>5. /\ deque' = [deque EXCEPT ![u] = Tail(@)] /\ injector' = injector /\ client' = client
      /\ deque \in [Worker -> Seq(Task)]
  BY DEF Steal, TypeInv
<1>. HIDE DEF t
<1>6. /\ worker'[w].task = t /\ deque'[u] = Tail(deque[u]) /\ worker'[u].task = worker[u].task
      /\ \A v \in Worker \ {u} : deque'[v] = deque[v]
  BY <1>1, <1>4, <1>5 DEF WorkerTo
<1>7. Own(w)' = Own(w) \union {t}
  BY <1>1, <1>3, <1>6 DEF Own
<1>8. t \in Own(u) /\ Own(u)' = Own(u) \ {t}
  BY <1>1, <1>2, <1>6 DEF Own
<1>9. Stolen(w, u, t)
  BY <1>1, <1>4, <1>5, <1>6, <1>7, <1>8, OthersOwn DEF Stolen, Hands
<1>10. t \notin Tasks(deque[w])
  BY <1>1, <1>8 DEF Disjoint, Own
<1>11. NoRepeats'
  <2>1. ASSUME NEW v \in Worker
        PROVE  Distinct(deque'[v]) /\ worker'[v].task \notin Tasks(deque'[v])
    <3>1. CASE v = w
      BY <1>1, <1>6, <1>10, <3>1 DEF NoRepeats
    <3>2. CASE v = u
      BY <1>1, <1>2, <1>6, <3>2
    <3>3. CASE v # w /\ v # u
      BY <1>4, <1>6, <3>3, OthersOwn DEF NoRepeats
    <3>. QED  BY <3>1, <3>2, <3>3
  <2>2. Distinct(injector')
    BY <1>5 DEF NoRepeats
  <2>. QED  BY <2>1, <2>2 DEF NoRepeats
<1>. QED  BY <1>3, <1>9, <1>11 DEF t

LEMMA ReleaseCustody ==
  ASSUME TypeInv, NoRepeats, NEW w \in Worker, Release(w)
  PROVE  Released(w, worker[w].task) /\ worker[w].task \in Task /\ NoRepeats'
<1>1. deque[w] \in Seq(Task) /\ worker[w].task \notin Tasks(deque[w])
  BY DEF TypeInv, NoRepeats
<1>2. worker[w].task \in Task /\ worker[w].task # None
  BY InHand, SchedulerAssumption DEF Release, Busy
<1>3. PICK pc \in {"drain", "loop"} : WorkerTo(w, pc, None)
  BY WorkerMoves
<1>4. deque' = deque /\ injector' = injector /\ client' = client
  BY DEF Release, queues
<1>5. worker'[w].task = None
  BY <1>3 DEF WorkerTo
<1>6. worker[w].task \in Own(w) /\ Own(w)' = Own(w) \ {worker[w].task}
  BY <1>1, <1>2, <1>4, <1>5 DEF Own
<1>7. Released(w, worker[w].task)
  BY <1>3, <1>4, <1>6, OthersOwn DEF Released, Hands
<1>8. NoRepeats'
  <2>1. ASSUME NEW v \in Worker
        PROVE  Distinct(deque'[v]) /\ worker'[v].task \notin Tasks(deque'[v])
    <3>1. CASE v = w
      <4>1. None \notin Tasks(deque[w])
        BY <1>1, SchedulerAssumption DEF Tasks
      <4>. QED  BY <1>4, <1>5, <3>1, <4>1 DEF NoRepeats
    <3>2. CASE v # w
      BY <1>3, <1>4, <3>2, OthersOwn DEF NoRepeats
    <3>. QED  BY <3>1, <3>2
  <2>2. Distinct(injector')
    BY <1>4 DEF NoRepeats
  <2>. QED  BY <2>1, <2>2 DEF NoRepeats
<1>. QED  BY <1>2, <1>7, <1>8

QuietCall(c) ==
  \/ \E t \in Task : Await(c, t)
  \/ CountSpawned(c) \/ AwaitCheck(c) \/ AwaitDrop(c) \/ StatsBegin(c) \/ StatsEnd(c) \/ Stop(c)
  \/ DestroyBegin(c)

\* The tasks in workers' hands and deques stay, whether or not workers are woken.
LEMMA WorkersKeep ==
  ASSUME TypeInv, NoRepeats, worker' = woken(worker) \/ worker' = worker, deque' = deque
  PROVE  /\ \A w \in Worker : Own(w)' = Own(w)
         /\ \A w \in Worker : Distinct(deque'[w]) /\ worker'[w].task \notin Tasks(deque'[w])
<1>1. \A w \in Worker : worker'[w].task = worker[w].task
  BY wokenMoves
<1>2. \A w \in Worker : Own(w)' = Own(w)
  BY <1>1 DEF Own
<1>3. \A w \in Worker : Distinct(deque'[w]) /\ worker'[w].task \notin Tasks(deque'[w])
  BY <1>1 DEF NoRepeats
<1>. QED  BY <1>2, <1>3

LEMMA QuietCallCustody ==
  ASSUME TypeInv, NoRepeats, NEW c \in Client, QuietCall(c)
  PROVE  SameHands /\ NoRepeats'
<1>1. injector' = injector /\ deque' = deque /\ (worker' = woken(worker) \/ worker' = worker)
  BY DEF QuietCall, Await, CountSpawned, AwaitCheck, AwaitDrop, StatsBegin, StatsEnd, Stop,
         DestroyBegin, queues
<1>2. \A d \in Client : Hands(d)' = Hands(d)
  <2>1. ASSUME NEW pc, NEW task, ClientTo(c, pc, task), pc # "enqueue", client[c].pc # "enqueue"
        PROVE  \A d \in Client : Hands(d)' = Hands(d)
    <3>1. Hands(c)' = {} /\ Hands(c) = {}
      BY <2>1 DEF ClientTo, Hands
    <3>2. \A d \in Client \ {c} : Hands(d)' = Hands(d)
      BY <2>1 DEF ClientTo, Hands
    <3>. QED  BY <3>1, <3>2
  <2>2. ASSUME NEW t \in Task, Await(c, t) PROVE \A d \in Client : Hands(d)' = Hands(d)
    BY <2>1, <2>2, ClientMoves DEF Await
  <2>3. CASE CountSpawned(c) \/ AwaitCheck(c) \/ AwaitDrop(c) \/ StatsBegin(c) \/ StatsEnd(c)
    BY <2>1, <2>3, ClientMoves DEF CountSpawned, AwaitCheck, AwaitDrop, StatsBegin, StatsEnd
  <2>4. CASE DestroyBegin(c)
    BY <2>1, <2>4, ClientMoves DEF DestroyBegin
  <2>5. CASE Stop(c)
    BY <2>5 DEF Stop, Hands
  <2>. QED  BY <2>2, <2>3, <2>4, <2>5 DEF QuietCall
<1>3. SameHands
  BY <1>1, <1>2, WorkersKeep DEF SameHands
<1>4. NoRepeats'
  <2>1. Distinct(injector')
    BY <1>1 DEF NoRepeats
  <2>. QED  BY <1>1, <2>1, WorkersKeep DEF NoRepeats
<1>. QED  BY <1>3, <1>4

LEMMA SpawnCustody ==
  ASSUME TypeInv, NoRepeats, NEW c \in Client, NEW t \in Task, Spawn(c, t)
  PROVE  Made(c, t) /\ NoRepeats'
<1>1. injector' = injector /\ deque' = deque /\ worker' = worker /\ client[c].pc = "idle"
  BY DEF Spawn, queues
<1>2. ClientTo(c, "enqueue", t)
  BY ClientMoves
<1>3. Hands(c)' = {t} /\ \A d \in Client \ {c} : Hands(d)' = Hands(d)
  BY <1>2 DEF ClientTo, Hands
<1>4. Made(c, t)
  BY <1>1, <1>3, WorkersKeep DEF Made
<1>5. NoRepeats'
  <2>1. Distinct(injector')
    BY <1>1 DEF NoRepeats
  <2>. QED  BY <1>1, <2>1, WorkersKeep DEF NoRepeats
<1>. QED  BY <1>4, <1>5

LEMMA EnqueueCustody ==
  ASSUME TypeInv, NoRepeats, Disjoint, NEW c \in Client, Enqueue(c)
  PROVE  Handed(c, client[c].task) /\ client[c].task \in Task /\ NoRepeats'
<1>. DEFINE t == client[c].task
<1>1. /\ injector' = Append(injector, t) /\ deque' = deque /\ worker' = woken(worker)
      /\ client[c].pc = "enqueue" /\ injector \in Seq(Task)
  BY DEF Enqueue, linked, TypeInv
<1>2. t \in Task
  BY <1>1, InHand
<1>3. ClientTo(c, "count", t)
  BY ClientMoves
<1>. HIDE DEF t
<1>4. Hands(c) = {t} /\ Hands(c)' = {} /\ \A d \in Client \ {c} : Hands(d)' = Hands(d)
  BY <1>1, <1>3 DEF ClientTo, Hands, t
<1>5. t \notin Tasks(injector) /\ Distinct(injector)
  BY <1>4 DEF Disjoint, NoRepeats
<1>6. Distinct(injector') /\ Tasks(injector') = Tasks(injector) \union {t}
  BY <1>1, <1>2, <1>5, AppendToDistinct
<1>7. Handed(c, t)
  BY <1>1, <1>4, <1>6, WorkersKeep DEF Handed
<1>8. NoRepeats'
  BY <1>1, <1>6, WorkersKeep DEF NoRepeats
<1>. QED  BY <1>2, <1>7, <1>8 DEF t

LEMMA DestroyCustody ==
  ASSUME TypeInv, NEW c \in Client, DestroyEnd(c), \A d \in Client : Hands(d) = {}
  PROVE  Dropped /\ NoRepeats'
<1>1. /\ injector' = <<>> /\ deque' = [w \in Worker |-> <<>>] /\ worker' = worker
      /\ \A w \in Worker : worker[w].pc = "exited"
  BY DEF DestroyEnd
<1>2. \A w \in Worker : worker[w].task = None
  BY <1>1 DEF TypeInv, Busy
<1>3. ClientTo(c, "destroyed", client[c].task)
  BY ClientMoves
<1>4. \A d \in Client : Hands(d)' = {}
  <2>1. Hands(c)' = {}
    BY <1>3 DEF ClientTo, Hands
  <2>2. \A d \in Client \ {c} : Hands(d)' = Hands(d)
    BY <1>3 DEF ClientTo, Hands
  <2>. QED  BY <2>1, <2>2
<1>5. Tasks(<<>>) = {} /\ Distinct(<<>>)
  BY DEF Tasks, Distinct
<1>6. Tasks(injector)' = {} /\ \A w \in Worker : Own(w)' = {}
  BY <1>1, <1>2, <1>5 DEF Own
<1>7. Dropped
  BY <1>4, <1>6 DEF Dropped
<1>8. NoRepeats'
  BY <1>1, <1>5 DEF NoRepeats
<1>. QED  BY <1>7, <1>8

\* What each change means for a task.
CustodyKept == \A t \in Task : InCustody(t)' <=> InCustody(t)

LEMMA CustodyChange ==
  ASSUME Disjoint
  PROVE  /\ SameHands => CustodyKept
         /\ \A w \in Worker, u \in Task : Drained(w, u) => CustodyKept
         /\ \A w, v \in Worker, u \in Task : Stolen(w, v, u) => CustodyKept
         /\ \A c \in Client, u \in Task : Handed(c, u) => CustodyKept
         /\ \A w \in Worker, u \in Task : Released(w, u) =>
              InCustody(u) /\ \A t \in Task : InCustody(t)' <=> InCustody(t) /\ t # u
         /\ \A c \in Client, u \in Task : Made(c, u) /\ Hands(c) = {} =>
              \A t \in Task : InCustody(t)' <=> InCustody(t) \/ t = u
         /\ Dropped => \A t \in Task : ~InCustody(t)'
<1>1. SameHands => CustodyKept
  BY DEF SameHands, InCustody, CustodyKept
<1>2. ASSUME NEW w \in Worker, NEW u \in Task, Drained(w, u), NEW t \in Task
      PROVE  InCustody(t)' <=> InCustody(t)
  <2>1. InCustody(t)' => InCustody(t)
    BY <1>2 DEF Drained, InCustody
  <2>2. InCustody(t) => InCustody(t)'
    BY <1>2 DEF Drained, InCustody
  <2>. QED  BY <2>1, <2>2
<1>3. ASSUME NEW w \in Worker, NEW v \in Worker, NEW u \in Task, Stolen(w, v, u), NEW t \in Task
      PROVE  InCustody(t)' <=> InCustody(t)
  <2>1. (\E x \in Worker : t \in Own(x)') <=> (\E x \in Worker : t \in Own(x))
    <3>1. ASSUME NEW x \in Worker, t \in Own(x) PROVE \E y \in Worker : t \in Own(y)'
      <4>1. CASE t = u
        BY <1>3, <4>1 DEF Stolen
      <4>2. CASE t # u
        <5>1. t \in Own(x)'
          BY <1>3, <3>1, <4>2 DEF Stolen
        <5>. QED  BY <5>1
      <4>. QED  BY <4>1, <4>2
    <3>2. ASSUME NEW x \in Worker, t \in Own(x)' PROVE \E y \in Worker : t \in Own(y)
      BY <1>3, <3>2 DEF Stolen
    <3>. QED  BY <3>1, <3>2
  <2>. QED  BY <1>3, <2>1 DEF Stolen, InCustody
<1>4. ASSUME NEW c \in Client, NEW u \in Task, Handed(c, u), NEW t \in Task
      PROVE  InCustody(t)' <=> InCustody(t)
  <2>1. InCustody(t)' => InCustody(t)
    BY <1>4 DEF Handed, InCustody
  <2>2. InCustody(t) => InCustody(t)'
    BY <1>4 DEF Handed, InCustody
  <2>. QED  BY <2>1, <2>2
<1>5. ASSUME NEW w \in Worker, NEW u \in Task, Released(w, u)
      PROVE  InCustody(u) /\ \A t \in Task : InCustody(t)' <=> InCustody(t) /\ t # u
  <2>1. /\ u \notin Tasks(injector) /\ (\A v \in Worker \ {w} : u \notin Own(v))
        /\ \A c \in Client : u \notin Hands(c)
    BY <1>5 DEF Released, Disjoint
  <2>. QED  BY <1>5, <2>1 DEF Released, InCustody
<1>6. ASSUME NEW c \in Client, NEW u \in Task, Made(c, u), Hands(c) = {}, NEW t \in Task
      PROVE  InCustody(t)' <=> InCustody(t) \/ t = u
  BY <1>6 DEF Made, InCustody
<1>7. Dropped => \A t \in Task : ~InCustody(t)'
  BY DEF Dropped, InCustody
<1>. QED  BY <1>1, <1>2, <1>3, <1>4, <1>5, <1>6, <1>7 DEF CustodyKept

-----------------------------------------------------------------------------
(* The life of a task, told by who has it. *)

Fresh(t) == t \in task_map /\ state[t] = "pending" /\ runs[t] = 0

Queued(t) ==
  \/ t \in Tasks(injector)
  \/ \E w \in Worker : t \in Tasks(deque[w])
  \/ \E c \in Client : t \in Hands(c)

AtStage(pc, t) ==
  /\ pc \in {"push", "execute"} => Fresh(t)
  /\ pc = "run" => t \in task_map /\ state[t] = "running" /\ runs[t] = 0
  /\ pc = "complete" => t \in task_map /\ state[t] = "running" /\ runs[t] = 1
  /\ pc = "unregister" => t \in task_map /\ state[t] = "completed"
  /\ pc = "release" => t \notin task_map /\ state[t] = "completed"

TaskLife ==
  \A t \in Task :
    /\ state[t] = "none" => runs[t] = 0 /\ ~InCustody(t)
    /\ t \in task_map => InCustody(t)
    /\ runs[t] <= 1
    /\ state[t] = "completed" => runs[t] = 1

QueueLife == \A t \in Task : Queued(t) => Fresh(t)
WorkerLife == \A w \in Worker : AtStage(worker[w].pc, worker[w].task)

ClientLife ==
  \A c \in Client :
    /\ client[c].pc \in Awaiting => state[client[c].task] # "none"
    /\ client[c].pc = "drop" => state[client[c].task] = "completed"

\* Nobody is half way through a spawn while the scheduler is taken down.
CloseLife ==
  \A c, d \in Client :
    client[c].pc \in {"destroying", "destroyed"} => client[d].pc # "enqueue"

Custody == NoRepeats /\ Disjoint
Life == TaskLife /\ QueueLife /\ WorkerLife /\ ClientLife /\ CloseLife

SameData == state' = state /\ task_map' = task_map /\ runs' = runs

DataBut(t) ==
  /\ \A u \in Task \ {t} : /\ state'[u] = state[u] /\ runs'[u] = runs[u]
                           /\ u \in task_map' <=> u \in task_map

\* A worker's task is nobody else's.
LEMMA Sole ==
  ASSUME TypeInv, Custody, NEW w \in Worker, worker[w].task # None
  PROVE  /\ ~Queued(worker[w].task)
         /\ \A v \in Worker \ {w} : worker[v].task # worker[w].task
         /\ InCustody(worker[w].task)
<1>1. PICK t : t = worker[w].task
  OBVIOUS
<1>2. t \in Own(w)
  BY <1>1 DEF Own
<1>3. t \notin Tasks(injector) /\ \A c \in Client : t \notin Hands(c)
  BY <1>2 DEF Custody, Disjoint
<1>4. \A v \in Worker \ {w} : t \notin Own(v)
  BY <1>2 DEF Custody, Disjoint
<1>5. t \notin Tasks(deque[w])
  BY <1>1 DEF Custody, NoRepeats
<1>6. \A v \in Worker : t \notin Tasks(deque[v])
  BY <1>4, <1>5 DEF Own
<1>7. \A v \in Worker \ {w} : worker[v].task # t
  BY <1>1, <1>4 DEF Own
<1>8. ~Queued(t)
  BY <1>3, <1>6 DEF Queued
<1>9. InCustody(t)
  BY <1>2 DEF InCustody
<1>. QED  BY <1>1, <1>7, <1>8, <1>9

\* Tasks that move and do not change.
LEMMA MovedLife ==
  ASSUME TypeInv, Life, SameData, client' = client, CustodyKept,
         \A t \in Task : Queued(t)' => Fresh(t),
         \A w \in Worker : AtStage(worker'[w].pc, worker'[w].task)
  PROVE  Life'
<1>1. TaskLife'
  BY DEF Life, TaskLife, CustodyKept, SameData
<1>2. QueueLife'
  BY DEF QueueLife, SameData, Fresh
<1>3. WorkerLife'
  BY DEF WorkerLife, SameData, AtStage, Fresh
<1>4. ClientLife' /\ CloseLife'
  BY DEF Life, ClientLife, CloseLife, SameData
<1>. QED  BY <1>1, <1>2, <1>3, <1>4 DEF Life

\* A worker's new stage is enough, when the others' tasks are left alone.
LEMMA StageOfOne ==
  ASSUME WorkerLife, NEW w \in Worker, NEW pc, NEW task, WorkerTo(w, pc, task), AtStage(pc, task)
  PROVE  \A v \in Worker : AtStage(worker'[v].pc, worker'[v].task)
<1>. SUFFICES ASSUME NEW v \in Worker PROVE AtStage(worker'[v].pc, worker'[v].task)
  OBVIOUS
<1>1. CASE v = w
  <2>1. worker'[v].pc = pc /\ worker'[v].task = task
    BY <1>1 DEF WorkerTo
  <2>. QED  BY <2>1
<1>2. CASE v # w
  <2>1. worker'[v] = worker[v]
    BY <1>2 DEF WorkerTo
  <2>. QED  BY <2>1 DEF WorkerLife
<1>. QED  BY <1>1, <1>2

LEMMA InitLife == Init => Custody /\ Life
<1>. SUFFICES ASSUME Init PROVE Custody /\ Life
  OBVIOUS
<1>1. Tasks(<<>>) = {} /\ Distinct(<<>>)
  BY DEF Tasks, Distinct
<1>2. /\ \A w \in Worker : Own(w) = {} /\ deque[w] = <<>> /\ worker[w].pc = "loop"
      /\ \A c \in Client : Hands(c) = {} /\ client[c].pc = "idle"
      /\ Tasks(injector) = {}
  BY <1>1 DEF Init, Own, Hands
<1>3. NoRepeats
  BY <1>1, <1>2 DEF Init, NoRepeats
<1>4. Disjoint
  BY <1>2 DEF Disjoint
<1>5. TaskLife /\ QueueLife
  BY <1>1, <1>2 DEF Init, TaskLife, QueueLife, InCustody, Queued
<1>6. WorkerLife /\ ClientLife /\ CloseLife
  BY <1>2 DEF WorkerLife, AtStage, ClientLife, CloseLife, Awaiting
<1>. QED  BY <1>3, <1>4, <1>5, <1>6 DEF Custody, Life

LEMMA IdleStepLife ==
  ASSUME TypeInv, Custody, Life, NEW w \in Worker,
         \/ Loop(w) \/ PopNull(w) \/ DrainInline(w) \/ DrainEnds(w) \/ StealNothing(w) \/ Sleep(w)
         \/ TimeOut(w)
  PROVE  Life'
<1>1. SameData /\ client' = client
  BY DEF Loop, PopNull, DrainInline, DrainEnds, StealNothing, Sleep, TimeOut, SameData, entries
<1>2. CustodyKept
  BY QuietCustody, CustodyChange DEF QuietStep, Custody
<1>3. \A t \in Task : Queued(t)' => Fresh(t)
  <2>1. injector' = injector /\ deque' = deque /\ \A c \in Client : Hands(c)' = Hands(c)
    BY QuietSteps DEF QuietStep
  <2>. QED  BY <2>1 DEF Queued, Life, QueueLife
<1>4. \E pc \in WorkerPc \ (Busy \ {"execute"}) :
         WorkerTo(w, pc, worker[w].task) /\ (pc = "execute" => worker[w].pc = "push")
  BY WorkerMoves DEF DrainInline, WorkerPc, Busy
<1>5. \A v \in Worker : AtStage(worker'[v].pc, worker'[v].task)
  <2>1. PICK pc \in WorkerPc \ (Busy \ {"execute"}) :
               WorkerTo(w, pc, worker[w].task) /\ (pc = "execute" => worker[w].pc = "push")
    BY <1>4
  <2>2. PICK t : t = worker[w].task
    OBVIOUS
  <2>3. AtStage(worker[w].pc, t)
    BY <2>2 DEF Life, WorkerLife
  <2>4. AtStage(pc, t)
    BY <2>1, <2>3 DEF AtStage, Busy
  <2>. QED  BY <2>1, <2>2, <2>4, StageOfOne DEF Life
<1>. QED  BY <1>1, <1>2, <1>3, <1>5, MovedLife

LEMMA TakeStepLife ==
  ASSUME TypeInv, Custody, Life, NEW w \in Worker,
         \/ PopOwn(w) \/ DrainOne(w) \/ DrainPush(w) \/ \E v \in Worker : Steal(w, v)
  PROVE  Life'
<1>1. SameData /\ client' = client
  BY DEF PopOwn, DrainOne, DrainPush, Steal, SameData, entries
<1>2. NoRepeats /\ Disjoint /\ QueueLife /\ WorkerLife
  BY DEF Custody, Life
<1>3. deque \in [Worker -> Seq(Task)] /\ injector \in Seq(Task)
  BY DEF TypeInv
<1>4. \A c \in Client : Hands(c)' = Hands(c)
  BY <1>1 DEF Hands
<1>5. CASE PopOwn(w)
  <2>1. CustodyKept
    BY <1>2, <1>5, PopCustody, CustodyChange
  <2>2. PICK t : t = deque[w][Len(deque[w])]
    OBVIOUS
  <2>3. /\ t \in Tasks(deque[w])
        /\ Tasks(SubSeq(deque[w], 1, Len(deque[w]) - 1)) = Tasks(deque[w]) \ {t}
    BY <1>2, <1>3, <1>5, <2>2, FrontOfDistinct DEF PopOwn, NoRepeats
  <2>4. \A v \in Worker : Tasks(deque'[v]) \subseteq Tasks(deque[v])
    BY <1>3, <1>5, <2>3 DEF PopOwn
  <2>5. \A u \in Task : Queued(u)' => Queued(u)
    <3>1. injector' = injector
      BY <1>5 DEF PopOwn
    <3>. QED  BY <1>4, <2>4, <3>1 DEF Queued
  <2>6. t \in Task /\ Queued(t)
    BY <1>3, <2>3 DEF Queued, Tasks
  <2>7. AtStage("execute", t)
    BY <1>2, <2>6 DEF QueueLife, AtStage
  <2>8. \A v \in Worker : AtStage(worker'[v].pc, worker'[v].task)
    BY <1>2, <1>5, <2>2, <2>7, WorkerMoves, StageOfOne
  <2>. QED  BY <1>1, <1>2, <2>1, <2>5, <2>8, MovedLife DEF QueueLife
<1>6. CASE DrainOne(w)
  <2>1. CustodyKept
    BY <1>2, <1>6, DrainOneCustody, CustodyChange
  <2>2. PICK t : t = Head(injector)
    OBVIOUS
  <2>3. t \in Tasks(injector) /\ Tasks(Tail(injector)) = Tasks(injector) \ {t}
    BY <1>2, <1>3, <1>6, <2>2, TailOfDistinct DEF DrainOne, NoRepeats
  <2>4. \A u \in Task : Queued(u)' => Queued(u)
    <3>1. injector' = Tail(injector) /\ deque' = deque
      BY <1>6 DEF DrainOne
    <3>. QED  BY <1>4, <2>3, <3>1 DEF Queued
  <2>5. t \in Task /\ Queued(t)
    BY <1>3, <2>3 DEF Queued, Tasks
  <2>6. AtStage("push", t)
    BY <1>2, <2>5 DEF QueueLife, AtStage
  <2>7. \A v \in Worker : AtStage(worker'[v].pc, worker'[v].task)
    BY <1>2, <1>6, <2>2, <2>6, WorkerMoves, StageOfOne
  <2>. QED  BY <1>1, <1>2, <2>1, <2>4, <2>7, MovedLife DEF QueueLife
<1>7. CASE DrainPush(w)
  <2>1. CustodyKept
    BY <1>2, <1>7, DrainPushCustody, CustodyChange
  <2>2. PICK t : t = worker[w].task
    OBVIOUS
  <2>3. t \in Task /\ Fresh(t)
    BY <1>2, <1>7, <2>2, InHand DEF DrainPush, Busy, WorkerLife, AtStage
  <2>4. Tasks(Append(deque[w], t)) = Tasks(deque[w]) \union {t}
    BY <1>3, <2>3, AppendToDistinct
  <2>5. \A v \in Worker : Tasks(deque'[v]) \subseteq Tasks(deque[v]) \union {t}
    BY <1>3, <1>7, <2>2, <2>4 DEF DrainPush
  <2>6. \A u \in Task : Queued(u)' => Fresh(u)
    <3>1. injector' = injector
      BY <1>7 DEF DrainPush
    <3>2. \A u \in Task : Queued(u)' => Queued(u) \/ u = t
      BY <1>4, <2>5, <3>1 DEF Queued
    <3>. QED  BY <1>2, <2>3, <3>2 DEF QueueLife
  <2>7. AtStage("drain", None)
    BY DEF AtStage
  <2>8. \A v \in Worker : AtStage(worker'[v].pc, worker'[v].task)
    BY <1>2, <1>7, <2>7, WorkerMoves, StageOfOne
  <2>. QED  BY <1>1, <2>1, <2>6, <2>8, MovedLife
<1>8. ASSUME NEW v \in Worker, Steal(w, v) PROVE Life'
  <2>1. CustodyKept
    BY <1>2, <1>8, StealCustody, CustodyChange
  <2>2. PICK t : t = Head(deque[v])
    OBVIOUS
  <2>3. t \in Tasks(deque[v]) /\ Tasks(Tail(deque[v])) = Tasks(deque[v]) \ {t}
    BY <1>2, <1>3, <1>8, <2>2, TailOfDistinct DEF Steal, NoRepeats
  <2>4. \A u \in Worker : Tasks(deque'[u]) \subseteq Tasks(deque[u])
    BY <1>3, <1>8, <2>3 DEF Steal
  <2>5. \A u \in Task : Queued(u)' => Queued(u)
    <3>1. injector' = injector
      BY <1>8 DEF Steal
    <3>. QED  BY <1>4, <2>4, <3>1 DEF Queued
  <2>6. t \in Task /\ Queued(t)
    BY <1>3, <2>3 DEF Queued, Tasks
  <2>7. AtStage("execute", t)
    BY <1>2, <2>6 DEF QueueLife, AtStage
  <2>8. \A u \in Worker : AtStage(worker'[u].pc, worker'[u].task)
    BY <1>2, <1>8, <2>2, <2>7, WorkerMoves, StageOfOne
  <2>. QED  BY <1>1, <1>2, <2>1, <2>5, <2>8, MovedLife DEF QueueLife
<1>. QED  BY <1>5, <1>6, <1>7, <1>8

\* A worker changes the entry of the task it has in hand.
LEMMA ChangedLife ==
  ASSUME TypeInv, Custody, Life, NEW w \in Worker, NEW t \in Task, worker[w].task = t, DataBut(t),
         NEW pc, NEW task, WorkerTo(w, pc, task), AtStage(pc, task)',
         \A u \in Task : Queued(u)' => Queued(u)
  PROVE  QueueLife' /\ WorkerLife'
<1>1. ~Queued(t) /\ \A v \in Worker \ {w} : worker[v].task # t
  BY Sole, SchedulerAssumption
<1>2. QueueLife'
  BY <1>1 DEF DataBut, Life, QueueLife, Fresh
<1>3. ASSUME NEW v \in Worker PROVE AtStage(worker[v].pc, worker[v].task)'
  <2>1. CASE v = w
    <3>1. worker'[v].pc = pc /\ worker'[v].task = task
      BY <2>1 DEF WorkerTo
    <3>. QED  BY <3>1 DEF AtStage, Fresh
  <2>2. CASE v # w
    <3>1. worker'[v] = worker[v] /\ worker[v].task # t
      BY <1>1, <2>2 DEF WorkerTo
    <3>2. AtStage(worker[v].pc, worker[v].task)
      BY DEF Life, WorkerLife
    <3>3. worker[v].pc \in Busy => worker[v].task \in Task
      BY InHand
    <3>4. CASE worker[v].pc \in Busy
      BY <3>1, <3>2, <3>3, <3>4 DEF DataBut, AtStage, Fresh
    <3>5. CASE worker[v].pc \notin Busy
      BY <3>1, <3>5 DEF AtStage, Busy
    <3>. QED  BY <3>4, <3>5
  <2>. QED  BY <2>1, <2>2
<1>4. WorkerLife'
  BY <1>3 DEF WorkerLife
<1>. QED  BY <1>2, <1>4

LEMMA ActStepLife ==
  ASSUME TypeInv, Custody, Life, NEW w \in Worker,
         Execute(w) \/ RunFunc(w) \/ Complete(w) \/ Unregister(w)
  PROVE  Life'
<1>1. PICK t : t = worker[w].task
  OBVIOUS
<1>2. /\ t \in Task /\ AtStage(worker[w].pc, t)
      /\ worker[w].pc \in {"execute", "run", "complete", "unregister"}
  BY <1>1, InHand DEF Life, WorkerLife, Execute, RunFunc, Complete, Unregister, Busy
<1>3. CustodyKept /\ \A u \in Task : Queued(u)' => Queued(u)
  <2>1. QuietStep(w)
    BY DEF QuietStep
  <2>2. injector' = injector /\ deque' = deque /\ \A c \in Client : Hands(c)' = Hands(c)
    BY <2>1, QuietSteps
  <2>. QED  BY <2>1, <2>2, QuietCustody, CustodyChange DEF Queued, Custody
<1>4. /\ state \in [Task -> {"none", "pending", "running", "completed"}] /\ runs \in [Task -> Nat]
      /\ task_map \subseteq Task
  BY DEF TypeInv
<1>5. TaskLife /\ ClientLife /\ CloseLife /\ InCustody(t)
  BY <1>1, <1>2, Sole, SchedulerAssumption DEF Life
<1>6. CASE Execute(w)
  <2>1. /\ state' = [state EXCEPT ![t] = "running"] /\ runs' = runs /\ task_map' = task_map
        /\ client' = client /\ worker[w].pc = "execute"
    BY <1>1, <1>6 DEF Execute
  <2>2. Fresh(t)
    BY <1>2, <2>1 DEF AtStage
  <2>3. state'[t] = "running" /\ DataBut(t) /\ AtStage("run", t)'
    BY <1>4, <2>1, <2>2, <1>2 DEF DataBut, AtStage, Fresh
  <2>4. QueueLife' /\ WorkerLife'
    BY <1>1, <1>2, <1>3, <1>6, <2>3, WorkerMoves, ChangedLife
  <2>5. TaskLife'
    BY <1>3, <1>4, <1>5, <2>1, <2>2 DEF TaskLife, CustodyKept, Fresh
  <2>6. ClientLife'
    <3>1. \A u \in Task : /\ state[u] # "none" => state'[u] # "none"
                          /\ state[u] = "completed" => state'[u] = "completed"
      BY <1>4, <2>1, <2>2 DEF Fresh
    <3>. QED  BY <1>5, <2>1, <3>1, InHand DEF ClientLife, Awaiting
  <2>7. CloseLife'
    BY <1>5, <2>1 DEF CloseLife
  <2>. QED  BY <2>4, <2>5, <2>6, <2>7 DEF Life
<1>7. CASE RunFunc(w)
  <2>1. /\ runs' = [runs EXCEPT ![t] = @ + 1] /\ state' = state /\ task_map' = task_map
        /\ client' = client /\ worker[w].pc = "run"
    BY <1>1, <1>7 DEF RunFunc
  <2>2. t \in task_map /\ state[t] = "running" /\ runs[t] = 0
    BY <1>2, <2>1 DEF AtStage
  <2>3. runs'[t] = 1 /\ DataBut(t) /\ AtStage("complete", t)'
    BY <1>2, <1>4, <2>1, <2>2 DEF DataBut, AtStage
  <2>4. QueueLife' /\ WorkerLife'
    BY <1>1, <1>2, <1>3, <1>7, <2>3, WorkerMoves, ChangedLife
  <2>5. TaskLife'
    BY <1>3, <1>4, <1>5, <2>1, <2>2 DEF TaskLife, CustodyKept
  <2>6. ClientLife' /\ CloseLife'
    BY <1>5, <2>1 DEF ClientLife, CloseLife
  <2>. QED  BY <2>4, <2>5, <2>6 DEF Life
<1>8. CASE Complete(w)
  <2>1. /\ state' = [state EXCEPT ![t] = "completed"] /\ runs' = runs /\ task_map' = task_map
        /\ client' = awakened(t) /\ worker[w].pc = "complete"
    BY <1>1, <1>8 DEF Complete
  <2>2. t \in task_map /\ state[t] = "running" /\ runs[t] = 1
    BY <1>2, <2>1 DEF AtStage
  <2>3. state'[t] = "completed" /\ DataBut(t) /\ AtStage("unregister", t)'
    BY <1>2, <1>4, <2>1, <2>2 DEF DataBut, AtStage
  <2>4. QueueLife' /\ WorkerLife'
    BY <1>1, <1>2, <1>3, <1>8, <2>3, WorkerMoves, ChangedLife
  <2>5. TaskLife'
    BY <1>3, <1>4, <1>5, <2>1, <2>2 DEF TaskLife, CustodyKept
  <2>6. \A c \in Client : /\ client'[c].task = client[c].task
                          /\ \/ client'[c].pc = client[c].pc
                             \/ client[c].pc = "wait" /\ client'[c].pc = "check"
    BY <1>2, <2>1, awakenedMoves
  <2>7. ClientLife'
    <3>1. \A u \in Task : /\ state[u] # "none" => state'[u] # "none"
                          /\ state[u] = "completed" => state'[u] = "completed"
      BY <1>4, <2>1
    <3>2. \A c \in Client : client'[c].pc \in Awaiting => client[c].pc \in Awaiting
      BY <2>6 DEF Awaiting
    <3>3. \A c \in Client : client'[c].pc = "drop" => client[c].pc = "drop"
      BY <2>6
    <3>4. \A c \in Client : client[c].pc \in Awaiting => client[c].task \in Task
      BY InHand
    <3>5. "drop" \in Awaiting
      BY DEF Awaiting
    <3>. QED  BY <1>5, <2>6, <3>1, <3>2, <3>3, <3>4, <3>5 DEF ClientLife
  <2>8. CloseLife'
    <3>1. \A c \in Client :
            /\ client'[c].pc \in {"destroying", "destroyed"} => client'[c].pc = client[c].pc
            /\ client'[c].pc = "enqueue" => client[c].pc = "enqueue"
      BY <2>6
    <3>. QED  BY <1>5, <3>1 DEF CloseLife
  <2>. QED  BY <2>4, <2>5, <2>7, <2>8 DEF Life
<1>9. CASE Unregister(w)
  <2>1. /\ task_map' = task_map \ {t} /\ state' = state /\ runs' = runs
        /\ client' = client /\ worker[w].pc = "unregister"
    BY <1>1, <1>9 DEF Unregister
  <2>2. state[t] = "completed"
    BY <1>2, <2>1 DEF AtStage
  <2>3. t \notin task_map' /\ DataBut(t) /\ AtStage("release", t)'
    BY <1>2, <1>4, <2>1, <2>2 DEF DataBut, AtStage
  <2>4. QueueLife' /\ WorkerLife'
    BY <1>1, <1>2, <1>3, <1>9, <2>3, WorkerMoves, ChangedLife
  <2>5. TaskLife'
    BY <1>3, <1>4, <1>5, <2>1, <2>2 DEF TaskLife, CustodyKept
  <2>6. ClientLife' /\ CloseLife'
    BY <1>5, <2>1 DEF ClientLife, CloseLife
  <2>. QED  BY <2>4, <2>5, <2>6 DEF Life
<1>. QED  BY <1>6, <1>7, <1>8, <1>9

LEMMA ReleaseLife ==
  ASSUME TypeInv, Custody, Life, NEW w \in Worker, Release(w)
  PROVE  Life'
<1>1. PICK t : t = worker[w].task
  OBVIOUS
<1>2. t \in Task /\ AtStage("release", t) /\ t \notin task_map /\ state[t] = "completed"
  BY <1>1, InHand DEF Life, WorkerLife, Release, Busy, AtStage
<1>3. /\ SameData /\ client' = client /\ injector' = injector /\ deque' = deque
      /\ \A c \in Client : Hands(c)' = Hands(c)
  BY DEF Release, SameData, queues, Hands
<1>4. \A u \in Task : InCustody(u)' <=> InCustody(u) /\ u # t
  BY <1>1, ReleaseCustody, CustodyChange DEF Custody
<1>5. TaskLife'
  BY <1>2, <1>3, <1>4 DEF Life, TaskLife, SameData
<1>6. QueueLife'
  BY <1>3 DEF Life, QueueLife, Queued, Fresh, SameData
<1>7. WorkerLife'
  <2>1. \E pc \in {"drain", "loop"} : WorkerTo(w, pc, None)
    BY WorkerMoves
  <2>2. \A pc \in {"drain", "loop"} : AtStage(pc, None)
    BY DEF AtStage
  <2>3. \A v \in Worker : AtStage(worker'[v].pc, worker'[v].task)
    BY <2>1, <2>2, StageOfOne DEF Life
  <2>. QED  BY <1>3, <2>3 DEF WorkerLife, AtStage, Fresh, SameData
<1>8. ClientLife' /\ CloseLife'
  BY <1>3 DEF Life, ClientLife, CloseLife, SameData
<1>. QED  BY <1>5, <1>6, <1>7, <1>8 DEF Life

\* Waking workers leaves them at a stage that asks no more of their task.
LEMMA WokenStages ==
  ASSUME TypeInv, WorkerLife, worker' = woken(worker) \/ worker' = worker
  PROVE  \A w \in Worker : AtStage(worker'[w].pc, worker'[w].task)
BY wokenMoves DEF WorkerLife, AtStage

LEMMA QuietCallLife ==
  ASSUME TypeInv, Custody, Life, NEW c \in Client, QuietCall(c)
  PROVE  Life'
<1>1. /\ SameData /\ injector' = injector /\ deque' = deque
      /\ worker' = woken(worker) \/ worker' = worker
  BY DEF QuietCall, Await, CountSpawned, AwaitCheck, AwaitDrop, StatsBegin, StatsEnd, Stop,
         DestroyBegin, SameData, queues, entries
<1>2. SameHands /\ CustodyKept
  BY QuietCallCustody, CustodyChange DEF Custody
<1>3. TaskLife'
  BY <1>1, <1>2 DEF Life, TaskLife, CustodyKept, SameData
<1>4. QueueLife'
  BY <1>1, <1>2 DEF Life, QueueLife, Queued, Fresh, SameData, SameHands
<1>5. WorkerLife'
  BY <1>1, WokenStages DEF Life, WorkerLife, AtStage, Fresh, SameData
<1>6. ClientLife
  BY DEF Life
<1>7. ASSUME NEW pc, NEW task, ClientTo(c, pc, task),
             pc \in Awaiting => state[task] # "none",
             pc = "drop" => state[task] = "completed"
      PROVE  ClientLife'
  <2>1. ASSUME NEW d \in Client
        PROVE  /\ client'[d].pc \in Awaiting => state[client'[d].task] # "none"
               /\ client'[d].pc = "drop" => state[client'[d].task] = "completed"
    <3>1. CASE d = c
      <4>1. client'[d].pc = pc /\ client'[d].task = task
        BY <1>7, <3>1 DEF ClientTo
      <4>. QED  BY <1>7, <4>1
    <3>2. CASE d # c
      BY <1>6, <1>7, <3>2 DEF ClientTo, ClientLife
    <3>. QED  BY <3>1, <3>2
  <2>. QED  BY <1>1, <2>1 DEF ClientLife, SameData
<1>8. ClientLife'
  <2>1. ASSUME NEW t \in Task, Await(c, t) PROVE ClientLife'
    <3>1. state[t] # "none"
      BY <2>1 DEF Await, Life, TaskLife
    <3>. QED  BY <1>7, <2>1, <3>1, ClientMoves
  <2>2. CASE CountSpawned(c) \/ AwaitDrop(c)
    BY <1>7, <2>2, ClientMoves DEF Awaiting
  <2>3. CASE AwaitCheck(c)
    <3>1. PICK t : t = client[c].task
      OBVIOUS
    <3>2. state[t] # "none"
      BY <1>6, <2>3, <3>1 DEF ClientLife, AwaitCheck, Awaiting
    <3>3. CASE isCompleted(t)
      <4>1. client' = [client EXCEPT ![c].pc = "drop"]
        BY <2>3, <3>1, <3>3 DEF AwaitCheck
      <4>2. ClientTo(c, "drop", t)
        BY <3>1, <4>1, ClientSets DEF TypeInv, ClientState, ClientPc
      <4>. QED  BY <1>7, <3>2, <3>3, <4>2 DEF isCompleted
    <3>4. CASE ~isCompleted(t)
      <4>1. client' = [client EXCEPT ![c].pc = "wait"]
        BY <2>3, <3>1, <3>4 DEF AwaitCheck
      <4>2. ClientTo(c, "wait", t)
        BY <3>1, <4>1, ClientSets DEF TypeInv, ClientState, ClientPc
      <4>. QED  BY <1>7, <3>2, <4>2
    <3>. QED  BY <3>3, <3>4
  <2>4. CASE StatsBegin(c) \/ StatsEnd(c) \/ DestroyBegin(c)
    BY <1>7, <2>4, ClientMoves DEF Awaiting
  <2>5. CASE Stop(c)
    BY <1>1, <1>6, <2>5 DEF Stop, ClientLife, SameData
  <2>. QED  BY <2>1, <2>2, <2>3, <2>4, <2>5 DEF QuietCall
<1>9. CloseLife'
  <2>1. \A d \in Client : client'[d].pc = "enqueue" => client[d].pc = "enqueue"
    <3>1. \A d \in Client : client'[d].pc = "enqueue" => Hands(d)' # {}
      BY DEF Hands
    <3>2. \A d \in Client : Hands(d) # {} => client[d].pc = "enqueue"
      BY DEF Hands
    <3>. QED  BY <1>2, <3>1, <3>2 DEF SameHands
  <2>2. CASE DestroyBegin(c)
    BY <2>1, <2>2 DEF CloseLife, DestroyBegin
  <2>3. ASSUME ~DestroyBegin(c)
        PROVE  \A d \in Client : client'[d].pc \in {"destroying", "destroyed"}
                                   => client[d].pc \in {"destroying", "destroyed"}
    <3>1. ASSUME NEW pc, NEW task, ClientTo(c, pc, task), pc \notin {"destroying", "destroyed"},
                 NEW d \in Client, client'[d].pc \in {"destroying", "destroyed"}
          PROVE  client[d].pc \in {"destroying", "destroyed"}
      BY <3>1 DEF ClientTo
    <3>2. ASSUME NEW t \in Task, Await(c, t), NEW d \in Client,
                 client'[d].pc \in {"destroying", "destroyed"}
          PROVE  client[d].pc \in {"destroying", "destroyed"}
      BY <3>1, <3>2, ClientMoves
    <3>3. ASSUME CountSpawned(c) \/ AwaitCheck(c) \/ AwaitDrop(c) \/ StatsBegin(c) \/ StatsEnd(c),
                 NEW d \in Client, client'[d].pc \in {"destroying", "destroyed"}
          PROVE  client[d].pc \in {"destroying", "destroyed"}
      BY <3>1, <3>3, ClientMoves
    <3>4. ASSUME Stop(c), NEW d \in Client, client'[d].pc \in {"destroying", "destroyed"}
          PROVE  client[d].pc \in {"destroying", "destroyed"}
      BY <3>4 DEF Stop
    <3>. QED  BY <2>3, <3>2, <3>3, <3>4 DEF QuietCall
  <2>4. CloseLife
    BY DEF Life
  <2>5. CASE ~DestroyBegin(c)
    BY <2>1, <2>3, <2>4, <2>5 DEF CloseLife
  <2>. QED  BY <2>2, <2>5
<1>. QED  BY <1>3, <1>4, <1>5, <1>8, <1>9 DEF Life

LEMMA EnqueueLife ==
  ASSUME TypeInv, Custody, Life, NEW c \in Client, Enqueue(c)
  PROVE  Life'
<1>1. PICK t : t = client[c].task
  OBVIOUS
<1>2. /\ SameData /\ injector' = Append(injector, t) /\ deque' = deque /\ worker' = woken(worker)
      /\ client[c].pc = "enqueue" /\ injector \in Seq(Task)
  BY <1>1 DEF Enqueue, linked, SameData, entries, TypeInv
<1>3. t \in Task /\ ClientTo(c, "count", t) /\ CustodyKept
  BY <1>1, <1>2, InHand, ClientMoves, EnqueueCustody, CustodyChange DEF Custody
<1>4. Hands(c) = {t} /\ Hands(c)' = {} /\ \A d \in Client \ {c} : Hands(d)' = Hands(d)
  BY <1>1, <1>2, <1>3 DEF Hands, ClientTo
<1>5. TaskLife'
  BY <1>2, <1>3 DEF Life, TaskLife, CustodyKept, SameData
<1>6. QueueLife'
  <2>1. Tasks(injector') = Tasks(injector) \union {t}
    BY <1>2, <1>3, AppendToDistinct
  <2>2. \A u \in Task : Queued(u)' => Queued(u)
    BY <1>2, <1>4, <2>1 DEF Queued
  <2>. QED  BY <1>2, <2>2 DEF Life, QueueLife, Fresh, SameData
<1>7. WorkerLife'
  BY <1>2, WokenStages DEF Life, WorkerLife, AtStage, Fresh, SameData
<1>8. ClientLife'
  BY <1>2, <1>3 DEF Life, ClientLife, ClientTo, SameData, Awaiting
<1>9. CloseLife'
  BY <1>2, <1>3 DEF Life, CloseLife, ClientTo
<1>. QED  BY <1>5, <1>6, <1>7, <1>8, <1>9 DEF Life

LEMMA SpawnLife ==
  ASSUME TypeInv, Custody, Life, NEW c \in Client, NEW t \in Task, Spawn(c, t),
         \A d \in Client : client[d].pc \notin {"destroying", "destroyed"}
  PROVE  Life'
<1>1. /\ state' = [state EXCEPT ![t] = "pending"] /\ task_map' = task_map \union {t}
      /\ runs' = runs /\ injector' = injector /\ deque' = deque /\ worker' = worker
      /\ client[c].pc = "idle" /\ state[t] = "none"
      /\ state \in [Task -> {"none", "pending", "running", "completed"}]
  BY DEF Spawn, queues, TypeInv
<1>2. runs[t] = 0 /\ ~InCustody(t) /\ t \notin task_map
  BY <1>1 DEF Life, TaskLife
<1>3. ClientTo(c, "enqueue", t)
  BY ClientMoves
<1>4. Hands(c) = {} /\ Hands(c)' = {t} /\ \A d \in Client \ {c} : Hands(d)' = Hands(d)
  BY <1>1, <1>3 DEF Hands, ClientTo
<1>5. \A u \in Task : InCustody(u)' <=> InCustody(u) \/ u = t
  BY <1>4, SpawnCustody, CustodyChange DEF Custody
<1>6. state'[t] = "pending" /\ Fresh(t)' /\ DataBut(t)
  BY <1>1, <1>2 DEF Fresh, DataBut
<1>7. TaskLife'
  BY <1>1, <1>2, <1>5 DEF Life, TaskLife
<1>8. QueueLife'
  <2>1. \A u \in Task : Queued(u)' => Queued(u) \/ u = t
    BY <1>1, <1>4 DEF Queued
  <2>2. \A u \in Task \ {t} : Fresh(u) => Fresh(u)'
    BY <1>6 DEF Fresh, DataBut
  <2>. QED  BY <1>6, <2>1, <2>2 DEF Life, QueueLife
<1>9. WorkerLife'
  <2>1. ASSUME NEW w \in Worker PROVE AtStage(worker[w].pc, worker[w].task)'
    <3>1. AtStage(worker[w].pc, worker[w].task)
      BY DEF Life, WorkerLife
    <3>2. CASE worker[w].pc \in Busy
      <4>1. worker[w].task \in Task /\ worker[w].task # None
        BY <3>2, InHand, SchedulerAssumption
      <4>2. worker[w].task # t
        BY <1>2, <4>1, Sole
      <4>. QED  BY <1>1, <1>6, <3>1, <4>1, <4>2 DEF AtStage, Fresh, DataBut
    <3>3. CASE worker[w].pc \notin Busy
      BY <1>1, <3>3 DEF AtStage, Busy
    <3>. QED  BY <3>2, <3>3
  <2>. QED  BY <2>1 DEF WorkerLife
<1>10. ClientLife'
  <2>1. \A u \in Task : /\ state[u] # "none" => state'[u] # "none"
                        /\ state[u] = "completed" => state'[u] = "completed"
    BY <1>1
  <2>2. ClientLife
    BY DEF Life
  <2>3. ASSUME NEW d \in Client
        PROVE  /\ client'[d].pc \in Awaiting => state'[client'[d].task] # "none"
               /\ client'[d].pc = "drop" => state'[client'[d].task] = "completed"
    <3>1. CASE d = c
      BY <1>3, <3>1 DEF ClientTo, Awaiting
    <3>2. CASE d # c
      <4>1. client'[d] = client[d]
        BY <1>3, <3>2 DEF ClientTo
      <4>2. client[d].pc \in Awaiting => client[d].task \in Task
        BY InHand
      <4>. QED  BY <2>1, <2>2, <4>1, <4>2 DEF ClientLife, Awaiting
    <3>. QED  BY <3>1, <3>2
  <2>. QED  BY <2>3 DEF ClientLife
<1>11. CloseLife'
  BY <1>3 DEF ClientTo, CloseLife
<1>. QED  BY <1>7, <1>8, <1>9, <1>10, <1>11 DEF Life

LEMMA DestroyLife ==
  ASSUME TypeInv, Custody, Life, NEW c \in Client, DestroyEnd(c)
  PROVE  Life' /\ Dropped /\ NoRepeats'
<1>1. /\ state' = state /\ runs' = runs /\ task_map' = {} /\ worker' = worker
      /\ client[c].pc = "destroying" /\ \A w \in Worker : worker[w].pc = "exited"
  BY DEF DestroyEnd
<1>2. \A d \in Client : Hands(d) = {}
  BY <1>1 DEF Life, CloseLife, Hands
<1>3. Dropped /\ NoRepeats' /\ \A t \in Task : ~InCustody(t)'
  BY <1>2, DestroyCustody, CustodyChange DEF Custody
<1>4. ClientTo(c, "destroyed", client[c].task)
  BY ClientMoves
<1>5. TaskLife'
  BY <1>1, <1>3 DEF Life, TaskLife
<1>6. QueueLife'
  BY <1>3 DEF QueueLife, Queued, InCustody, Own
<1>7. WorkerLife'
  BY <1>1 DEF WorkerLife, AtStage
<1>8. ClientLife' /\ CloseLife'
  <2>1. ClientLife'
    BY <1>1, <1>4 DEF Life, ClientLife, ClientTo, Awaiting
  <2>2. \A d \in Client : client'[d].pc # "enqueue"
    BY <1>1, <1>4 DEF Life, CloseLife, ClientTo
  <2>. QED  BY <2>1, <2>2 DEF CloseLife
<1>. QED  BY <1>3, <1>5, <1>6, <1>7, <1>8 DEF Life

LEMMA LifeStep ==
  ASSUME TypeInv, Custody, Life, [Next]_vars
  PROVE  Custody' /\ Life'
<1>1. NoRepeats /\ Disjoint
  BY DEF Custody
<1>2. ASSUME NEW w \in Worker, WorkerStep(w) PROVE Custody' /\ Life'
  <2>1. CASE QuietStep(w)
    <3>1. Custody'
      BY <1>1, <2>1, QuietCustody, DisjointStays DEF Custody
    <3>2. Life'
      BY <2>1, IdleStepLife, ActStepLife DEF QuietStep
    <3>. QED  BY <3>1, <3>2
  <2>2. CASE PopOwn(w) \/ DrainPush(w)
    <3>1. Custody'
      BY <1>1, <2>2, PopCustody, DrainPushCustody, DisjointStays DEF Custody
    <3>. QED  BY <2>2, <3>1, TakeStepLife
  <2>3. CASE DrainOne(w)
    <3>1. Custody'
      BY <1>1, <2>3, DrainOneCustody, DisjointStays DEF Custody
    <3>. QED  BY <2>3, <3>1, TakeStepLife
  <2>4. ASSUME NEW v \in Worker, Steal(w, v) PROVE Custody' /\ Life'
    <3>1. Custody'
      BY <1>1, <2>4, StealCustody, DisjointStays DEF Custody
    <3>. QED  BY <2>4, <3>1, TakeStepLife
  <2>5. CASE Release(w)
    <3>1. Custody'
      BY <1>1, <2>5, ReleaseCustody, DisjointStays DEF Custody
    <3>. QED  BY <2>5, <3>1, ReleaseLife
  <2>. QED  BY <1>2, <2>1, <2>2, <2>3, <2>4, <2>5 DEF WorkerStep, QuietStep
<1>3. ASSUME NEW c \in Client, ClientStep(c) \/ Call(c) PROVE Custody' /\ Life'
  <2>1. CASE QuietCall(c)
    <3>1. Custody'
      BY <1>1, <2>1, QuietCallCustody, DisjointStays DEF Custody
    <3>. QED  BY <2>1, <3>1, QuietCallLife
  <2>2. ASSUME NEW t \in Task, Spawn(c, t), Call(c) PROVE Custody' /\ Life'
    <3>1. ~InCustody(t)
      BY <2>2 DEF Spawn, Life, TaskLife
    <3>2. Custody'
      BY <1>1, <2>2, <3>1, SpawnCustody, DisjointStays DEF Custody
    <3>. QED  BY <2>2, <3>2, SpawnLife DEF Call
  <2>3. CASE Enqueue(c)
    <3>1. Custody'
      BY <1>1, <2>3, EnqueueCustody, DisjointStays DEF Custody
    <3>. QED  BY <2>3, <3>1, EnqueueLife
  <2>4. CASE DestroyEnd(c)
    BY <1>1, <2>4, DestroyLife, DisjointStays DEF Custody
  <2>. QED  BY <1>3, <2>1, <2>2, <2>3, <2>4, Zenon DEF ClientStep, Call, QuietCall
<1>4. CASE UNCHANGED vars
  <2>1. /\ injector' = injector /\ deque' = deque /\ worker' = worker /\ client' = client
        /\ state' = state /\ task_map' = task_map /\ runs' = runs
    BY <1>4 DEF vars, queues, entries
  <2>2. SameHands
    BY <2>1 DEF SameHands, Own, Hands
  <2>3. Custody'
    BY <1>1, <2>1, <2>2, DisjointStays DEF Custody, NoRepeats
  <2>4. CustodyKept
    BY <1>1, <2>2, CustodyChange
  <2>5. \A u \in Task : Queued(u)' => Fresh(u)
    BY <2>1, <2>2 DEF Queued, Life, QueueLife, SameHands
  <2>6. \A w \in Worker : AtStage(worker'[w].pc, worker'[w].task)
    BY <2>1 DEF Life, WorkerLife
  <2>. QED  BY <2>1, <2>3, <2>4, <2>5, <2>6, MovedLife DEF SameData
<1>. QED  BY <1>2, <1>3, <1>4 DEF Next

LEMMA TypeStep ==
  ASSUME TypeInv, [Next]_vars
  PROVE  TypeInv'
<1>1. CASE UNCHANGED vars
  BY <1>1 DEF TypeInv, vars, queues, entries, counts
<1>. QED  BY <1>1, WorkerStepTypes, ClientStepTypes DEF Next

-----------------------------------------------------------------------------
(* The references of an entry: one for whoever has the task, one for every *)
(* client that awaits it.                                                  *)

Waiting(t) == {c \in Client : client[c].pc \in Awaiting /\ client[c].task = t}
Held(t) == IF InCustody(t) THEN 1 ELSE 0

RefInv ==
  \A t \in Task :
    /\ ref_count[t] = Held(t) + Cardinality(Waiting(t))
    /\ t \in freed <=> state[t] # "none" /\ ref_count[t] = 0

LEMMA WaitingCount ==
  ASSUME NEW t
  PROVE  /\ IsFiniteSet(Waiting(t)) /\ Cardinality(Waiting(t)) \in Nat
         /\ Cardinality(Waiting(t)) <= Cardinality(Client)
         /\ Cardinality(Waiting(t)) = 0 <=> Waiting(t) = {}
<1>1. IsFiniteSet(Client) /\ Waiting(t) \subseteq Client
  BY SchedulerAssumption DEF Waiting
<1>2. IsFiniteSet(Waiting(t)) /\ Cardinality(Waiting(t)) <= Cardinality(Client)
  BY <1>1, FS_Subset
<1>3. Cardinality(Waiting(t)) \in Nat
  BY <1>2, FS_CardinalityType
<1>4. Cardinality(Waiting(t)) = 0 <=> Waiting(t) = {}
  BY <1>2, FS_EmptySet
<1>. QED  BY <1>2, <1>3, <1>4

\* A client that goes to a state of which it awaits the task, or not.
LEMMA WaitingMoves ==
  ASSUME NEW c \in Client, NEW pc, NEW task, ClientTo(c, pc, task), NEW t
  PROVE  /\ pc \in Awaiting /\ task = t => Waiting(t)' = Waiting(t) \union {c}
         /\ ~(pc \in Awaiting /\ task = t) => Waiting(t)' = Waiting(t) \ {c}
BY DEF ClientTo, Waiting

\* No reference is made or given up.
LEMMA SameRefs ==
  ASSUME TypeInv, RefInv, CustodyKept, ref_count' = ref_count, freed' = freed,
         \A t \in Task : (state'[t] = "none" <=> state[t] = "none") /\ Waiting(t)' = Waiting(t)
  PROVE  RefInv'
<1>1. \A t \in Task : Held(t)' = Held(t)
  BY DEF Held, CustodyKept
<1>. QED  BY <1>1 DEF RefInv

LEMMA WorkerRefs ==
  ASSUME TypeInv, Custody, Life, RefInv, NEW w \in Worker, WorkerStep(w), ~Release(w)
  PROVE  RefInv'
<1>1. ref_count' = ref_count /\ freed' = freed
  BY DEF WorkerStep, Loop, PopOwn, PopNull, DrainOne, DrainPush, DrainInline, DrainEnds, Steal,
         StealNothing, Sleep, TimeOut, Execute, RunFunc, Complete, Unregister, entries
<1>2. CustodyKept
  <2>1. CASE QuietStep(w) \/ PopOwn(w) \/ DrainPush(w)
    BY <2>1, QuietCustody, PopCustody, DrainPushCustody, CustodyChange DEF Custody
  <2>2. CASE DrainOne(w)
    BY <2>2, DrainOneCustody, CustodyChange DEF Custody
  <2>3. ASSUME NEW v \in Worker, Steal(w, v) PROVE CustodyKept
    BY <2>3, StealCustody, CustodyChange DEF Custody
  <2>. QED  BY <2>1, <2>2, <2>3 DEF WorkerStep, QuietStep
<1>3. \A t \in Task : state'[t] = "none" <=> state[t] = "none"
  <2>1. CASE Execute(w) \/ Complete(w)
    <3>1. PICK t : t = worker[w].task
      OBVIOUS
    <3>2. t \in Task /\ state[t] # "none"
      BY <2>1, <3>1, InHand DEF Execute, Complete, Busy, Life, WorkerLife, AtStage, Fresh
    <3>3. \E s \in {"running", "completed"} : state' = [state EXCEPT ![t] = s]
      BY <2>1, <3>1 DEF Execute, Complete
    <3>4. state \in [Task -> {"none", "pending", "running", "completed"}]
      BY DEF TypeInv
    <3>. QED  BY <3>2, <3>3, <3>4
  <2>2. CASE state' = state
    BY <2>2
  <2>. QED
    BY <2>1, <2>2
    DEF WorkerStep, Loop, PopOwn, PopNull, DrainOne, DrainPush, DrainInline, DrainEnds, Steal,
        StealNothing, Sleep, TimeOut, RunFunc, Unregister, entries
<1>4. \A t : Waiting(t)' = Waiting(t)
  <2>1. CASE Complete(w)
    <3>1. client' = awakened(worker[w].task) /\ worker[w].task \in Task
      BY <2>1, InHand DEF Complete, Busy
    <3>. QED  BY <3>1, awakenedMoves DEF Waiting, Awaiting
  <2>2. CASE client' = client
    BY <2>2 DEF Waiting
  <2>. QED
    BY <2>1, <2>2
    DEF WorkerStep, Loop, PopOwn, PopNull, DrainOne, DrainPush, DrainInline, DrainEnds, Steal,
        StealNothing, Sleep, TimeOut, Execute, RunFunc, Unregister
<1>. QED  BY <1>1, <1>2, <1>3, <1>4, SameRefs

\* One reference given up by its holder or by a client that awaited the task.
LEMMA DroppedRef ==
  ASSUME TypeInv, RefInv, NEW t \in Task, dropRef(t), state' = state, state[t] # "none",
         ref_count[t] > 0,
         \A u \in Task \ {t} : (InCustody(u)' <=> InCustody(u)) /\ Waiting(u)' = Waiting(u),
         Held(t)' + Cardinality(Waiting(t)') = Held(t) + Cardinality(Waiting(t)) - 1
  PROVE  RefInv'
<1>1. /\ ref_count \in [Task -> Int]
      /\ ref_count' = [ref_count EXCEPT ![t] = @ - 1]
      /\ freed' = IF ref_count[t] = 1 THEN freed \union {t} ELSE freed
  BY DEF TypeInv, dropRef, isLast
<1>2. ref_count'[t] = Held(t)' + Cardinality(Waiting(t)')
  <2>1. ref_count'[t] = ref_count[t] - 1
    BY <1>1
  <2>2. ref_count[t] = Held(t) + Cardinality(Waiting(t))
    BY DEF RefInv
  <2>3. Held(t) \in {0, 1} /\ Held(t)' \in {0, 1} /\ Cardinality(Waiting(t)) \in Nat
    BY WaitingCount DEF Held
  <2>4. Cardinality(Waiting(t)') \in Nat
    <3>1. Waiting(t)' \subseteq Client /\ IsFiniteSet(Client)
      BY SchedulerAssumption DEF Waiting
    <3>. QED  BY <3>1, FS_Subset, FS_CardinalityType
  <2>5. PICK n \in Nat : n = Cardinality(Waiting(t))
    BY <2>3
  <2>6. PICK m \in Nat : m = Cardinality(Waiting(t)')
    BY <2>4
  <2>7. Held(t)' + m = Held(t) + n - 1 /\ ref_count[t] = Held(t) + n
    BY <2>2, <2>5, <2>6
  <2>8. ref_count[t] - 1 = Held(t)' + m
    BY <2>3, <2>7
  <2>. QED  BY <2>1, <2>6, <2>8
<1>3. t \in freed' <=> state'[t] # "none" /\ ref_count'[t] = 0
  BY <1>1 DEF RefInv
<1>4. \A u \in Task \ {t} : /\ ref_count'[u] = ref_count[u] /\ Held(u)' = Held(u)
                            /\ u \in freed' <=> u \in freed
  BY <1>1 DEF Held
<1>. QED  BY <1>2, <1>3, <1>4 DEF RefInv

LEMMA ReleaseRefs ==
  ASSUME TypeInv, Custody, Life, RefInv, NEW w \in Worker, Release(w)
  PROVE  RefInv'
<1>1. PICK t : t = worker[w].task
  OBVIOUS
<1>2. t \in Task /\ state[t] = "completed" /\ dropRef(t) /\ state' = state /\ client' = client
  BY <1>1, InHand DEF Life, WorkerLife, Release, Busy, AtStage
<1>3. InCustody(t) /\ \A u \in Task : InCustody(u)' <=> InCustody(u) /\ u # t
  BY <1>1, <1>2, ReleaseCustody, CustodyChange DEF Custody
<1>4. \A u : Waiting(u)' = Waiting(u)
  BY <1>2 DEF Waiting
<1>5. Held(t) = 1 /\ Held(t)' = 0 /\ Cardinality(Waiting(t)) \in Nat
  BY <1>2, <1>3, WaitingCount DEF Held
<1>6. ref_count[t] > 0
  BY <1>2, <1>5 DEF RefInv
<1>7. Held(t)' + Cardinality(Waiting(t)') = Held(t) + Cardinality(Waiting(t)) - 1
  BY <1>4, <1>5
<1>. QED  BY <1>2, <1>3, <1>4, <1>6, <1>7, DroppedRef

LEMMA QuietCallRefs ==
  ASSUME TypeInv, Custody, Life, RefInv, NEW c \in Client,
         \/ CountSpawned(c) \/ AwaitCheck(c) \/ StatsBegin(c) \/ StatsEnd(c) \/ Stop(c)
         \/ DestroyBegin(c) \/ Enqueue(c)
  PROVE  RefInv'
<1>1. ref_count' = ref_count /\ freed' = freed /\ state' = state
  BY DEF CountSpawned, AwaitCheck, StatsBegin, StatsEnd, Stop, DestroyBegin, Enqueue, entries
<1>2. CustodyKept
  <2>1. CASE Enqueue(c)
    BY <2>1, EnqueueCustody, CustodyChange DEF Custody
  <2>2. CASE QuietCall(c)
    BY <2>2, QuietCallCustody, CustodyChange DEF Custody
  <2>. QED  BY <2>1, <2>2 DEF QuietCall
<1>3. ASSUME NEW t \in Task PROVE Waiting(t)' = Waiting(t)
  <2>1. ASSUME NEW pc, NEW task, ClientTo(c, pc, task), pc \notin Awaiting,
               client[c].pc \notin Awaiting
        PROVE  Waiting(t)' = Waiting(t)
    BY <2>1, WaitingMoves DEF Waiting
  <2>2. CASE Enqueue(c) \/ CountSpawned(c) \/ StatsBegin(c) \/ StatsEnd(c)
    BY <2>1, <2>2, ClientMoves DEF Enqueue, CountSpawned, StatsBegin, StatsEnd, Awaiting
  <2>3. CASE DestroyBegin(c)
    <3>1. client[c].pc = "idle" /\ ClientTo(c, "destroying", client[c].task)
      BY <2>3, ClientMoves DEF DestroyBegin
    <3>. QED  BY <2>1, <3>1 DEF Awaiting
  <2>4. CASE AwaitCheck(c)
    <3>1. PICK pc \in {"drop", "wait"} : ClientTo(c, pc, client[c].task)
      BY <2>4, ClientMoves
    <3>. QED  BY <2>4, <3>1 DEF AwaitCheck, ClientTo, Waiting, Awaiting
  <2>5. CASE Stop(c)
    BY <2>5 DEF Stop, Waiting
  <2>. QED  BY <2>2, <2>3, <2>4, <2>5
<1>. QED  BY <1>1, <1>2, <1>3, SameRefs

LEMMA SpawnRefs ==
  ASSUME TypeInv, Custody, Life, RefInv, NEW c \in Client, NEW t \in Task, Spawn(c, t)
  PROVE  RefInv'
<1>1. /\ ref_count' = [ref_count EXCEPT ![t] = 1] /\ freed' = freed
      /\ state' = [state EXCEPT ![t] = "pending"] /\ state[t] = "none" /\ client[c].pc = "idle"
      /\ ref_count \in [Task -> Int]
      /\ state \in [Task -> {"none", "pending", "running", "completed"}]
  BY DEF Spawn, TypeInv
<1>2. ClientTo(c, "enqueue", t)
  BY ClientMoves
<1>3. \A u : Waiting(u)' = Waiting(u)
  BY <1>1, <1>2, WaitingMoves DEF Waiting, Awaiting
<1>4. \A u \in Task : InCustody(u)' <=> InCustody(u) \/ u = t
  BY <1>1, SpawnCustody, CustodyChange DEF Custody, Hands
<1>5. Waiting(t) = {}
  BY <1>1 DEF Waiting, Life, ClientLife
<1>6. Cardinality(Waiting(t)') = 0
  BY <1>3, <1>5, FS_EmptySet
<1>7. ref_count'[t] = 1 /\ Held(t)' = 1
  BY <1>1, <1>4 DEF Held
<1>8. t \notin freed'
  BY <1>1 DEF RefInv
<1>9. \A u \in Task \ {t} : /\ ref_count'[u] = ref_count[u] /\ Held(u)' = Held(u)
                            /\ state'[u] = state[u] /\ Waiting(u)' = Waiting(u)
  BY <1>1, <1>3, <1>4 DEF Held
<1>10. ref_count'[t] = Held(t)' + Cardinality(Waiting(t)')
  BY <1>6, <1>7
<1>. QED  BY <1>1, <1>7, <1>8, <1>9, <1>10 DEF RefInv

LEMMA AwaitRefs ==
  ASSUME TypeInv, Custody, Life, RefInv, NEW c \in Client, NEW t \in Task, Await(c, t)
  PROVE  RefInv'
<1>1. /\ ref_count' = [ref_count EXCEPT ![t] = @ + 1] /\ freed' = freed /\ state' = state
      /\ client[c].pc = "idle" /\ t \in task_map /\ ref_count \in [Task -> Int]
  BY DEF Await, awaitRef, TypeInv
<1>2. ClientTo(c, "check", t)
  BY ClientMoves
<1>3. /\ Waiting(t)' = Waiting(t) \union {c} /\ c \notin Waiting(t)
      /\ \A u \in Task \ {t} : Waiting(u)' = Waiting(u)
  BY <1>1, <1>2, WaitingMoves DEF Waiting, Awaiting
<1>4. Cardinality(Waiting(t)') = Cardinality(Waiting(t)) + 1
  BY <1>3, WaitingCount, FS_AddElement
<1>5. \A u \in Task : Held(u)' = Held(u)
  BY QuietCallCustody, CustodyChange DEF Custody, QuietCall, CustodyKept, Held
<1>6. InCustody(t) /\ Held(t) = 1 /\ Cardinality(Waiting(t)) \in Nat
  BY <1>1, WaitingCount DEF Held, Life, TaskLife
<1>7. ref_count[t] = 1 + Cardinality(Waiting(t))
  BY <1>6 DEF RefInv
<1>8. ref_count'[t] = ref_count[t] + 1 /\ \A u \in Task \ {t} : ref_count'[u] = ref_count[u]
  BY <1>1
<1>9. ref_count'[t] = Held(t)' + Cardinality(Waiting(t)') /\ ref_count'[t] # 0 /\ ref_count[t] # 0
  BY <1>4, <1>5, <1>6, <1>7, <1>8
<1>10. t \notin freed'
  BY <1>1, <1>9 DEF RefInv
<1>. QED  BY <1>1, <1>3, <1>5, <1>8, <1>9, <1>10 DEF RefInv

LEMMA AwaitDropRefs ==
  ASSUME TypeInv, Custody, Life, RefInv, NEW c \in Client, AwaitDrop(c)
  PROVE  RefInv'
<1>1. PICK t : t = client[c].task
  OBVIOUS
<1>2. t \in Task /\ client[c].pc = "drop" /\ dropRef(t) /\ state' = state
  BY <1>1, InHand DEF AwaitDrop, Awaiting
<1>3. state[t] # "none"
  BY <1>1, <1>2 DEF Life, ClientLife
<1>4. ClientTo(c, "idle", None)
  BY ClientMoves
<1>5. /\ c \in Waiting(t) /\ Waiting(t)' = Waiting(t) \ {c}
      /\ \A u \in Task \ {t} : Waiting(u)' = Waiting(u)
  BY <1>1, <1>2, <1>4, WaitingMoves, SMTT(15) DEF Waiting, Awaiting
<1>6. Cardinality(Waiting(t)') = Cardinality(Waiting(t)) - 1
  BY <1>5, WaitingCount, FS_RemoveElement
<1>7. CustodyKept
  BY QuietCallCustody, CustodyChange DEF Custody, QuietCall
<1>8. Held(t)' = Held(t) /\ Held(t) \in {0, 1}
  BY <1>2, <1>7 DEF CustodyKept, Held
<1>9. Cardinality(Waiting(t)) \in Nat /\ Cardinality(Waiting(t)) # 0
  BY <1>5, WaitingCount
<1>10. ref_count[t] = Held(t) + Cardinality(Waiting(t))
  BY <1>2 DEF RefInv
<1>11. ref_count[t] > 0
  BY <1>8, <1>9, <1>10
<1>12. Held(t)' + Cardinality(Waiting(t)') = Held(t) + Cardinality(Waiting(t)) - 1
  BY <1>6, <1>8, <1>9
<1>13. \A u \in Task \ {t} : (InCustody(u)' <=> InCustody(u)) /\ Waiting(u)' = Waiting(u)
  BY <1>5, <1>7 DEF CustodyKept
<1>. QED  BY <1>2, <1>3, <1>11, <1>12, <1>13, DroppedRef

LEMMA DestroyRefs ==
  ASSUME TypeInv, Custody, Life, RefInv, NEW c \in Client, DestroyEnd(c)
  PROVE  RefInv'
<1>1. /\ ref_count' = [t \in Task |-> IF t \in task_map THEN ref_count[t] - 1 ELSE ref_count[t]]
      /\ freed' = freed \union {t \in task_map : ref_count[t] = 1}
      /\ state' = state /\ client[c].pc = "destroying"
      /\ \A w \in Worker : worker[w].pc = "exited"
  BY DEF DestroyEnd, isLast
<1>2. ClientTo(c, "destroyed", client[c].task)
  BY ClientMoves
<1>3. \A t : Waiting(t)' = Waiting(t)
  BY <1>1, <1>2, WaitingMoves DEF Waiting, Awaiting
<1>4. \A t \in Task : Held(t)' = 0
  BY DestroyLife, CustodyChange DEF Custody, Held
<1>5. \A t \in Task : InCustody(t) <=> t \in task_map
  <2>1. \A w \in Worker : worker[w].task = None
    BY <1>1 DEF TypeInv, Busy
  <2>2. \A t \in Task : InCustody(t) => Queued(t)
    BY <2>1 DEF InCustody, Queued, Own
  <2>. QED  BY <2>2 DEF Life, QueueLife, TaskLife, Fresh
<1>6. ASSUME NEW t \in Task
      PROVE  /\ ref_count'[t] = Held(t)' + Cardinality(Waiting(t)')
             /\ t \in freed' <=> state'[t] # "none" /\ ref_count'[t] = 0
  <2>1. /\ ref_count[t] = Held(t) + Cardinality(Waiting(t)) /\ Cardinality(Waiting(t)) \in Nat
        /\ t \in freed <=> state[t] # "none" /\ ref_count[t] = 0
    BY WaitingCount DEF RefInv
  <2>2. CASE t \in task_map
    <3>1. Held(t) = 1 /\ state[t] # "none" /\ ref_count'[t] = ref_count[t] - 1
      BY <1>1, <1>5, <2>2 DEF Held, Life, TaskLife
    <3>2. t \in freed' <=> t \in freed \/ ref_count[t] = 1
      BY <1>1, <2>2
    <3>. QED  BY <1>1, <1>3, <1>4, <2>1, <3>1, <3>2
  <2>3. CASE t \notin task_map
    <3>1. Held(t) = 0 /\ ref_count'[t] = ref_count[t]
      BY <1>1, <1>5, <2>3 DEF Held
    <3>2. t \in freed' <=> t \in freed
      BY <1>1, <2>3
    <3>. QED  BY <1>1, <1>3, <1>4, <2>1, <3>1, <3>2
  <2>. QED  BY <2>2, <2>3
<1>. QED  BY <1>6 DEF RefInv

LEMMA RefStep ==
  ASSUME TypeInv, Custody, Life, RefInv, [Next]_vars
  PROVE  RefInv'
<1>1. ASSUME NEW w \in Worker, WorkerStep(w) PROVE RefInv'
  BY <1>1, WorkerRefs, ReleaseRefs
<1>2. ASSUME NEW c \in Client, ClientStep(c) \/ Call(c) PROVE RefInv'
  BY <1>2, ClientActs, QuietCallRefs, SpawnRefs, AwaitRefs, AwaitDropRefs, DestroyRefs
<1>3. CASE UNCHANGED vars
  BY <1>3 DEF RefInv, Held, Waiting, InCustody, Own, Hands, vars, queues, entries
<1>. QED  BY <1>1, <1>2, <1>3 DEF Next

LEMMA InitRefs == Init => RefInv
<1>. SUFFICES ASSUME Init, NEW t \in Task
     PROVE  /\ ref_count[t] = Held(t) + Cardinality(Waiting(t))
            /\ t \in freed <=> state[t] # "none" /\ ref_count[t] = 0
  BY DEF RefInv
<1>1. Held(t) = 0
  BY InitLife DEF Init, Life, TaskLife, Held
<1>2. Cardinality(Waiting(t)) = 0
  BY FS_EmptySet DEF Init, Waiting, Awaiting
<1>. QED  BY <1>1, <1>2 DEF Init

\* The inductive invariant: types, owners, lives and references.
IInv == TypeInv /\ Custody /\ Life /\ RefInv

LEMMA InvariantAlways == Spec => []IInv
<1>1. Init => IInv
  BY InitTypes, InitLife, InitRefs DEF IInv
<1>2. IInv /\ [Next]_vars => IInv'
  BY TypeStep, LifeStep, RefStep DEF IInv
<1>. QED  BY <1>1, <1>2, PTL DEF Spec

(* The types of the scheduler's state; above all no reference count goes below zero, *)
(* or above one for the task's holder and one for every client.                      *)
THEOREM TypeCorrect == Spec => []TypeOK
<1>1. IInv => TypeOK
  <2>. SUFFICES ASSUME IInv PROVE TypeOK
    OBVIOUS
  <2>1. TypeInv /\ RefInv
    BY DEF IInv
  <2>2. ASSUME NEW t \in Task PROVE ref_count[t] \in 0..(Cardinality(Client) + 1)
    <3>1. PICK n \in Nat : n = Cardinality(Waiting(t)) /\ n <= Cardinality(Client)
      BY WaitingCount
    <3>2. ref_count[t] = Held(t) + n /\ Held(t) \in {0, 1}
      BY <2>1, <3>1 DEF RefInv, Held
    <3>3. Cardinality(Client) \in Nat
      BY SchedulerAssumption, FS_CardinalityType
    <3>. QED  BY <3>1, <3>2, <3>3
  <2>3. ref_count \in [Task -> 0..(Cardinality(Client) + 1)]
    BY <2>1, <2>2 DEF TypeInv
  <2>. QED  BY <2>1, <2>3 DEF TypeInv, TypeOK, WorkerState, ClientState
<1>. QED  BY <1>1, InvariantAlways, PTL

(* A task's function runs at most once, whoever steals it and even when its deque   *)
(* cannot grow, and a client that awaits it goes on only afterwards.                *)
THEOREM TasksRunOnce == Spec => []RunsOnce
<1>1. IInv => RunsOnce
  <2>. SUFFICES ASSUME IInv PROVE RunsOnce
    OBVIOUS
  <2>1. \A t \in Task : runs[t] <= 1 /\ (state[t] = "completed" => runs[t] = 1)
    BY DEF IInv, Life, TaskLife
  <2>2. \A c \in Client : client[c].pc = "drop" => state[client[c].task] = "completed"
    BY DEF IInv, Life, ClientLife
  <2>. QED  BY <2>1, <2>2 DEF RunsOnce
<1>. QED  BY <1>1, InvariantAlways, PTL

(* A destroyed entry is out of everybody's reach: no queue, no registered id, no   *)
(* worker and no waiting client has it, since each of them holds a reference.      *)
THEOREM EntriesOutliveTheirUsers == Spec => []NoUseAfterFree
<1>1. IInv => NoUseAfterFree
  <2>. SUFFICES ASSUME IInv, NEW t \in freed
       PROVE  /\ t \notin task_map
              /\ \A i \in 1..Len(injector) : injector[i] # t
              /\ \A w \in Worker : worker[w].task # t /\ \A i \in 1..Len(deque[w]) : deque[w][i] # t
              /\ \A c \in Client : client[c].task = t => client[c].pc = "count"
    BY DEF NoUseAfterFree
  <2>1. t \in Task /\ t # None /\ TypeInv
    BY SchedulerAssumption DEF IInv, TypeInv
  <2>2. PICK n \in Nat : n = Cardinality(Waiting(t))
    BY WaitingCount
  <2>3. Held(t) + n = 0 /\ Held(t) \in {0, 1}
    BY <2>1, <2>2 DEF IInv, RefInv, Held
  <2>4. Held(t) = 0 /\ n = 0
    BY <2>3
  <2>5. ~InCustody(t) /\ Waiting(t) = {}
    <3>1. ~InCustody(t)
      BY <2>4 DEF Held
    <3>2. Cardinality(Waiting(t)) = 0
      BY <2>2, <2>4
    <3>. QED  BY <3>1, <3>2, WaitingCount
  <2>6. t \notin task_map
    BY <2>1, <2>5 DEF IInv, Life, TaskLife
  <2>7. /\ t \notin Tasks(injector)
        /\ \A w \in Worker : t \notin Tasks(deque[w]) /\ worker[w].task # t
        /\ \A c \in Client : t \notin Hands(c)
    BY <2>1, <2>5 DEF InCustody, Own
  <2>8. ASSUME NEW c \in Client, client[c].task = t PROVE client[c].pc = "count"
    <3>1. client[c].pc \in Awaiting \union {"enqueue", "count"}
      BY <2>1, <2>8 DEF TypeInv
    <3>. QED  BY <2>5, <2>7, <2>8, <3>1 DEF Waiting, Hands
  <2>. QED  BY <2>6, <2>7, <2>8 DEF Tasks
<1>. QED  BY <1>1, InvariantAlways, PTL

(* And when the last of them is done with a finished task, its entry is destroyed. *)
THEOREM EntriesAreDestroyed == Spec => []NoEntryLeaks
<1>1. IInv => NoEntryLeaks
  <2>. SUFFICES ASSUME IInv, NEW t \in Task, state[t] # "none", t \notin task_map,
                       \A w \in Worker : worker[w].task # t,
                       \A c \in Client : client[c].task = t => client[c].pc = "count"
                PROVE  t \in freed
    BY DEF NoEntryLeaks
  <2>1. ~Queued(t)
    BY DEF IInv, Life, QueueLife, Fresh
  <2>2. ~InCustody(t)
    BY <2>1 DEF InCustody, Own, Queued
  <2>3. Waiting(t) = {}
    BY DEF Waiting, Awaiting
  <2>4. Held(t) = 0 /\ Cardinality(Waiting(t)) = 0
    BY <2>2, <2>3, WaitingCount DEF Held
  <2>5. ref_count[t] = 0
    BY <2>4 DEF IInv, RefInv
  <2>. QED  BY <2>5 DEF IInv, RefInv
<1>. QED  BY <1>1, InvariantAlways, PTL
=============================================================================
