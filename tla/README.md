# Formal models of zig-forge

The repository is a collection of Zig and C programs and libraries. This directory
models those whose correctness rests on the order of steps of several actors: the
consensus node of a replicated store and its log on disk, the lock-free queues, the
work-stealing scheduler with its deque, and the C programs that run inside the kernel and
watch processes (eBPF programs), with the daemons they report to. Each has TLA+ modules
translated from the source, TLC instances that check them, and for most of them proofs
that TLAPS checks.

Paths below are relative to `src/programs/`.

## Inventory

**distributed_kv, Raft node** (`distributed_kv/src/raft.zig`). State: term, vote, log,
role, commit and apply indices, and a map of per-peer next and match indices and
votes. Operations: `tick()`, called for ever by the node's tick thread, four RPC
handlers called by the transport, `submit()` called by clients; each holds the node's
mutex from beginning to end. It calls a `Transport` to send, a state machine to apply,
and a write-ahead log. Hard: messages lost, repeated, delayed and reordered;
equal-term step-downs that forget a vote; match indices guessed from responses that
carry no index. Correct when: a term has one leader, logs match, committed entries stay
and replicas apply the same entries.

**distributed_kv, write-ahead log and wiring** (`wal.zig`, `lib.zig`). State: segment files
of checksummed records. Operations: append vote and entry records, recover at
start. Hard: crashes inside a batch of records, torn records, records of entries that were cut,
data freed at the end of recovery. Correct when: a restarted node has every vote it answered for,
and the records tell the log.

**distributed_kv, key-value store** (`kv.zig`), **RPC and client** (`rpc.zig`, `client.zig`).
A map of versioned values over the log; framing over TCP, a connection pool, retries.
As the program's own README says, responses are not routed back to the consensus node yet and
entries are not serialized; the node is therefore modelled with the transport its
interface describes.

**lockfree_queue, SPSC ring** (`spsc/queue.zig`, `lockfree_core.zig`). State: head, tail
and slots, and the heap buffers whose ownership the C interface passes through the
slots. Operations: push, pop, len, isEmpty, isFull, create, destroy. Hard: a stale index
on either side, an index read apart from another. Correct when: it is a bounded FIFO
buffer, no slot is touched from two sides at once, every buffer is freed once.

**lockfree_queue, MPMC ring** (`mpmc/queue.zig`). State: head, tail, a turn and a value per
slot. Operations: push, pop. Hard: claim and publication are separate steps and
compare-and-swap may fail spuriously. Correct when: it is a bounded FIFO buffer for any
number of threads, and a call returns whatever the others do.

**async_scheduler, deque** (`deque/worksteal.zig`). State: top, bottom, the current array
and the retired ones. Operations: push (may grow) and pop by the owner, steal by
anybody. Hard: the race for the last task, thieves that hold an old array. Correct when:
each task is taken once, by its owner from one end and by thieves from the other.

**async_scheduler, scheduler** (`scheduler/worksteal.zig`, `async_core.zig`,
`task/handle.zig`). State: the injection list, a deque per worker, a registry of task
entries with reference counts, a condition variable for idle workers and one per task.
Operations: spawn, await, statistics, stop, destroy; the worker's loop. It composes the
deque and the registry. Hard: entries shared by worker, awaiting threads and registry;
wake-ups; stopping. Correct when: each task runs once, each entry is freed once, after
its last use, and no spawned task or awaiting thread is forgotten.

**Guardian Shield v9** (`guardian_shield/guardian-shield-v9/`: `bpf/guardian_shield.bpf.c` in
the kernel, `guardian_shield_loader.zig` in user space). State: a tag per process, a trie of
protected path prefixes with the operations each guards, the switches of `runtime_cfg`, a
ring buffer of violations. Operations: tracepoints on fork, exec and exit keep the tags;
LSM hooks rebuild the path of a file and refuse or report; the loader fills the trie, attaches
program after program and flips `ready`. Hard: tags through long orders of clone, fork, exec, exit
and reuse of a pid, with a map that may be full; files that move between guards; paths of which a hook sees
a part or nothing; the trie compares bytes while the rules
mean directories; hooks that run before the policy is whole. Correct when: a tag is what the
lineage calls for, no sequence of allowed calls sheds a guard, and nothing is refused before
the policy is complete.

**Guardian Observer** (`guardian_shield/src/guardian_observer/`). State: the registered pids
and a ring buffer. Operations: kprobes on execve, openat, unlink and rename record the call of
a registered process; a daemon judges the records and sends SIGKILL or SIGSTOP to the pid.
Hard: the verdict comes after the call, to a pid that may have changed hands; full ring;
arguments that cannot be read. Correct when: the worst verdict on what a process did is
reached.

**zig_sentinel's eBPF monitors** (`guardian_shield/src/zig_sentinel/ebpf/`). Three of them
decide at exec by a list of names (`inquisitor`, `inquisitor-simple`, `oracle-advanced`); two
count every system call and send the monitored ones to a daemon (`grimoire-oracle`,
`syscall_counter`). Hard: the name judged is not always the program's; look-up of a count
and its increment or insertion are two steps; counters incremented one by one on several processors. Correct when:
a list is read as it is described, counters add up to the events. That a refused program does
not run holds of none of the three (see `Judged` below).

**claude-shepherd** (`claude-shepherd/src/ebpf/shepherd.bpf.c`, `ebpf_consumer.zig`,
`state.zig`). State: a kernel table of sessions and a daemon's set of instances, joined by a
ring buffer. Hard: full ring, full table, exits of single threads, pids used again. Correct
when: the two sets agree once the ring is read, and an entry is about the present process.

**Terminal probe and watchers** (`cognitive_telemetry_kit/src/cognitive-oracle-v2.bpf.c` and
`cognitive-watcher-v2.c`, and `chronos_engine/src/`, where the probe is the same file and the
watcher a variant). State: in the kernel a ring buffer, counters and a map of latest states; in
the watcher a hash of the last frame, a tracker of the state under way and a database table.
Operations: the probe on terminal writes, one event of the watcher, its start. Hard:
reserve, fill and submit on several processors; failed and ignored inserts between equal
frames; a row that is written when its state has already been replaced; restarts. Correct when:
every write is emitted, dropped, without a terminal or under way, and what the watcher
answered for is stored.

The rest of the repository (tools, kernels, codecs, cryptography, user interfaces) is listed
with its reason in `PROJECT.json`.

## Plan

Done, in this order because consensus and shared memory are what the rest stands on:

1. `KvRaft`; 2. `SpscQueue` and `MpmcQueue` against the abstract `BoundedFifo`;
3. `WorkStealDeque` against the abstract `TaskDeque`; 4. `Scheduler`, over the deque's
   abstract operations; 5. proofs for the SPSC ring and of election safety for the Raft node;
6. `KvDurable`: crash, torn tail and recovery of the Raft node; 7. `GuardianShield` over
   `ShieldPolicy` (the trie) and `DentryWalk` (the path of a file), with proofs;
8. `Sentinels`: the process monitors `AgentObserver`, `Shepherd` and `ExecVerdict` composed
   through the processes they watch, and `SyscallOracle` beside them, with proofs;
9. `CognitiveWatch` over `FrameParse`, with proofs; 10. proofs for the `Scheduler`; 11. log matching as a theorem;
12. proofs for `WorkStealDeque` and `MpmcQueue`; 13. votes and records across restarts (`KvDurable`), the
counters of `SyscallOracle` and the meaning of a lookup (`ShieldPolicy`) as theorems; 14. `KvCommit`:
what a majority accepted, and what committing and applying rest on, as theorems; 15. what the walk, the
lists, the daemons' tables and the frame parser compute (`PathsReconstructed`, `ListsFindWhatTheySay`,
`InstancesStayInStep`, `FramesAreAlwaysRead`) as theorems.

Worth doing next, by what it would add: the tagging of processes that already run when Guardian Shield is
loaded; JetStream consumers of `zats` (redelivery and limits).

## Modules

| module | models | state and actions |
|---|---|---|
| `KvRaft` | `raft.zig` | the fields of `RaftNode`; one action per entry point, since each holds the mutex throughout |
| `KvDurable` | `raft.zig` with `wal.zig` and `lib.zig` | extends `KvRaft`: each handler with the records it writes, where the code writes them; `Crash` (also in the middle of a record, or of a batch: `CrashAppending`), `start` with recovery |
| `KvCommit` | the histories behind commitment | `KvRaft`'s actions, each with what it adds to two histories: which batches were accepted (a reply does not say), and the log of each term's leader |
| `BoundedFifo` | what the queues promise | a sequence, and per caller the phase of its operation |
| `SpscQueue` | `spsc/queue.zig` under `lockfree_core.zig` | one action per shared load or store of producer, consumer and observers; the set of allocated buffers |
| `MpmcQueue` | `mpmc/queue.zig` | one action per shared access of any thread |
| `TaskDeque` | what the deque promises | a sequence taken from at both ends |
| `WorkStealDeque` | `deque/worksteal.zig` | one action per shared access; arrays kept by generation, so that thieves may hold an old one; a store to a cell has a beginning and an end |
| `Scheduler` | `scheduler/worksteal.zig`, `async_core.zig`, `task/handle.zig` | one action per critical section or atomic access; deque operations are single steps, as `WorkStealDeque` implements `TaskDeque` |
| `ShieldPolicy` | trie, free names and scopes of `guardian_shield.bpf.c` | operators: longest matching byte prefix, and what the rules mean by components |
| `DentryWalk` | `collect_cb`, `emit_cb` and the path they assemble | operators: the walk up the dentries and across mounts, the buffer, and the path it should be |
| `GuardianShield` | `guardian_shield.bpf.c`, `guardian_shield_loader.zig` | the maps, the processes with their threads and the directory entries of files; one action per tracepoint, per LSM hook with the call it allows, and per step of the loader |
| `Processes` | | the pids, programs and signals the monitors share |
| `AgentObserver` | `guardian-observer.bpf.c`, `guardian-observer.c`, `guardian-judge.c` | registered pids and ring; operators for hooks and daemon |
| `Shepherd` | `shepherd.bpf.c`, `ebpf_consumer.zig`, `state.zig` | table, ring, instances; operators for hooks and daemon |
| `ExecVerdict` | the three exec-time monitors | operators: how a list judges a name |
| `Sentinels` | a machine on which these run | processes that fork, exec, call, write, exit; each action applies the hooks that run in it |
| `SyscallOracle` | `grimoire-oracle.bpf.c`, `syscall_counter.bpf.c` | one action per atomic step of a hook on any processor; the ring with busy records |
| `FrameParse` | parsing of a terminal frame in `cognitive-watcher-v2.c` | operators: escape sequences, state name, tool name, status line |
| `CognitiveWatch` | the probe and both watchers | one action per step of the probe, one per event of the watcher, its start and the clock |
| `SpscQueueProofs`, `MpmcQueueProofs`, `WorkStealDequeProofs`, `KvRaftProofs`, `GuardianShieldProofs`, `SentinelsProofs`, `CognitiveWatchProofs`, `SchedulerProofs` | | theorems and their lemmas |
| `MC...` | | instances for TLC |

Abstractions. Memory is sequentially consistent: each queue's publication uses release and
acquire (or sequentially consistent) operations on the index that guards the data, and
the models break plain data accesses into steps so that an overlap shows. Weak
compare-and-swaps may fail for no reason. Messages of `KvRaft` are kept for ever in a set, and
any of them may be delivered at any moment any number of times, which covers loss, delay,
repetition and reordering. Time is left out: a timeout may fire whenever its branch is open.
A trap on an overflow or a bounds check is a state of its own (`underflow`, `panicked`).

`KvDurable`: a process crashes and the machine does not (`sync()` is never called); a write that
returns has not failed (the code drops such errors); a term learned from a heartbeat and the
cutting of a log leave no record, as in the code. What a handler writes is stated apart from what
it does to the log: a record per vote and per appended entry. `RecordsGiveLog` relates the two. A
reader that goes by the index of each record finds the log of every node (`Replays`), one
that goes by position, as `recover()` does, that of a node that never cut (`ReadsInOrder`).

`GuardianShield`: a process is a thread group, with its leader, other threads or both; when another thread
executes, the leader ends first (`gs_exit`, then `gs_exec`). Any update that makes an entry in the tag map may
fail, since the map holds the processes of the whole machine. A path is a sequence of components and the byte
prefixes that are no component prefixes are given (`BytePrefix`); renaming a directory leaves the entries below
it alone. A hook judges what it sees of a place: `Seen` is what `reconstruct_path` yields there, which at the
end of the walk's budget is the end of the path and is cut where the buffer is full; `bpf_d_path` gives the
whole path or fails. The buffers hold a number of components (`MAX_PATH_LEN`) in place of 128 bytes. They are
per processor; that a hook is not preempted on its processor by another that uses the same slot is assumed. The
exits for a buffer that does not exist (lines 537, 587, 655, 876) cannot be taken: the array has both slots.
`lineage`, `lost`, `owed`, `taken` and `missed` are histories: what a process and its ancestors have executed
since the last override (which counts until an agent or a build tool follows), which living processes had
their tag deleted or not stored, what an entry guarded where it was last put freely, what the last step did in
spite of it, and whether a process event fell between two attachments.

`Sentinels`: a command line is the set of the kinds of patterns in it, and what the kprobe
reads of it is either that or nothing (an argument whose page is not resident). Names are
sequences of letters, since the monitors compare prefixes of different length. What an exec-time
monitor is shown as the program's name (`Judged`) is the name of the calling task for the Inquisitor,
may be the beginning of any name in the path for the simple one, which reads 255 bytes of it, and may be nothing
where a read fails. So a refused program may run under each of them, and no property says otherwise. Ring
content that was never written may be judged either way (`text = "unread"`).

`CognitiveWatch`: the probe runs in five steps, since its counters, the map and the ring are shared: it
counts the write (`Enter`), leaves where there is no argument, file or terminal (`Abandon`), reserves and
fills (`Reserve`), counts the event (`CountEmitted`), updates the map (`UpdateLatest`) and submits (`Submit`).
A frame is a short sequence of glyphs, one of them empty: a read of the buffer that failed. `FrameParse` has the
parsing. What `strip_ansi` reads are bytes of the kinds it tells apart. It drops what is below 32 but newline and
tab, which takes bytes above 127, too, where `char` is signed (`Dropped`): of a word outside ASCII nothing is left.
NUL ends the scan, in a sequence, too. The parsers behind it are modelled on what it leaves. The clock is a bounded
counter.

## Runs

Bounds are named constants of the modules, set in the `.cfg` files.

| run | question | bounds, and why they are enough |
|---|---|---|
| `raft_election` | at most one leader per term; committed entries stay and replicas agree with only the leaders' noops, one state machine failing to apply | 3 nodes, two rivals over three terms, every message of the present term may be delivered at any time: terms enough for a leader to lose its term to the other and return with the older log |
| `raft_replication` | logs match, indices stay in range and what a majority accepted is in later leaders' logs while a client submits and the first leader returns; of `CommitSpec` | starts with the second leader just elected (reachable, written out in `SecondLeader`), logs of up to 3 entries before the last noop, batches of 3 |
| `raft_lost_commit` (violation) | are committed entries safe while a client submits | the code credits a success with entries sent after the request: two replicas apply different commands at one index |
| `durable` | is a vote taken back by a restart, and do the records tell the log; when is a double vote possible | three starting states, all reachable and written out: a first leader with a client (`FirstLeader`), two rivals (`FailedCandidate`), a log of two entries a new leader cuts (`DeposedLeader`); the node in the middle crashes once, at any step; batches of two, so that a crash may fall inside one |
| `spsc` | FIFO, no slot race, buffers freed once | capacity 4 (3 messages) with 4 buffers and 9 pushes, so that the ring wraps twice and is refused when full; one observer asks for the length |
| `spsc_length` (violation) | is len safe from any thread | a pop between the two loads makes the difference negative |
| `mpmc` | no slot race, FIFO; does a call return when others stop inside theirs | 3 threads over 2 slots, 3 pushes: the ring wraps with a push and a pop under way; one thread keeps running, two may stop anywhere; two values, each thread pushes one of its own (`PushesOwn`) |
| `deque_grow` | each task taken once, in the deque's order | initial capacity 1, 4 pushes, so that it grows twice; 2 thieves |
| `scheduler_work` | entries, single execution, progress | 2 workers that steal from one another, 2 tasks, a client that spawns and one that awaits, asks, stops and destroys |
| `shield` | tags, guards, refusals, paths | 2 processes, one at a time with other threads, 2 files in at most 2 entries (1 until enforcement begins, and next to a process with more threads than one: no hook on files can tell), 6 paths under 3 rules of which two are nested, a directory name that begins like a protected one, 4 kinds of programs, 3 configurations (blocking, dry run, hardened); a tree of 14 dentries on 2 mounts, a walk of 5 steps and a buffer of 3 components, so that one path is cut and of another only the end is seen. The programs are attached in the order of the object file (`Earlier`); the LSM hooks come in two groups |
| `sentinels` | verdicts, tables, counters, lists | 2 pids, 1 fork, 3 calls, rings of one record and a table of one session: everything is full at once. The variable `half` picks the processes or the threads under the hooks of every call (2 threads, 2 numbers, 4 calls, ring and map of one). The lists are judged for all entries and names of up to 4 letters of two |
| `watch` | events, rows, restarts | 2 sessions and a shell, ring of 2, map of 1, 3 writes, 2 starts, either watcher; a clock of 2 values; frames of up to 4 glyphs; rows of up to 4 of 7 pieces with 6 ends for `strip_ansi` |

Fairness. `mpmc`: the running thread takes its steps and its
compare-and-swap on an index nobody moves does not fail for ever; the others have no
fairness. `scheduler_work`: workers and clients inside a call take their steps, task
functions return, the owner's compare-and-swap on its last task does not fail for ever, and
an idle worker's timed wait ends, since it is given 5 ms in the code. Progress is promised
only while nobody stops the scheduler. `sentinels`: the daemons poll in an endless loop
(`Judge`, `Deliver`, `Receive`), a hook that has begun runs to its end, an execve that has
begun ends, and a process that was sent SIGKILL dies. `watch`: a probe that has begun goes on (it is not
preempted for ever), and the watcher, while it runs, polls. None of these needs strong
fairness but the owner's pop of `scheduler_work`.

`VIEW` in the Raft runs drops messages that can no longer change anything their property
speaks of; `MCKvRaft` says which and why. That of `shield` drops the last refusal, which no step reads. Symmetry is used where no liveness is checked: rivals
in `raft_election`, processes and files in `shield`, which is why no file exists at its start. Deadlock is not
checked where the bounds let the system come to rest.

## What the violations mean

- `raft_lost_commit`: `handleAppendEntriesResponse` sets the match index to
  `next_index - 1 + MAX_ENTRIES_PER_RPC`, cut at the leader's log, marked "Approximate". Entries
  submitted between a heartbeat and its answer are then taken for replicated.
  Without client commands the protocol keeps what it commits (`raft_election`, and
  `QuietCommitsAreSafe` for every cluster), and what a majority really accepted is kept with them,
  too (`ChosenEntriesStay`): it is the commit index alone that is wrong.
- `spsc_length`: `len()` loads tail before head.

Seen while modelling and not kept as runs:

- A cluster of one never commits: `advanceCommitIndex` is called only on a peer's response
  (`raft.zig:743`), while `distributed_kv/README.md:11` lists "Single-node (N=1) is functional".
- An entry whose application fails is skipped on that replica for good (`raft.zig:871` moves
  `last_applied` first).
- `truncateLog` (`raft.zig:784`) leaves no record and `recover` (`wal.zig:576`) appends whatever
  entry record it reads, so the entries a node has cut are in its log again, before those that took
  their place, after a restart; `RecordsGiveLog` promises nothing from there on (`misread`). The indices in
  the records would have told. A torn record makes `start()` (`lib.zig:193`) return without an
  error and without a running node; the model lets it stay down.
- `Scheduler.stop` (`worksteal.zig:154`) clears the flag workers test before each task and leaves
  tasks queued, while `async_core.h:195` says "Graceful shutdown - waits for pending tasks to
  complete".
- `SpscQueue.isFull` compares with a length the ring never has; an MPMC ring of one slot
  overwrites its value (`MpmcAssumption` excludes it); an MPMC pop may report an empty queue
  while later slots hold values, when the push before them has not ended; `pop` of the deque may
  answer null with one task left; `as_scheduler_stats` may subtract below zero (`StatsEnd`).
- Guardian Shield: the tag of a process is deleted when its leader thread ends (`guardian_shield.bpf.c:1093`),
  though others go on, and when another thread than the leader executes, while lines 9-12 say that the tag
  "survives exec() of any other binary"; updates of the full tag map fail and nothing notices (997, 1008, 1029,
  1056, 1082). `TagIsLineage` says what is left: no tag, or a build tool's, until a program settles it.
- Guardian Shield: a place more than 16 steps from the root (`MAX_DENTRY_DEPTH`) is judged by the end of its
  path, which no rule matches, and where `bpf_d_path` fails (1182, 1228, 1268) a truncation or an open is
  allowed. A guarded entry cannot be moved to where it is not seen (`GuardTravels`), but a path can be protected
  for `unlink` and not for `open` (the exception in `OwedIsKept`).
- Guardian Shield: "protection must not DECREASE across a rename" (line 915) is not so of an exchange: the hook
  does not look at the flags and compares the source with the destination, not the destination with the source,
  so the other file may lose its guard. `GuardTravels` counts it as put freely.
- Guardian Shield: a rule whose last component is a prefix of another name matches bytes, and
  the boundary test that follows looks at the longest match only; the scopes of free names have
  no such test, and only the longest scope is asked (`MatchIsComponentwise` says where the
  lookup means what the rules say).
- Exec-time monitors: the lists are described as "substring match" (`inquisitor.bpf.c:73`,
  `oracle-advanced.bpf.c:71`, `inquisitor.zig:302`, `oracle-advanced.zig:336`), and `inquisitor.bpf.c` searches
  the whole name; `inquisitor-simple.bpf.c:150` and `oracle-advanced.bpf.c:215` compare the beginning only, so a
  word that stands later in a name is missed. `Says` is the description, `Finds` what the two look for:
  `ListsAreRead` claims the first of the Inquisitor and the second of the others. The Inquisitor judges
  the task that calls execve (`inquisitor.bpf.c:220`), not the program it starts.
- Observer: a pid stays registered after its process has ended, and a verdict on a call of its last process may
  strike the next one with that pid: the record holds only a pid (`WorstVerdictReached` says what a process gets
  at least, not at most). Shepherd: the consumer looks for
  a map `config`, the object has `shepherd_config`; any thread's exit removes the process's entry;
  a session that finds the table full is told of and never removed from the daemon.
- System call counter: threads that find a key missing at once each insert a count of 1, the later over what was
  counted since, and an increment of the entry it replaces is lost, or lands on another key's (`IncrementCount`;
  `syscall_counter.bpf.c:153-161`). `CountIsCalls` promises such keys (`raced`) only that they are not above
  their calls where no second key raced.
- `grimoire-oracle.bpf.c:100` says oldest events are dropped; the newest is.
- `strip_ansi`: the comment at `cognitive-watcher-v2.c:522` says an OSC ends at "BEL or ST"; the code
  knows BEL only (line 525), so that one ended by ST takes everything written after it with it up to the next
  BEL or the end of the frame. `TextSurvives` claims what the code does: such a sequence is one of `Cuts`.
- Watcher: one tracker serves all sessions: another session's state ends a state, and its row bears the pid and
  the time of the event that ended it. `EndedStateIsStored` is about name and duration.
- Watcher: a second episode of a state with the same name and duration leaves no row though it is
  counted as saved (`INSERT OR IGNORE`); the state under way at shutdown is never logged; the map of latest
  states never loses an entry.

## Proofs

Each theorem holds for every value of the constants. The assumptions are those named in the modules
(`SpscAssumption`, `MpmcAssumption`, `DequeAssumption`, `KvRaftAssumption`, `DurableAssumption`,
`ShieldAssumption` with `LongestMatchExists`, `PolicyAssumption`, `DentryAssumption` (dentries and mounts form
finite trees), `ProcessesAssumption`, `AgentObserverAssumption`, `ShepherdAssumption`, `SentinelsAssumption`,
`SyscallOracleAssumption`, `WatchAssumption`, `FrameAssumption`, `PieceAssumption` (a piece of a row is a text
or one whole control sequence), `SchedulerAssumption`); TLC evaluates each in a run of its module.

**`SpscQueueProofs`**. `RingInv` is inductive: types and the distance between the counters
(`TypeOK`), what a call knows between its check and its publication (`PcInv`: a push that
passed the check still has room, a pop still has its message, whatever the other side did
since), that every allocated buffer is in exactly one slot or call (`OwnerInv`), and the state
after destroy (`DestroyedInv`). The types alone are not inductive: that publishing keeps the
counters less than a capacity apart needs `PcInv`. `RingIsFifo` is the refinement of
`BoundedFifo`: the initial states map to initial states, and
each step maps to a step or a stutter under the mapping that reads the ring from tail to
head; `RingInv` excludes the steps that would not.

**`MpmcQueueProofs`**. `RingInv` has three parts besides the types. `WindowInv`: of the `capacity`
positions from head on, those before tail have their own turn or the next one in their slot, the
others their own or the one that the pop a ring before waits for. `CallsInv`: a call that has claimed
a position finds there the turn it saw until it moves it on, and a call about to claim one, too, as
long as nobody else has claimed it (it may have looked long ago). `ApartInv`: no position is claimed
twice. That two calls in one slot are calls at one position rests on arithmetic: positions less than a
ring apart have different slots (`SlotsDiffer`), and no turn is both what a push and what a pop of one
slot waits for (`NeighboursDiffer`), which is where a ring of one slot fails. That a claim finds room,
or a value, follows from the turn alone (`ClaimFindsRoom`, `ClaimFindsValue`); neither call compares
head with tail. `SlotRaceFree` follows, and `RingIsFifo` is the refinement of `BoundedFifo`: a claim is the
instant at which a call takes effect, and the value of a position is that in the hands of the call
that is about to write it, then the slot's.

**`WorkStealDequeProofs`**. `DequeInv` is the types (arrays never shrink), what the owner knows
(`OwnerInv`: a push that passed its check has a free cell, a pop that saw another value before its own
has it to itself, one that saw none races for the cell at top), and what each thief knows
(`StealInv`): as long as top is what the thief read, the cell it is about to read, or the value it has
read, is the first of the deque, though the array it holds may be an old one, because a grown array has
the same live cells (`GrowEffect`) and a store goes to a cell that is not live (`StoreEffect`); once top
has moved the thief's value is worth nothing and its compare-and-swap fails. Only then can it be torn
or another's. `DequeIsTaskDeque` is the refinement of `TaskDeque`, with the owner's pop taking effect when it
decides to take, or when it wins the race.

**`KvRaftProofs`**. Types: `TypeCorrect`, one lemma per operator (what it returns) and one per handler.
The facts with content are that an append that passes the consistency check yields a
sequence (`MergeType`), and that the slice a heartbeat carries and the index a rejected
leader resumes from stay natural.

Elections: `OneLeaderPerTerm`. The textbook argument, that a node votes once in a
term, is false of this code: a candidate that hears from the leader of its own term steps
down, forgets that it voted for itself, and may vote again in the same term. `VoteInv` is the
invariant that survives: nobody votes twice in a term before somebody is elected in it
(`OneVoteBeforeElection`), and a leader of a term has a majority of voters that are `Loyal`: they
voted for it, for nobody else, and are its followers as long as they stay in the term
(`ElectedInv`). A second candidate would need a majority that meets that one. The other conjuncts
say what a candidate's record of votes stands for (`CandidateInv`), that answers are not
ahead of their sender's term (`GrantsArePast`), that a candidate or leader voted for itself
(`OwnVote`), and that nobody sends to itself.

Logs: `LogsMatch` and its companions. A log and the entries of a request are both fragments: a position, the term
there, and the entries behind it. `Agreement` says that any two fragments, of logs or of requests
ever sent, with the same term at a position are the same up to there as far as both reach; for the
logs alone this is not inductive, since a follower merges whatever request arrives. It is kept
because a fragment changes in three ways only: a leader continues it by one entry (`Continues`), a
heartbeat takes part of it (`PartOf`), a follower splices it with a request at a position where both
have the same term (`Spliced`). That a leader's new entry is nowhere else needs `AtLeader` (what any
fragment has of the term of a leader, the leader has) and, when it has just been elected, `TermsLed`
with the one leader per term of `VoteInv`. `IndexInv` bounds what requests and replies name by the
log of the leader they concern, which stays what it was while that leader leads. The theorems hold
of every cluster; one of a single node is treated apart, since its leader sends nothing.

Commitment: `ChosenEntriesStay`, `CommitsAreSafe` and `QuietCommitsAreSafe`, of `CommitSpec`, whose
steps are those of `KvRaft` (`CommitIsNext`) with the histories `acked` and `led`. Each handler is first shown to
make one of a few moves (`StepMove`: it keeps the logs, appends as a leader, or takes a batch; what it
sends, and what it applies), so that the invariants are argued per move and not per handler. `HistoryInv`
says where things come from: every log is made of the logs of leaders (`FromLed`), every batch ever sent is
part of its leader's log (`Carries`), a candidate's log is the one it asked for votes with. `SafeInv` is
the induction over terms behind Raft's argument as an invariant of one state: as long as an entry is not
`Blocked` (a majority has gone on to later terms without acknowledging it) it is `Vouched` for, that is all
leaders since have it, whoever acknowledged it still has it, and so has every candidate that such a
node has voted for. A vote keeps it because `log_ok` finds no log up to date that lacks the entry while
the leaders since have it (`UpToDate`). An entry that a majority acknowledged can never be blocked,
hence `ChosenEntriesStay`: it holds whatever clients submit and whatever the commit index says.
`ChosenInv` adds that what is committed, announced and applied was chosen. There the code departs
from Raft in two places, named as hypotheses: a leader credits its peer with a full batch
(`CreditsEarned` says with what it acknowledged), and a follower takes over a commit index beyond the
batch (`CommitsCarried` excludes it). Wherever these two hold, replicas agree and
leaders are complete (`CommitsAreSafe`); `raft_lost_commit` shows a behaviour in which they do not. That
the hypotheses are not empty is `QuietCommitsAreSafe`: without clients every batch reaches the end of the leader's
log (`QuietInv`), so both hold always. This needs that no term is stood for above the size
of a batch (100 in the code): with more, a log may be longer than a batch, and a repeated success is
credited twice.

Crashes: `OneLeaderAcrossCrashes`, `SecondVoteAcrossCrashes`, `VoteKeptAcrossCrashes` and
`RecordsAlwaysGiveLog`, of `DurableSpec`. `DurableInv` is `VoteInv` with `RecordInv`, which relates memory and
network to the records of the log on disk: no record is of a later term than its node's
(`NoNewerRecord`); a vote a node holds is its last vote record (`VoteOnRecord`); every vote that was sent,
and every vote that made a leader, is on record (`GrantOnRecord`, `ElectionOnRecord`); and who granted a
vote in the term it is in still holds it or follows a leader that has led (`GrantorFollows`). A term taken
from a message is not on record, so a restart may take a node back to an older term; what it
answered in the term it lost was not a vote, or that vote would be the last record. `ElectedInv`
therefore speaks of who has led a term (`HasLed`), and a loyal voter may be a former leader that
restarted as a follower. `RecordsAlwaysGiveLog` shows of each handler, and of the beginning of a batch,
that it replaces the log from some place on by just the entries it records (`Rewrites`), which a reader by index
follows (`RecordsRewritten`). That the append loop does so (`MergeRewrites`) needs that a batch carries the indices
of the places it goes to (`BatchIndexed`), hence that logs do (`Given`), which is no longer so once a node that
cut its log has started again.
That logs match across crashes is not claimed: what an entry holds after recovery may be freed
memory, which is why `Payload`, what an entry may hold, is wider than `Command`.

**`GuardianShieldProofs`**. `TypeOK /\ PolicyInv` is inductive: the trie holds rules as configured, all of them
once a program is attached, and enforcement begins with every program attached; `RefusalsAreDeliberate` follows
for every step. `TagInv` gives `TagsFollowLineage`: tags are lineages, before the tracepoints there are neither,
a free identifier has no lineage (which a child that gets it relies on), only living processes lost their tag,
and one without its leader has none (else the map could keep the tag of a dead process). A program that settles
the tag does so whatever it was (`SettledTag`), any other leaves a lost one at most a build tool's
(`UnsettledTag`). `OwedInv` gives `GuardsTravel` and `NothingOwedIsTaken`: a guarded process moves an entry only
where `MoveHit` finds no less guarded operations than at its source, both as the hook sees them, so what is owed
travels with it, and a call it may make is one that is not owed (`NotOwed`), unless the hook asks `bpf_d_path`
and gets another answer than the walk. `LookupIsComponentwise` is about the operators of `ShieldPolicy`: what
covers a path matches its bytes, so a longest match that passes the boundary test is the nearest directory with
a rule (`LongestIsNearest`), and where every match covers the path the scopes found are those that hold
(`FreedMeansFree`). `PathsReconstructed` compares the walk (`collect_cb`, iterated to its budget) with the
recursive definition of the absolute path. That this path exists is an induction over the tree of mounts and the
trees of dentries in it (`FromAbove`); the walk keeps that what it has collected, put behind the path from where
it stands, is the path it is asked for (`OnTheWay`), and that each step taken either collects a name or leaves a
mount for good (`Left`), hence its bound: the depth of the path plus the number of mounts. The library states
induction for operators, which the provers here cannot instantiate; it is stated for sets instead (`Induction`),
from what the library proves of finite sets.

**`SentinelsProofs`**. `VerdictInv` strengthens `WorstVerdictReached` with: a free pid owes nothing (else a
child would inherit its predecessor's debts). The step that matters is the daemon's: the record it takes is the
only one that stops waiting, and the signal it sends is at least what that record calls for and takes none back.
`TableIsTruthful` is inductive with the types. `InstancesFollowTable` speaks of a fold over the ring:
`FoldAppend` and `FoldHead` say what a record at its end and the removal of its head do to the fold, both by
induction over the positions of the sequence (`Induction`); with them `InstancesInv`, which adds that no pid is
both in the table and among those that found it full, is inductive (else an exit would strike it off twice).
`ListsFindWhatTheySay` is about the operators of `ExecVerdict`: what the first `CommSize` or `PrefixSize`
letters can tell (`ComparedExactly`, `PrefixFits`), that a word where a name begins is a word in it
(`PrefixIsInfix`), and that the least index that matches a codex of two is that of the worse entry
(`WorstDecides`). `CountersAlwaysAddUp`, of `OracleSpec`: `OracleInv` says that a thread that fills a record has
exactly one busy record (`BusyInv`), so that a submission makes one record ready, and what a thread that found
no entry for its key relies on (`MissedInv`): nobody else found the same and nobody has made the entry since, or
the key is one that raced. A thread that found an entry relies on nobody to have replaced it, or the key raced
(`FoundInv`). A full map stays full, so a key that was refused is refused for good.

**`CognitiveWatchProofs`**. `CountInv` relates the counters of the probe to the ring and to the steps of the
threads: a thread that has reserved and not submitted has exactly one record that is not ready, any other none
(`OpenInv`), so that a submission makes one record ready. A step of a thread moves it into or out of the set of
those not yet counted or not yet submitted, whose cardinality changes by one accordingly (`AtMoves`,
`StepCounts`). `AnsweredIsStored` says also that the hash the watcher compares with is that of a stored frame or
none, and is inductive with the types because of it. `FramesAreAlwaysRead` is about the operators of
`FrameParse`, for frames of any glyphs and length. What a search returns is the least or the greatest place of a
set (`FirstIs`, `SkipIs`, `SkipBackIs`), and in a frame moved by one place it is that place moved (`FirstMoves`,
`SkipMoves`, `SkipBackMoves`), hence kind, name and parts are the same. What `strip_ansi` leaves is a fold over
the bytes: of two parts it is the fold over the second from where the first leads (`FoldConcat`), a text is
added to what is left (`TextStays`), bytes that are dropped and whole control sequences add nothing
(`NoiseGoes`, `ControlGoes`), nor does the end of a frame that is cut off (`CutGoes`), each by induction over
its bytes; `RowLeavesTexts` says it of a row of any length, by induction over its pieces.

**`SchedulerProofs`**. `IInv` has four parts. `TypeInv`: types, and that a worker has a task in
hand in just the steps that handle one. `Custody`: every task that was spawned and not yet released
is in one place, be it the injector, one deque, the hands of one worker or of the client about to
enqueue it; each kind of step changes custody in one of seven ways (`SameHands`, `Drained`,
`Stolen`, `Released`, `Made`, `Handed`, `Dropped`), and each keeps the places apart. `Life`: a task
that waits in a queue is registered, pending and has not run, and how far the worker that has it in
hand got with its entry. `RefInv`: an entry's count is one for whoever has the task and one for each
client that awaits it, and it is destroyed when that is zero. No part is inductive alone: that a task runs once needs
that no two places have it, that the destruction of a scheduler gives up the right references needs
that what is registered then is what is queued. `RunsOnce`, `NoUseAfterFree` and `NoEntryLeaks`
follow from `IInv`.

Every invariant that a run finds to hold is stated by a theorem, but for two of Raft's: leader
completeness and the agreement of replicas are checked and proved without client commands; with them they
are refuted, see above, and what is proved then is `CommitsAreSafe`. Only model-checked is all liveness:
fairness and `ENABLED` are out of the prover's reach.

## Not modelled

Within the components modelled: segment rotation and checksums of the write-ahead log; allocation failures other
than a deque that cannot grow; memory orders weaker than sequential consistency; `len` and `isEmpty` of the MPMC
ring and `size` of the deque, which are documented as approximate; the tagging of processes that already run
when Guardian Shield is loaded, the feed of executed programs and the counters; the file and task hooks of
`oracle-advanced`; the shepherd's policy engine and permission queue. The 128 bytes of a path's buffer are
counted in components, names longer than 64 bytes (copied cut) are left out, and the timestamps' 32 bits (they
wrap after 4.3 s) are abstracted.

Of the lines of C, about 60% are two image codecs (`zig_inference/stb`, vendored) and
headers that declare the interfaces of Zig libraries; the C programs that keep state are the ones
modelled above. `guardian_shield/scripts/oracle-probe.c` checks sequentially what a machine offers, and
`chronos_engine/src/cognitive-oracle.bpf.c` is the first version of the terminal probe, superseded by
the one modelled; the wardens decide each call from its arguments. The ring of the financial
engine's C interface (`ring_buffer.c`) has records that do not divide the ring and is a
matter of byte arithmetic. Everything else is in `PROJECT.json` under `components`, with the reason.
