--------------------------- MODULE SyscallOracle ---------------------------
(***************************************************************************)
(* The two programs of zig_sentinel that run at the entry of every system  *)
(* call: the Grimoire Oracle (grimoire-oracle.bpf.c), which counts what it *)
(* does in four statistics, and the syscall counter                        *)
(* (syscall_counter.bpf.c), which counts calls per process and number;     *)
(* both send the monitored calls to a daemon through a ring buffer.        *)
(*                                                                         *)
(* Threads run the hooks at the same time.  A record of the ring buffer    *)
(* has its place from the moment it is reserved and is busy until it is    *)
(* submitted; the daemon reads in order and stops at a busy record.        *)
(***************************************************************************)
EXTENDS Naturals, Sequences, FiniteSets

CONSTANTS Threads, Numbers,   \* threads and system call numbers
          PidOf,              \* the process of each thread
          Monitored,          \* numbers in monitored_syscalls
          RingSize,           \* records the ring buffer holds
          MaxKeys,            \* max_entries of syscall_counts
          MaxTotal            \* bound: system calls made

ASSUME SyscallOracleAssumption ==
    /\ IsFiniteSet(Threads) /\ Numbers # {} /\ Monitored \subseteq Numbers
    /\ DOMAIN PidOf = Threads
    /\ {RingSize, MaxKeys} \subseteq Nat \ {0} /\ MaxTotal \in Nat

VARIABLES loaded,           \* which of the two programs runs
          config,           \* grimoire_enabled and filter_enabled
          pc, number,       \* of each thread: step of the hook, number called
          stats,            \* grimoire_stats
          syscall_counts,   \* calls per process and number; 0: no entry
          grimoire_events,  \* the ring buffer
          received,         \* records the daemon has read
          ended,            \* history: calls counted, per process and number
          raced,            \* history: keys two threads found missing at once
          stale             \* threads whose entry another insertion replaced

oracleVars == <<loaded, config, pc, number, stats, syscall_counts,
                grimoire_events, received, ended, raced, stale>>

Keys == {<<PidOf[t], n>> : t \in Threads, n \in Numbers}
Key(t) == <<PidOf[t], number[t]>>

Steps == {"idle", "found", "missed", "counted", "admitted", "filling", "submitted"}
Stats == {"total", "filtered", "emitted", "dropped"}

OracleTypeOK ==
    /\ loaded \in {"grimoire", "counter"}
    /\ config \in [enabled : BOOLEAN, filter : BOOLEAN]
    /\ pc \in [Threads -> Steps] /\ number \in [Threads -> Numbers]
    /\ stats \in [Stats -> Nat]
    /\ syscall_counts \in [Keys -> Nat]
    /\ ended \in [Keys -> Nat] /\ raced \subseteq Keys /\ stale \subseteq Threads
    /\ grimoire_events \in Seq([thread : Threads, busy : BOOLEAN])
    /\ Len(grimoire_events) =< RingSize
    /\ received \in Nat

OracleInit ==
    /\ loaded \in {"grimoire", "counter"}
    /\ config = [enabled |-> FALSE, filter |-> FALSE]
    /\ pc = [t \in Threads |-> "idle"]
    /\ number \in [Threads -> {CHOOSE n \in Numbers : TRUE}]
    /\ stats = [s \in Stats |-> 0]
    /\ syscall_counts = [k \in Keys |-> 0] /\ ended = [k \in Keys |-> 0]
    /\ raced = {} /\ stale = {} /\ grimoire_events = <<>> /\ received = 0

countVars == <<syscall_counts, ended, raced, stale>>
ringVars == <<grimoire_events, received>>

increment_stat(s) == stats' = [stats EXCEPT ![s] = @ + 1]

At(t, step) == pc[t] = step
GoTo(t, step) == pc' = [pc EXCEPT ![t] = step]

\* Every record asks whether the daemon has switched the Grimoire on.
Admits(n, filter) == config.enabled /\ (filter => n \in Monitored)

-----------------------------------------------------------------------------
\* trace_sys_enter of grimoire-oracle, up to the reservation.  The counters
\* are incremented atomically, one by one; nothing reads two of them.
trace_sys_enter(t, n) ==
    /\ loaded = "grimoire" /\ At(t, "idle") /\ stats["total"] < MaxTotal
    /\ number' = [number EXCEPT ![t] = n]
    /\ IF Admits(n, config.filter)
       THEN /\ stats' = [stats EXCEPT !["total"] = @ + 1, !["filtered"] = @ + 1]
            /\ GoTo(t, "admitted")
       ELSE /\ increment_stat("total")
            /\ UNCHANGED pc
    /\ UNCHANGED <<loaded, config, countVars, ringVars>>

\* trace_syscall_enter of syscall_counter: the lookup of the key.
trace_syscall_enter(t, n) ==
    /\ loaded = "counter" /\ At(t, "idle") /\ stats["total"] < MaxTotal
    /\ number' = [number EXCEPT ![t] = n]
    /\ increment_stat("total")     \* for the bound: this program has no stats
    /\ LET k == <<PidOf[t], n>>
           others == {u \in Threads \ {t} : At(u, "missed") /\ Key(u) = k}
       IN  IF syscall_counts[k] > 0
           THEN /\ GoTo(t, "found")
                /\ UNCHANGED raced
           ELSE /\ GoTo(t, "missed")
                /\ raced' = IF others = {} THEN raced ELSE raced \cup {k}
    /\ UNCHANGED <<loaded, config, syscall_counts, ended, stale, ringVars>>

Called(t) == ended' = [ended EXCEPT ![Key(t)] = @ + 1]

CountAt(k) == syscall_counts' = [syscall_counts EXCEPT ![k] = @ + 1]

\* A thread that found the entry increments it in place, atomically.  Of an
\* entry that was replaced since, the kernel keeps the element for the next
\* replacement: the increment is lost, or goes to the key that has it then.
IncrementCount(t) ==
    /\ At(t, "found")
    /\ \/ t \notin stale /\ CountAt(Key(t))
       \/ t \in stale /\ UNCHANGED syscall_counts
       \/ t \in stale /\ \E k \in raced : syscall_counts[k] > 0 /\ CountAt(k)
    /\ stale' = stale \ {t}
    /\ Called(t) /\ GoTo(t, "counted")
    /\ UNCHANGED <<loaded, config, number, stats, raced, ringVars>>

\* A thread that found no entry makes one with the count 1, in the place of
\* one that another thread has made since; in a full map it makes none.
Full == Cardinality({k \in Keys : syscall_counts[k] > 0}) = MaxKeys

FirstCount(k) == IF syscall_counts[k] > 0 \/ ~Full THEN 1 ELSE 0

Holders(k) == {u \in Threads : At(u, "found") /\ Key(u) = k}

InsertCount(t) ==
    /\ At(t, "missed")
    /\ syscall_counts' = [syscall_counts EXCEPT ![Key(t)] = FirstCount(Key(t))]
    /\ stale' = stale \cup IF syscall_counts[Key(t)] > 0 THEN Holders(Key(t)) ELSE {}
    /\ Called(t) /\ GoTo(t, "counted")
    /\ UNCHANGED <<loaded, config, number, stats, raced, ringVars>>

\* Then the call goes to the Grimoire if it is switched on and monitors it.
AfterCount(t) ==
    /\ At(t, "counted")
    /\ GoTo(t, IF Admits(number[t], TRUE) THEN "admitted" ELSE "idle")
    /\ UNCHANGED <<loaded, config, number, stats, countVars, ringVars>>

-----------------------------------------------------------------------------
\* bpf_ringbuf_reserve: with no room the new event is dropped.
Reserve(t) ==
    /\ At(t, "admitted") /\ Len(grimoire_events) < RingSize
    /\ grimoire_events' = Append(grimoire_events, [thread |-> t, busy |-> TRUE])
    /\ GoTo(t, "filling")
    /\ UNCHANGED <<loaded, config, number, stats, countVars, received>>

\* mutant: a dropped event is counted among the emitted ones.
DropStat_emitted == "emitted"
DropStat == "dropped"

Drop(t) ==
    /\ At(t, "admitted") /\ Len(grimoire_events) = RingSize
    /\ IF loaded = "grimoire" THEN increment_stat(DropStat) ELSE UNCHANGED stats
    /\ GoTo(t, "idle")
    /\ UNCHANGED <<loaded, config, number, countVars, ringVars>>

\* bpf_ringbuf_submit
Submitted(t) ==
    [i \in DOMAIN grimoire_events |->
        IF grimoire_events[i].thread = t
        THEN [grimoire_events[i] EXCEPT !.busy = FALSE] ELSE grimoire_events[i]]

SubmitEvent(t) ==
    /\ At(t, "filling")
    /\ grimoire_events' = Submitted(t)
    /\ GoTo(t, IF loaded = "grimoire" THEN "submitted" ELSE "idle")
    /\ UNCHANGED <<loaded, config, number, stats, countVars, received>>

Emitted(t) ==
    /\ At(t, "submitted")
    /\ increment_stat("emitted")
    /\ GoTo(t, "idle")
    /\ UNCHANGED <<loaded, config, number, countVars, ringVars>>

-----------------------------------------------------------------------------
\* The daemon: its ring buffer callback, and the configuration it writes.
Receive ==
    /\ grimoire_events # <<>> /\ ~Head(grimoire_events).busy
    /\ grimoire_events' = Tail(grimoire_events)
    /\ received' = received + 1
    /\ UNCHANGED <<loaded, config, pc, number, stats, countVars>>

Configure ==
    /\ ~config.enabled
    /\ config' \in [enabled : {TRUE}, filter : BOOLEAN]
    /\ UNCHANGED <<loaded, pc, number, stats, countVars, ringVars>>

Hook(t) == \/ IncrementCount(t) \/ InsertCount(t) \/ AfterCount(t)
           \/ Reserve(t) \/ Drop(t) \/ SubmitEvent(t) \/ Emitted(t)

OracleNext ==
    \/ \E t \in Threads :
        \/ \E n \in Numbers : trace_sys_enter(t, n) \/ trace_syscall_enter(t, n)
        \/ Hook(t)
    \/ Receive \/ Configure

OracleSpec == OracleInit /\ [][OracleNext]_oracleVars

\* A hook that has begun runs to its end; the daemon keeps polling.
OracleFairness == WF_oracleVars(Receive) /\ \A t \in Threads : WF_oracleVars(Hook(t))

OracleFairSpec == OracleSpec /\ OracleFairness

-----------------------------------------------------------------------------
\* The statistics of trace_sys_enter add up, whatever the threads on the
\* other processors are doing: each call that passed the filter is emitted,
\* dropped, or still in the hook; and the daemon has read, or has before it
\* in the ring, exactly the events that were submitted.
InHook(steps) == Cardinality({t \in Threads : pc[t] \in steps})
Ready == Cardinality({i \in DOMAIN grimoire_events : ~grimoire_events[i].busy})

StatsAddUp ==
    loaded = "grimoire" =>
        /\ stats["filtered"] = stats["emitted"] + stats["dropped"]
                                + InHook({"admitted", "filling", "submitted"})
        /\ received + Ready = stats["emitted"] + InHook({"submitted"})

\* The count of a key is that of its calls, unless two threads of the process
\* found it missing at once or the map was full, and it is above them only
\* where a second key raced (lookup, increment and insertion of
\* trace_syscall_enter are steps of their own).
CountIsCalls ==
    \A k \in Keys :
        /\ \/ syscall_counts[k] = ended[k]
           \/ syscall_counts[k] = 0 /\ Full
           \/ k \in raced
        /\ raced \subseteq {k} => syscall_counts[k] =< ended[k]

CountersAddUp == StatsAddUp /\ CountIsCalls

\* A record that has its place in the ring reaches the daemon: no thread
\* leaves one behind that is never submitted.
RecordsReachDaemon ==
    \A t \in Threads : At(t, "filling") ~>
        ~\E i \in DOMAIN grimoire_events : grimoire_events[i].thread = t
=============================================================================
