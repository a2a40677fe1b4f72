--------------------------- MODULE AgentObserver ---------------------------
(***************************************************************************)
(* The Guardian Observer: kprobes on the system calls of registered agent  *)
(* processes put a record in a ring buffer (guardian-observer.bpf.c), and  *)
(* a daemon judges the records in order and sends SIGKILL or SIGSTOP to    *)
(* the pid a record names (guardian-observer.c, guardian-judge.c).         *)
(*                                                                         *)
(* A command line is the set of the kinds of patterns found in it.  The    *)
(* operators below are the hooks; Sentinels calls them from the actions of *)
(* the processes and applies the signal.                                   *)
(***************************************************************************)
EXTENDS Processes, Sequences

CONSTANT ObserverRing   \* records the ring buffer holds

ASSUME AgentObserverAssumption == ObserverRing \in Nat \ {0}

VARIABLES agent_processes,   \* the map of registered pids
          observed,          \* the ring buffer "events"
          made,              \* history: kinds of patterns in the calls of a life
          unseen             \* history: pids with a call that left no record

observerVars == <<agent_processes, observed, made, unseen>>

Kinds == {"dangerous", "banned"}

\* A record, or what the kprobe could read of it: an argument whose page is
\* not resident reads as an empty string, and matches nothing.
Commands == SUBSET Kinds

ObserverTypeOK ==
    /\ agent_processes \subseteq Pids
    /\ observed \in Seq([pid : Pids, command : Commands])
    /\ Len(observed) =< ObserverRing
    /\ made \in [Pids -> SUBSET Kinds]
    /\ unseen \subseteq Pids

\* main() registers the pids given on the command line, once.
ObserverInit ==
    /\ agent_processes \in SUBSET Pids
    /\ observed = <<>>
    /\ made = [p \in Pids |-> {}]
    /\ unseen = {}

\* kprobe_execve, kprobe_openat, kprobe_unlink and kprobe_rename: the same
\* steps for each call; "read" is what the kprobe got of the command.
kprobe(p, command, read) ==
    IF p \notin agent_processes
    THEN UNCHANGED observerVars
    ELSE /\ made' = [made EXCEPT ![p] = @ \cup command]
         /\ IF Len(observed) < ObserverRing
            THEN /\ observed' = Append(observed, [pid |-> p, command |-> read])
                 /\ unseen' = IF read = command THEN unseen
                                                ELSE unseen \cup {p}
            ELSE /\ unseen' = unseen \cup {p}
                 /\ UNCHANGED observed
         /\ UNCHANGED agent_processes

\* The dangerous patterns are tried before the banned ones.
\* mutant: the banned patterns are tried first.
judge_command_banned_first(command) ==
    IF "banned" \in command THEN "SIGSTOP"
    ELSE IF "dangerous" \in command THEN "SIGKILL"
    ELSE "none"
judge_command(command) ==
    IF "dangerous" \in command THEN "SIGKILL"
    ELSE IF "banned" \in command THEN "SIGSTOP"
    ELSE "none"

\* handle_event takes the oldest record; execute_verdict sends the signal of
\* the verdict to the pid in it.
verdict == judge_command(Head(observed).command)

handle_event ==
    /\ observed # <<>>
    /\ observed' = Tail(observed)
    /\ UNCHANGED <<agent_processes, made, unseen>>

\* The pid is free, or the operator has let the agent go on with SIGCONT:
\* nothing more is owed for what it did.  The map keeps the pid.
Settle(p, kinds) ==
    /\ made' = [made EXCEPT ![p] = @ \ kinds]
    /\ unseen' = IF kinds = Kinds THEN unseen \ {p} ELSE unseen
    /\ UNCHANGED <<agent_processes, observed>>

\* A record about p with a pattern of this kind is still to be judged.
Pending(p, kind) ==
    \E i \in DOMAIN observed :
        observed[i].pid = p /\ kind \in observed[i].command
=============================================================================
