------------------------------ MODULE Shepherd ------------------------------
(***************************************************************************)
(* The kernel half of claude-shepherd (shepherd.bpf.c): it follows the     *)
(* exec, the terminal output and the exit of Claude sessions, keeps a      *)
(* table of them, and reports each through a ring buffer to a daemon that  *)
(* keeps a set of instances of its own (ebpf_consumer.zig).                *)
(*                                                                         *)
(* The switch CONFIG_ENABLED is off until somebody sets it: the consumer   *)
(* looks for a map called "config", which the object does not have, so     *)
(* that the model leaves setting it to an operator.                        *)
(***************************************************************************)
EXTENDS Processes, SequencesExt

CONSTANTS ClaudeNames,    \* beginnings of names that are taken for Claude
          ShepherdRing,   \* records the ring buffer holds
          MaxStates       \* max_entries of pid_states

ASSUME ShepherdAssumption ==
    {ShepherdRing, MaxStates} \subseteq Nat \ {0}

VARIABLES enabled,      \* shepherd_config[CONFIG_ENABLED]
          pid_states,   \* status of each pid in the table; 0: no entry
          reports,      \* the ring buffer "events"
          instances,    \* what the daemon believes is running
          asked,        \* history: pids that asked for permission since the
                        \* last exec that was recorded
          sessions,     \* history: pids whose present life had such an exec
          untold,       \* history: pids that exited when nothing could be told
          unlisted      \* history: pids told of when the table was full

sessionVars == <<asked, sessions, untold, unlisted>>
shepherdVars == <<enabled, pid_states, reports, instances, sessionVars>>

absent == 0
running == 1
waiting_permission == 2

Types == {"exec", "exit", "tty", "permission"}

ShepherdTypeOK ==
    /\ enabled \in BOOLEAN
    /\ pid_states \in [Pids -> {absent, running, waiting_permission}]
    /\ reports \in Seq([type : Types, pid : Pids])
    /\ Len(reports) =< ShepherdRing
    /\ {instances, asked, sessions, untold, unlisted} \subseteq SUBSET Pids

ShepherdInit ==
    /\ enabled = FALSE
    /\ pid_states = [p \in Pids |-> absent]
    /\ reports = <<>>
    /\ instances = {} /\ asked = {} /\ sessions = {}
    /\ untold = {} /\ unlisted = {}

Tracked == {p \in Pids : pid_states[p] # absent}

Room == Len(reports) < ShepherdRing
is_claude_process(name) == \E c \in ClaudeNames : IsPrefix(c, name)

Submit(type, p) == reports' = Append(reports, [type |-> type, pid |-> p])

\* probe_tty_write: "text" is what is written: "request" has a word that asks
\* for permission, "unread" is a buffer the hook could not read, whose place
\* in the ring still holds an older record.
probe_tty_write(p, claude, text) ==
    IF ~(enabled /\ claude /\ Room)
    THEN UNCHANGED shepherdVars
    ELSE \E request \in IF text = "unread" THEN BOOLEAN ELSE {text = "request"} :
            /\ Submit(IF request THEN "permission" ELSE "tty", p)
            /\ pid_states' = IF request /\ p \in Tracked
                             THEN [pid_states EXCEPT ![p] = waiting_permission]
                             ELSE pid_states
            /\ asked' = IF text = "plain" THEN asked ELSE asked \cup {p}
            /\ UNCHANGED <<enabled, instances, sessions, untold, unlisted>>

\* trace_exec: BPF_ANY writes a new entry over an old one; when the table is
\* full a new one is not made, and the record is sent all the same.
Fits(p) == p \in Tracked \/ Cardinality(Tracked) < MaxStates

NewEntry(p) == [pid_states EXCEPT ![p] = IF Fits(p) THEN running ELSE @]

trace_exec(p, claude) ==
    IF ~(enabled /\ claude /\ Room)
    THEN UNCHANGED shepherdVars
    ELSE /\ pid_states' = NewEntry(p)
         /\ Submit("exec", p)
         /\ asked' = asked \ {p}
         /\ sessions' = sessions \cup {p}
         /\ untold' = untold \ {p}
         /\ unlisted' = IF Fits(p) THEN unlisted \ {p} ELSE unlisted \cup {p}
         /\ UNCHANGED <<enabled, instances>>

\* trace_exit: the entry goes only when there is room to report it.  The hook
\* runs when any thread ends; "whole" is the end of the process.
\* mutant: the entry is deleted before the record is reserved.
Forgets_unreported(p) == enabled /\ p \in Tracked
\* mutant: the name is asked for, as in the other two hooks.
Forgets_claude(p) == enabled /\ p \in Tracked /\ Room /\ is_claude_process(comm[p])
Forgets(p) == enabled /\ p \in Tracked /\ Room

trace_exit(p, whole) ==
    /\ pid_states' = IF Forgets(p) THEN [pid_states EXCEPT ![p] = absent]
                                   ELSE pid_states
    /\ IF Forgets(p) /\ Room THEN Submit("exit", p) ELSE UNCHANGED reports
    /\ sessions' = IF whole THEN sessions \ {p} ELSE sessions
    /\ untold' = IF whole /\ ~(enabled /\ Room) THEN untold \cup {p} ELSE untold
    /\ UNCHANGED <<enabled, instances, asked, unlisted>>

\* What one record does to the daemon's set of instances: addInstance and
\* removeInstance; output and requests change neither.
Applied(set, report) ==
    CASE report.type = "exec" -> set \cup {report.pid}
      [] report.type = "exit" -> set \ {report.pid}
      [] OTHER -> set

handleEvent ==
    /\ reports # <<>>
    /\ instances' = Applied(instances, Head(reports))
    /\ reports' = Tail(reports)
    /\ UNCHANGED <<enabled, pid_states, sessionVars>>

Switch ==
    /\ enabled' = ~enabled
    /\ UNCHANGED <<pid_states, reports, instances, sessionVars>>
=============================================================================
