----------------------------- MODULE Sentinels -----------------------------
(***************************************************************************)
(* Processes of a machine on which the Guardian Observer, claude-shepherd  *)
(* and one of the exec-time monitors run together.  The monitors share no  *)
(* memory: they meet in the processes, whose system calls run their hooks  *)
(* and which the Observer's daemon kills and stops.                        *)
(*                                                                         *)
(* A system call is two steps where a hook decides between them: the       *)
(* kprobe at the entry of execve, then the check and the exec itself; the  *)
(* daemon may act in between.                                              *)
(***************************************************************************)
EXTENDS AgentObserver, Shepherd, ExecVerdict

CONSTANTS Programs,      \* names that are run, sequences of letters
          Codices,       \* blacklists the user may have configured
          MaxForks,      \* bound: processes started
          MaxCalls       \* bound: system calls made, writes included

ASSUME SentinelsAssumption == {MaxForks, MaxCalls} \subseteq Nat

VARIABLES execing,       \* program each process is about to start, or <<>>
          monitor,       \* the exec-time monitor that is loaded, and its list
          enforce,       \* its switch between blocking and watching
          forks, calls   \* counts for the bounds

processVars == <<comm, pending, execing, forks, calls>>
monitorVars == <<monitor, enforce>>
vars == <<processVars, monitorVars, observerVars, shepherdVars>>

\* At most one of the exec-time monitors is loaded, with its list.
Monitors == [kind : {"none", "inquisitor", "simple", "oracle"}, list : Codices]

\* In user mode, free to make a call: no signal waits for it.
Running(p) == p \in Live /\ pending[p] = "none" /\ execing[p] = <<>>

TypeOK ==
    /\ ObserverTypeOK /\ ShepherdTypeOK
    /\ comm \in [Pids -> Programs \cup {<<>>}]
    /\ pending \in [Pids -> {"none", "SIGSTOP", "SIGKILL"}]
    /\ execing \in [Pids -> Programs \cup {<<>>}]
    /\ monitor \in Monitors
    /\ enforce \in BOOLEAN
    /\ forks \in 0 .. MaxForks /\ calls \in 0 .. MaxCalls

\* The monitors are loaded while some processes already run.
Init ==
    /\ ObserverInit /\ ShepherdInit
    /\ comm \in [Pids -> Programs \cup {<<>>}]
    /\ Live # {}
    /\ pending = [p \in Pids |-> "none"]
    /\ execing = [p \in Pids |-> <<>>]
    /\ monitor \in Monitors
    /\ enforce = TRUE
    /\ forks = 0 /\ calls = 0

-----------------------------------------------------------------------------
Counted == calls < MaxCalls /\ calls' = calls + 1

\* What the check may be shown as the name of the program.  The Inquisitor
\* asks for the name of the task that calls execve, still that of the old
\* program.  The simple one takes what follows the last slash of the first
\* 255 bytes of the path: in a longer path, how some name in it begins.  The
\* Oracle reads the name in the dentry.  A name that cannot be read is not
\* judged, which is what the empty one comes to.
Judged(p) ==
    CASE monitor.kind = "inquisitor" -> {Cut(comm[p], CommSize - 1)}
      [] monitor.kind = "simple" ->
            {execing[p]} \cup {Cut(name, n) : name \in Programs, n \in 0 .. MaxLength}
      [] OTHER -> {execing[p], <<>>}

Banned(name) ==
    \/ monitor.kind = "inquisitor" /\ check_blacklist(monitor.list, name)
    \/ monitor.kind = "simple" /\ Blocked(monitor.list, name)
    \/ monitor.kind = "oracle" /\ check_sovereign_codex(monitor.list, name) >= 2

\* A child runs its parent's program; none of the hooks sees it start.
Fork(p, child) ==
    /\ Running(p) /\ child \notin Live /\ forks < MaxForks
    /\ comm' = [comm EXCEPT ![child] = comm[p]]
    /\ forks' = forks + 1
    /\ UNCHANGED <<pending, execing, calls, monitorVars, observerVars,
                   shepherdVars>>

\* Entry of execve: the Observer's kprobe.
Execve(p, name, command, read) ==
    /\ Running(p) /\ Counted
    /\ kprobe(p, command, read)
    /\ execing' = [execing EXCEPT ![p] = name]
    /\ UNCHANGED <<comm, pending, forks, monitorVars, shepherdVars>>

\* bprm_check_security, then the rest of execve unless it is refused.
Exec(p) ==
    /\ execing[p] # <<>>
    /\ execing' = [execing EXCEPT ![p] = <<>>]
    /\ \E name \in Judged(p) :
        IF Banned(name) /\ enforce
        THEN UNCHANGED <<comm, shepherdVars>>
        ELSE /\ comm' = [comm EXCEPT ![p] = execing[p]]
             /\ trace_exec(p, is_claude_process(execing[p]))
    /\ UNCHANGED <<pending, forks, calls, monitorVars, observerVars>>

\* openat, unlink and rename.
FileCall(p, command, read) ==
    /\ Running(p) /\ Counted
    /\ kprobe(p, command, read)
    /\ UNCHANGED <<comm, pending, execing, forks, monitorVars, shepherdVars>>

Write(p, text) ==
    /\ Running(p) /\ Counted
    /\ probe_tty_write(p, is_claude_process(comm[p]), text)
    /\ UNCHANGED <<comm, pending, execing, forks, monitorVars, observerVars>>

ThreadExit(p) ==
    /\ Running(p)
    /\ trace_exit(p, FALSE)
    /\ UNCHANGED <<processVars, monitorVars, observerVars>>

\* The end of a process, of its own will or by SIGKILL.
Ends(p) == p \in Live /\ execing[p] = <<>> /\ pending[p] # "SIGSTOP"

Exit(p) ==
    /\ Ends(p)
    /\ comm' = [comm EXCEPT ![p] = <<>>]
    /\ pending' = [pending EXCEPT ![p] = "none"]
    /\ Settle(p, Kinds)
    /\ trace_exit(p, TRUE)
    /\ UNCHANGED <<execing, forks, calls, monitorVars>>

\* The daemon judges one record.  kill() finds no process when the pid is
\* free; SIGSTOP does not take back a SIGKILL.
execute_verdict(p, signal) ==
    pending' = IF signal = "none" \/ p \notin Live \/ pending[p] = "SIGKILL"
               THEN pending
               ELSE [pending EXCEPT ![p] = signal]

Judge ==
    /\ handle_event
    /\ execute_verdict(Head(observed).pid, verdict)
    /\ UNCHANGED <<comm, execing, forks, calls, monitorVars, shepherdVars>>

\* The operator lets a frozen agent go on.
Resume(p) ==
    /\ pending[p] = "SIGSTOP"
    /\ pending' = [pending EXCEPT ![p] = "none"]
    /\ Settle(p, {"banned"})
    /\ UNCHANGED <<comm, execing, forks, calls, monitorVars, shepherdVars>>

Deliver ==
    /\ handleEvent
    /\ UNCHANGED <<processVars, monitorVars, observerVars>>

SwitchShepherd ==
    /\ ~enabled /\ Switch
    /\ UNCHANGED <<processVars, monitorVars, observerVars>>

StopEnforcing ==
    /\ enforce /\ enforce' = FALSE
    /\ UNCHANGED <<processVars, monitor, observerVars, shepherdVars>>

Next ==
    \/ \E p \in Pids :
        \/ \E child \in Pids : Fork(p, child)
        \/ \E command \in Commands, read \in Commands :
            /\ read \in {command, {}}
            /\ \/ FileCall(p, command, read)
               \/ \E name \in Programs : Execve(p, name, command, read)
        \/ Exec(p)
        \/ \E text \in {"plain", "request", "unread"} : Write(p, text)
        \/ ThreadExit(p) \/ Exit(p) \/ Resume(p)
    \/ Judge \/ Deliver \/ SwitchShepherd \/ StopEnforcing

Spec == Init /\ [][Next]_vars

\* The daemons keep polling, and a process that was killed dies.
Fairness ==
    /\ WF_vars(Judge) /\ WF_vars(Deliver)
    /\ \A p \in Pids : WF_vars(Exec(p)) /\ WF_vars(pending[p] = "SIGKILL" /\ Exit(p))


-----------------------------------------------------------------------------
\* A registered agent that made a call with a dangerous pattern is about to
\* be killed, and one with a banned pattern stopped, unless its record waits
\* for the daemon or none could be made: the worst verdict on what a process
\* did in its life is reached however the calls, the verdicts and the
\* operator's SIGCONT interleave (handle_event, execute_verdict).
WorstVerdictReached ==
    \A p \in Live \ unseen :
        /\ "dangerous" \in made[p] =>
                pending[p] = "SIGKILL" \/ Pending(p, "dangerous")
        /\ "banned" \in made[p] =>
                pending[p] # "none" \/ Pending(p, "banned")

\* An entry of the shepherd's table is about the process that has the pid
\* now, unless the exit of the one before could not be told of: trace_exit
\* leaves the entry when the ring buffer is full or the switch is off.
EntryOfThisLife == Tracked \subseteq sessions \cup untold

\* A session is shown as waiting only if it asked since its last exec.
WaitingWasAsked ==
    \A p \in Pids : pid_states[p] = waiting_permission => p \in asked

\* The shepherd's table says of a pid what the process that has it now is and did.
TableIsTruthful == EntryOfThisLife /\ WaitingWasAsked

\* The daemon's instances, once it has read what is in the ring, are the
\* sessions of the kernel's table and those that found the table full: what
\* is dropped from the ring is dropped from the table too.
InstancesFollowTable ==
    FoldLeft(Applied, instances, reports) = Tracked \cup unlisted

\* The lists are read as the sources describe them: the Inquisitor refuses
\* the names an entry says and no other, the simple one none besides those,
\* and a codex in order of severity answers with the worst entry it finds
\* (check_blacklist, check_entry, check_sovereign_codex).  Judged where a
\* monitor has just been loaded.
ListsAreRead ==
    (monitor.kind # "none" /\ calls = 0 /\ forks = 0) =>
        PatternMeaning /\ WorstEntryDecides

\* A call with a dangerous pattern whose record the daemon will read ends
\* the life of the process that has the pid, whatever that process does.
DangerousIsEnded ==
    \A p \in Pids :
        (p \in Live /\ Pending(p, "dangerous")) ~> (p \notin Live)
=============================================================================
