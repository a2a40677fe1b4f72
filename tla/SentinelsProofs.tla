--------------------------- MODULE SentinelsProofs ---------------------------
(***************************************************************************)
(* Proofs about Sentinels, for any number of processes, any programs and   *)
(* lists and any sizes of the rings: types, the verdicts of the Observer,  *)
(* the table of the shepherd and the instances of its daemon, how the      *)
(* lists are read and what an exec-time monitor lets run; and about        *)
(* SyscallOracle, for any number of threads: the counters.                 *)
(***************************************************************************)
EXTENDS Sentinels, SyscallOracle, FiniteSetTheorems, FunctionTheorems, TLAPS

-----------------------------------------------------------------------------
(* Types. *)

Observation == [pid : Pids, command : Commands]
Report == [type : Types, pid : Pids]

LEMMA InitTypes == Init => TypeOK
<1>. SUFFICES ASSUME Init PROVE TypeOK
  OBVIOUS
<1>1. ObserverTypeOK
  <2>1. observed = <<>> /\ agent_processes \subseteq Pids /\ unseen \subseteq Pids
    BY DEF Init, ObserverInit
  <2>2. made \in [Pids -> SUBSET Kinds]
    BY DEF Init, ObserverInit
  <2>3. observed \in Seq([pid : Pids, command : Commands]) /\ Len(observed) = 0
    BY <2>1
  <2>. QED  BY <2>1, <2>2, <2>3, AgentObserverAssumption DEF ObserverTypeOK
<1>2. ShepherdTypeOK
  <2>1. /\ reports = <<>> /\ enabled \in BOOLEAN
        /\ {instances, asked, sessions, untold, unlisted} \subseteq SUBSET Pids
    BY DEF Init, ShepherdInit
  <2>2. pid_states \in [Pids -> {absent, running, waiting_permission}]
    BY DEF Init, ShepherdInit
  <2>3. reports \in Seq([type : Types, pid : Pids]) /\ Len(reports) = 0
    BY <2>1
  <2>. QED  BY <2>1, <2>2, <2>3, ShepherdAssumption DEF ShepherdTypeOK
<1>3. /\ comm \in [Pids -> Programs \cup {<<>>}]
      /\ pending \in [Pids -> {"none", "SIGSTOP", "SIGKILL"}]
      /\ execing \in [Pids -> Programs \cup {<<>>}]
      /\ monitor \in Monitors /\ enforce \in BOOLEAN
  BY DEF Init, Live
<1>4. forks \in 0 .. MaxForks /\ calls \in 0 .. MaxCalls
  BY SentinelsAssumption DEF Init
<1>. QED  BY <1>1, <1>2, <1>3, <1>4 DEF TypeOK

LEMMA kprobeTypes ==
  ASSUME ObserverTypeOK, NEW p \in Pids, NEW command \in Commands, NEW read \in Commands,
         kprobe(p, command, read)
  PROVE  ObserverTypeOK'
<1>1. made' \in [Pids -> SUBSET Kinds]
  BY DEF kprobe, ObserverTypeOK, Commands, observerVars
<1>2. unseen' \subseteq Pids /\ agent_processes' \subseteq Pids
  BY DEF kprobe, ObserverTypeOK, observerVars
<1>3. [pid |-> p, command |-> read] \in Observation
  BY DEF Observation
<1>4. PICK r \in Observation :
        observed' = observed \/ (Len(observed) < ObserverRing /\ observed' = Append(observed, r))
  BY <1>3, Zenon DEF kprobe, observerVars
<1>5. observed \in Seq(Observation) /\ Len(observed) =< ObserverRing /\ ObserverRing \in Nat
  BY AgentObserverAssumption DEF ObserverTypeOK, Observation
<1>6. observed' \in Seq(Observation) /\ Len(observed') =< ObserverRing
  BY <1>4, <1>5
<1>. QED  BY <1>1, <1>2, <1>6 DEF ObserverTypeOK, Observation

LEMMA handle_eventTypes ==
  ASSUME ObserverTypeOK, handle_event
  PROVE  ObserverTypeOK' /\ Head(observed) \in Observation
<1>1. observed \in Seq(Observation) /\ Len(observed) =< ObserverRing /\ ObserverRing \in Nat
  BY AgentObserverAssumption DEF ObserverTypeOK, Observation
<1>2. observed # <<>> /\ observed' = Tail(observed)
  BY DEF handle_event
<1>3. /\ observed' \in Seq(Observation) /\ Len(observed') =< ObserverRing
      /\ Head(observed) \in Observation
  BY <1>1, <1>2
<1>. QED  BY <1>3 DEF handle_event, ObserverTypeOK, Observation

LEMMA SettleTypes ==
  ASSUME ObserverTypeOK, NEW p \in Pids, NEW kinds, Settle(p, kinds)
  PROVE  ObserverTypeOK'
<1>1. made' \in [Pids -> SUBSET Kinds]
  BY DEF Settle, ObserverTypeOK
<1>. QED  BY <1>1 DEF Settle, ObserverTypeOK

\* The hooks of the shepherd and its daemon.
LEMMA SubmitTypes ==
  ASSUME ShepherdTypeOK, NEW type \in Types, NEW p \in Pids, Room,
         Submit(type, p) \/ UNCHANGED reports
  PROVE  reports' \in Seq(Report) /\ Len(reports') =< ShepherdRing
<1>1. reports \in Seq(Report) /\ Len(reports) < ShepherdRing /\ ShepherdRing \in Nat
  BY ShepherdAssumption DEF ShepherdTypeOK, Report, Room
<1>2. [type |-> type, pid |-> p] \in Report
  BY DEF Report
<1>3. PICK r \in Report : reports' = reports \/ reports' = Append(reports, r)
  BY <1>2, Zenon DEF Submit
<1>. QED  BY <1>1, <1>3

LEMMA probe_tty_writeTypes ==
  ASSUME ShepherdTypeOK, NEW p \in Pids, NEW claude, NEW text, probe_tty_write(p, claude, text)
  PROVE  ShepherdTypeOK'
<1>1. CASE UNCHANGED shepherdVars
  BY <1>1 DEF shepherdVars, sessionVars, ShepherdTypeOK
<1>2. CASE ~UNCHANGED shepherdVars
  <2>1. Room
    BY <1>2 DEF probe_tty_write
  <2>2. PICK request :
          /\ Submit(IF request THEN "permission" ELSE "tty", p)
          /\ pid_states' = IF request /\ p \in Tracked
                           THEN [pid_states EXCEPT ![p] = waiting_permission] ELSE pid_states
          /\ asked' = IF text = "plain" THEN asked ELSE asked \cup {p}
          /\ UNCHANGED <<enabled, instances, sessions, untold, unlisted>>
    BY <1>2, Zenon DEF probe_tty_write
  <2>3. Submit("permission", p) \/ Submit("tty", p)
    BY <2>2
  <2>4. reports' \in Seq(Report) /\ Len(reports') =< ShepherdRing
    BY <2>1, <2>3, SubmitTypes DEF Types
  <2>5. pid_states' \in [Pids -> {absent, running, waiting_permission}]
    BY <2>2 DEF ShepherdTypeOK
  <2>6. {instances', asked', sessions', untold', unlisted'} \subseteq SUBSET Pids
    BY <2>2 DEF ShepherdTypeOK
  <2>. QED  BY <2>2, <2>4, <2>5, <2>6 DEF ShepherdTypeOK, Report
<1>. QED  BY <1>1, <1>2

LEMMA trace_execTypes ==
  ASSUME ShepherdTypeOK, NEW p \in Pids, NEW claude, trace_exec(p, claude)
  PROVE  ShepherdTypeOK'
<1>1. CASE UNCHANGED shepherdVars
  BY <1>1 DEF shepherdVars, sessionVars, ShepherdTypeOK
<1>2. CASE ~UNCHANGED shepherdVars
  <2>1. Room /\ Submit("exec", p)
    BY <1>2 DEF trace_exec
  <2>2. reports' \in Seq(Report) /\ Len(reports') =< ShepherdRing
    BY <2>1, SubmitTypes DEF Types
  <2>3. pid_states' \in [Pids -> {absent, running, waiting_permission}]
    BY <1>2 DEF trace_exec, NewEntry, ShepherdTypeOK
  <2>4. {instances', asked', sessions', untold', unlisted'} \subseteq SUBSET Pids
    BY <1>2 DEF trace_exec, ShepherdTypeOK
  <2>5. enabled' \in BOOLEAN
    BY <1>2 DEF trace_exec, ShepherdTypeOK
  <2>. QED  BY <2>2, <2>3, <2>4, <2>5 DEF ShepherdTypeOK, Report
<1>. QED  BY <1>1, <1>2

LEMMA trace_exitTypes ==
  ASSUME ShepherdTypeOK, NEW p \in Pids, NEW whole, trace_exit(p, whole)
  PROVE  ShepherdTypeOK'
<1>1. reports' \in Seq(Report) /\ Len(reports') =< ShepherdRing
  <2>1. CASE Forgets(p) /\ Room
    BY <2>1, SubmitTypes DEF trace_exit, Types
  <2>2. CASE ~(Forgets(p) /\ Room)
    BY <2>2 DEF trace_exit, ShepherdTypeOK, Report
  <2>. QED  BY <2>1, <2>2
<1>2. pid_states' \in [Pids -> {absent, running, waiting_permission}]
  BY DEF trace_exit, ShepherdTypeOK
<1>3. {instances', asked', sessions', untold', unlisted'} \subseteq SUBSET Pids
  BY DEF trace_exit, ShepherdTypeOK
<1>. QED  BY <1>1, <1>2, <1>3 DEF trace_exit, ShepherdTypeOK, Report

LEMMA handleEventTypes ==
  ASSUME ShepherdTypeOK, handleEvent
  PROVE  ShepherdTypeOK'
<1>1. reports \in Seq(Report) /\ Len(reports) =< ShepherdRing /\ ShepherdRing \in Nat
  BY ShepherdAssumption DEF ShepherdTypeOK, Report
<1>2. reports # <<>> /\ reports' = Tail(reports)
  BY DEF handleEvent
<1>3. /\ reports' \in Seq(Report) /\ Len(reports') =< ShepherdRing
      /\ Head(reports) \in Report
  BY <1>1, <1>2
<1>4. Head(reports).pid \in Pids
  BY <1>3 DEF Report
<1>5. instances' \in SUBSET Pids
  BY <1>4 DEF handleEvent, Applied, ShepherdTypeOK
<1>. QED  BY <1>3, <1>5 DEF handleEvent, ShepherdTypeOK, Report, sessionVars

\* What a process does to the signal of each process.
LEMMA execute_verdictTypes ==
  ASSUME TypeOK, handle_event, NEW p \in Pids, execute_verdict(p, verdict)
  PROVE  pending' \in [Pids -> {"none", "SIGSTOP", "SIGKILL"}]
BY DEF execute_verdict, verdict, judge_command, TypeOK

LEMMA NextTypes == TypeOK /\ [Next]_vars => TypeOK'
<1>. SUFFICES ASSUME TypeOK, [Next]_vars PROVE TypeOK'
  OBVIOUS
<1>. USE SentinelsAssumption
<1>1. ASSUME NEW p \in Pids, NEW child \in Pids, Fork(p, child) PROVE TypeOK'
  BY <1>1 DEF Fork, TypeOK, monitorVars, observerVars, shepherdVars, sessionVars,
              ObserverTypeOK, ShepherdTypeOK
<1>2. ASSUME NEW p \in Pids, NEW command \in Commands, NEW read \in Commands,
             FileCall(p, command, read)
      PROVE  TypeOK'
  <2>1. ObserverTypeOK'
    BY <1>2, kprobeTypes DEF FileCall, TypeOK
  <2>. QED  BY <2>1, <1>2 DEF FileCall, Counted, TypeOK, monitorVars, shepherdVars, sessionVars,
                              ShepherdTypeOK
<1>3. ASSUME NEW p \in Pids, NEW name \in Programs, NEW command \in Commands,
             NEW read \in Commands, Execve(p, name, command, read)
      PROVE  TypeOK'
  <2>1. ObserverTypeOK'
    BY <1>3, kprobeTypes DEF Execve, TypeOK
  <2>. QED  BY <2>1, <1>3 DEF Execve, Counted, TypeOK, monitorVars, shepherdVars, sessionVars,
                              ShepherdTypeOK
<1>4. ASSUME NEW p \in Pids, Exec(p) PROVE TypeOK'
  <2>1. ShepherdTypeOK'
    <3>1. CASE UNCHANGED shepherdVars
      BY <3>1 DEF TypeOK, ShepherdTypeOK, shepherdVars, sessionVars
    <3>2. CASE trace_exec(p, is_claude_process(execing[p]))
      BY <3>2, trace_execTypes DEF TypeOK
    <3>. QED  BY <1>4, <3>1, <3>2 DEF Exec
  <2>2. ObserverTypeOK'
    BY <1>4 DEF Exec, TypeOK, ObserverTypeOK, observerVars
  <2>3. comm' \in [Pids -> Programs \cup {<<>>}]
    BY <1>4 DEF Exec, TypeOK
  <2>. QED  BY <1>4, <2>1, <2>2, <2>3 DEF Exec, TypeOK, monitorVars
<1>5. ASSUME NEW p \in Pids, NEW text, Write(p, text) PROVE TypeOK'
  <2>1. ShepherdTypeOK'
    BY <1>5, probe_tty_writeTypes DEF Write, TypeOK
  <2>. QED  BY <2>1, <1>5 DEF Write, Counted, TypeOK, monitorVars, observerVars, ObserverTypeOK
<1>6. ASSUME NEW p \in Pids, ThreadExit(p) PROVE TypeOK'
  <2>1. ShepherdTypeOK'
    BY <1>6, trace_exitTypes DEF ThreadExit, TypeOK
  <2>. QED  BY <2>1, <1>6 DEF ThreadExit, TypeOK, processVars, monitorVars, observerVars,
                              ObserverTypeOK
<1>7. ASSUME NEW p \in Pids, Exit(p) PROVE TypeOK'
  <2>1. ShepherdTypeOK'
    BY <1>7, trace_exitTypes DEF Exit, TypeOK
  <2>2. ObserverTypeOK'
    BY <1>7, SettleTypes DEF Exit, TypeOK
  <2>. QED  BY <2>1, <2>2, <1>7 DEF Exit, TypeOK, monitorVars
<1>8. ASSUME NEW p \in Pids, Resume(p) PROVE TypeOK'
  <2>1. ObserverTypeOK'
    BY <1>8, SettleTypes DEF Resume, TypeOK
  <2>. QED  BY <2>1, <1>8 DEF Resume, TypeOK, monitorVars, shepherdVars, sessionVars,
                              ShepherdTypeOK
<1>9. CASE Judge
  <2>1. ObserverTypeOK' /\ Head(observed) \in Observation
    BY <1>9, handle_eventTypes DEF Judge, TypeOK
  <2>2. pending' \in [Pids -> {"none", "SIGSTOP", "SIGKILL"}]
    BY <2>1, <1>9, execute_verdictTypes DEF Judge, Observation
  <2>. QED  BY <2>1, <2>2, <1>9 DEF Judge, TypeOK, monitorVars, shepherdVars, sessionVars,
                                    ShepherdTypeOK
<1>10. CASE Deliver
  <2>1. ShepherdTypeOK'
    BY <1>10, handleEventTypes DEF Deliver, TypeOK
  <2>. QED  BY <2>1, <1>10 DEF Deliver, TypeOK, processVars, monitorVars, observerVars,
                               ObserverTypeOK
<1>11. CASE SwitchShepherd
  BY <1>11 DEF SwitchShepherd, Switch, TypeOK, processVars, monitorVars, observerVars,
               sessionVars, ObserverTypeOK, ShepherdTypeOK
<1>12. CASE StopEnforcing
  BY <1>12 DEF StopEnforcing, TypeOK, processVars, observerVars, shepherdVars, sessionVars,
               ObserverTypeOK, ShepherdTypeOK
<1>13. CASE UNCHANGED vars
  BY <1>13 DEF TypeOK, vars, processVars, monitorVars, observerVars, shepherdVars, sessionVars,
               ObserverTypeOK, ShepherdTypeOK
<1>. QED
  BY <1>1, <1>2, <1>3, <1>4, <1>5, <1>6, <1>7, <1>8, <1>9, <1>10, <1>11, <1>12, <1>13 DEF Next

\* Every variable of the monitors keeps its type, in every history of processes.
THEOREM TypeCorrect == Spec => []TypeOK
<1>. QED  BY InitTypes, NextTypes, PTL DEF Spec

-----------------------------------------------------------------------------
(* What the lists mean. *)

LEMMA WordType == \A w \in Words : w \in Seq(Letters)
BY DEF Words

\* The first k letters.
LEMMA CutIs ==
  ASSUME NEW L, NEW w \in Seq(L), NEW k \in Nat
  PROVE  /\ Cut(w, k) \in Seq(L)
         /\ Len(w) =< k => Cut(w, k) = w
         /\ Len(Cut(w, k)) = IF Len(w) < k THEN Len(w) ELSE k
         /\ \A i \in 1 .. Len(Cut(w, k)) : Cut(w, k)[i] = w[i]
<1> DEFINE m == IF Len(w) < k THEN Len(w) ELSE k
<1>1. m \in 0 .. Len(w) /\ Len(w) \in Nat
  OBVIOUS
<1>2. SubSeq(w, 1, m) \in Seq(L) /\ Len(SubSeq(w, 1, m)) = m
  BY <1>1
<1>3. \A i \in 1 .. m : SubSeq(w, 1, m)[i] = w[i]
  BY <1>1
<1>4. Len(w) =< k => SubSeq(w, 1, m) = w
  BY <1>1
<1>5. Cut(w, k) = SubSeq(w, 1, m)
  BY DEF Cut
<1> HIDE DEF m
<1>6. Len(Cut(w, k)) = m
  BY <1>2, <1>5
<1>7. m = IF Len(w) < k THEN Len(w) ELSE k
  BY DEF m
<1> QED BY <1>2, <1>3, <1>4, <1>5, <1>6, <1>7

LEMMA PrefixIs ==
  ASSUME NEW L, NEW s \in Seq(L), NEW t \in Seq(L)
  PROVE  IsPrefix(s, t) <=> Len(s) =< Len(t) /\ \A i \in 1 .. Len(s) : s[i] = t[i]
<1>1. SubSeq(s, 1, Len(s)) = s
  OBVIOUS
<1>2. Len(s) =< Len(t) => /\ SubSeq(t, 1, Len(s)) \in Seq(L)
                          /\ Len(SubSeq(t, 1, Len(s))) = Len(s)
                          /\ \A i \in 1 .. Len(s) : SubSeq(t, 1, Len(s))[i] = t[i]
  OBVIOUS
<1>3. ASSUME Len(s) =< Len(t), \A i \in 1 .. Len(s) : s[i] = t[i]
      PROVE  SubSeq(t, 1, Len(s)) = s
  BY <1>2, <1>3
<1> QED BY <1>1, <1>2, <1>3 DEF IsPrefix

\* What a comparison of at most CommSize or PrefixSize letters can tell.
LEMMA ComparedExactly ==
  ASSUME NEW L, NEW v \in Seq(L), NEW w \in Seq(L), Len(w) < CommSize, str_equals(v, w)
  PROVE  v = w
<1>1. CommSize \in Nat
  BY ExecVerdictAssumption
<1>2. Cut(w, CommSize) = w /\ Cut(v, CommSize) = w
  BY <1>1, CutIs DEF str_equals
<1>3. Len(v) < CommSize
  BY <1>1, <1>2, CutIs
<1>4. Cut(v, CommSize) = v
  BY <1>1, <1>3, CutIs
<1> QED BY <1>2, <1>4

LEMMA PrefixOfPrefix ==
  ASSUME NEW L, NEW s \in Seq(L), NEW t \in Seq(L), IsPrefix(s, t)
  PROVE  str_contains(t, s)
<1>1. PrefixSize \in Nat
  BY ExecVerdictAssumption
<1> DEFINE c == Cut(s, PrefixSize)
<1>2. /\ c \in Seq(L) /\ Len(c) = IF Len(s) < PrefixSize THEN Len(s) ELSE PrefixSize
      /\ \A i \in 1 .. Len(c) : c[i] = s[i]
  BY <1>1, CutIs
<1> HIDE DEF c
<1>3. Len(s) =< Len(t) /\ \A i \in 1 .. Len(s) : s[i] = t[i]
  BY PrefixIs
<1>4. Len(c) =< Len(s) /\ Len(s) \in Nat /\ Len(c) \in Nat /\ Len(t) \in Nat
  BY <1>1, <1>2
<1>5. Len(c) =< Len(t) /\ \A i \in 1 .. Len(c) : c[i] = t[i]
  BY <1>2, <1>3, <1>4
<1>6. IsPrefix(c, t)
  BY <1>2, <1>5, PrefixIs
<1> QED BY <1>6 DEF c, str_contains

LEMMA PrefixFits ==
  ASSUME NEW L, NEW s \in Seq(L), NEW t, Len(s) =< PrefixSize, str_contains(t, s)
  PROVE  IsPrefix(s, t)
<1>1. PrefixSize \in Nat
  BY ExecVerdictAssumption
<1>2. Cut(s, PrefixSize) = s
  BY <1>1, CutIs
<1> QED BY <1>2 DEF str_contains

\* Entries and names as sequences of letters.
Judgeable(E, N, L) ==
  /\ \A e \in E : e.pattern \in Seq(L) /\ e.severity \in Nat
  /\ N \subseteq Seq(L)

LEMMA PrefixIsInfix ==
  ASSUME NEW L, NEW s \in Seq(L), NEW t \in Seq(L), IsPrefix(s, t)
  PROVE  IsInfix(s, t)
<1>1. SubSeq(t, 0 + 1, Len(t)) = t /\ 0 \in 0 .. Len(t)
  OBVIOUS
<1> QED BY <1>1 DEF IsInfix

\* The empty name has no word in it.
LEMMA NoWordInNothing ==
  ASSUME NEW L, NEW s \in Seq(L), s # <<>>
  PROVE  ~IsInfix(s, <<>>)
<1> SUFFICES ASSUME NEW i \in 0 .. Len(<<>>), IsPrefix(s, SubSeq(<<>>, i + 1, Len(<<>>)))
             PROVE  FALSE
  BY DEF IsInfix
<1> DEFINE t == SubSeq(<<>>, i + 1, Len(<<>>))
<1>1. t \in Seq(L) /\ Len(t) = 0
  OBVIOUS
<1>2. Len(s) # 0
  OBVIOUS
<1> HIDE DEF t
<1>3. IsPrefix(s, t)
  BY DEF t
<1>4. Len(s) =< Len(t)
  BY <1>1, <1>3, PrefixIs
<1>5. Len(s) \in Nat
  OBVIOUS
<1> QED BY <1>1, <1>2, <1>4, <1>5

\* What the Inquisitor refuses is what an entry says.
LEMMA InquisitorSays ==
  ASSUME NEW L, NEW e, e.pattern \in Seq(L), NEW n \in Seq(L)
  PROVE  check_blacklist(<<e>>, n) <=> Says(e, n)
<1>1. PICK q \in Seq(L) : q = e.pattern
  OBVIOUS
<1>2. DOMAIN <<e>> = {1} /\ <<e>>[1] = e
  OBVIOUS
<1>3. check_blacklist(<<e>>, n) <=>
        On(e) /\ IF e.exact THEN q = n ELSE contains_substring(n, q)
  BY <1>1, <1>2 DEF check_blacklist
<1>4. q # <<>> /\ IsInfix(q, n) => n # <<>>
  BY NoWordInNothing
<1> QED BY <1>1, <1>3, <1>4 DEF Says, On, contains_substring

LEMMA EntriesSay ==
  ASSUME NEW L, NEW E, NEW N, Judgeable(E, N, L)
  PROVE  EntriesMean(E, N)
<1> SUFFICES ASSUME NEW e \in E, NEW n \in N
             PROVE  /\ Len(n) < CommSize => (check_blacklist(<<e>>, n) <=> Says(e, n))
                    /\ Finds(e, n) => check_entry(e, n)
                    /\ (/\ Len(e.pattern) =< IF e.exact THEN CommSize - 1 ELSE PrefixSize
                        /\ check_entry(e, n))
                         => Finds(e, n)
  BY DEF EntriesMean
<1>1. PICK q \in Seq(L) : q = e.pattern
  BY DEF Judgeable
<1>2. n \in Seq(L)
  BY DEF Judgeable
<1>3. check_blacklist(<<e>>, n) <=> Says(e, n)
  BY <1>1, <1>2, InquisitorSays
<1>4. CASE e.exact
  <2>1. str_equals(q, q)
    BY DEF str_equals
  <2>2. Len(q) < CommSize /\ str_equals(n, q) => n = q
    BY <1>2, ComparedExactly
  <2>3. Len(q) =< CommSize - 1 => Len(q) < CommSize
    BY ExecVerdictAssumption
  <2> QED BY <1>1, <1>3, <1>4, <2>1, <2>2, <2>3 DEF Finds, Says, check_entry
<1>5. CASE ~e.exact
  <2>1. IsPrefix(q, n) => str_contains(n, q)
    BY <1>2, PrefixOfPrefix
  <2>2. Len(q) =< PrefixSize /\ str_contains(n, q) => IsPrefix(q, n)
    BY <1>2, PrefixFits
  <2>3. IsPrefix(q, n) => IsInfix(q, n)
    BY <1>2, PrefixIsInfix
  <2> QED BY <1>1, <1>3, <1>5, <2>1, <2>2, <2>3 DEF Finds, Says, check_entry
<1> QED BY <1>4, <1>5

\* An entry that the Oracle can compare whole matches what it finds.
LEMMA CodexFinds ==
  ASSUME NEW L, NEW e, e.pattern \in Seq(L), NEW n \in Seq(L), Len(e.pattern) < OracleSize
  PROVE  CodexMatch(e, n) <=> Finds(e, n)
<1>1. PICK q \in Seq(L) : q = e.pattern
  OBVIOUS
<1>2. OracleSize \in Nat
  BY ExecVerdictAssumption
<1>3. Cut(q, OracleSize) = q
  BY <1>1, <1>2, CutIs
<1>4. n = q <=> Cut(n, OracleSize) = Cut(q, OracleSize)
  <2>1. ASSUME Cut(n, OracleSize) = q PROVE n = q
    <3>1. Len(n) < OracleSize
      BY <1>1, <1>2, <2>1, CutIs
    <3>2. Cut(n, OracleSize) = n
      BY <1>2, <3>1, CutIs
    <3> QED BY <2>1, <3>2
  <2> QED BY <1>3, <2>1
<1>5. IsPrefix(q, n) => IsInfix(q, n)
  BY PrefixIsInfix
<1> QED BY <1>1, <1>4, <1>5 DEF CodexMatch, Finds, Says

LEMMA WorstDecides ==
  ASSUME NEW L, NEW E, NEW N, Judgeable(E, N, L), \A e \in E : Len(e.pattern) < OracleSize
  PROVE  WorstFirstDecides(E, N)
<1> SUFFICES ASSUME NEW a \in E, NEW b \in E, NEW n \in N, a.severity >= b.severity,
                    Len(n) < CodexSize
             PROVE  LET found == {e \in {a, b} : Finds(e, n)}
                        answer == check_sovereign_codex(<<a, b>>, n)
                    IN  /\ \A e \in found : answer >= e.severity
                        /\ answer \in {0} \cup {e.severity : e \in found}
  BY DEF WorstFirstDecides
<1>1. /\ n \in Seq(L) /\ a.severity \in Nat /\ b.severity \in Nat
      /\ a.pattern \in Seq(L) /\ b.pattern \in Seq(L)
  BY DEF Judgeable
<1>2. Cut(n, CodexSize - 1) = n
  <2>1. CodexSize - 1 \in Nat /\ Len(n) =< CodexSize - 1
    BY <1>1, ExecVerdictAssumption
  <2> QED BY <1>1, <2>1, CutIs
<1>3. (CodexMatch(a, n) <=> Finds(a, n)) /\ (CodexMatch(b, n) <=> Finds(b, n))
  BY <1>1, CodexFinds
<1> DEFINE codex == <<a, b>>
           hits == {i \in DOMAIN codex : CodexMatch(codex[i], n)}
           found == {e \in {a, b} : Finds(e, n)}
           answer == check_sovereign_codex(codex, n)
           first == CHOOSE i \in hits : \A j \in hits : i =< j
<1>4. DOMAIN codex = {1, 2} /\ codex[1] = a /\ codex[2] = b
  OBVIOUS
<1>5. /\ 1 \in hits <=> Finds(a, n)
      /\ 2 \in hits <=> Finds(b, n)
      /\ hits \subseteq {1, 2}
  BY <1>3, <1>4
<1>6. answer = IF hits = {} THEN 0 ELSE codex[first].severity
  BY <1>2 DEF check_sovereign_codex
<1> HIDE DEF codex, hits, answer
<1>7. ASSUME NEW k \in hits, \A j \in hits : k =< j
       PROVE  first \in hits /\ \A j \in hits : first =< j
  BY <1>7
<1> HIDE DEF first
<1>8. CASE Finds(a, n)
  <2>1. 1 \in hits /\ \A j \in hits : 1 =< j
    BY <1>5, <1>8
  <2>2. first \in hits /\ \A j \in hits : first =< j
    BY <1>7, <2>1
  <2>3. first = 1
    BY <1>5, <2>1, <2>2
  <2>4. answer = a.severity
    BY <1>4, <1>5, <1>6, <1>8, <2>3
  <2>5. a \in found
    BY <1>8
  <2>6. \A e \in found : answer >= e.severity
    BY <1>1, <2>4
  <2>7. answer \in {e.severity : e \in found}
    BY <2>4, <2>5
  <2> QED BY <2>6, <2>7 DEF answer, codex
<1>9. CASE ~Finds(a, n) /\ Finds(b, n)
  <2>1. hits = {2}
    BY <1>5, <1>9
  <2>2. 2 \in hits /\ \A j \in hits : 2 =< j
    BY <2>1
  <2>3. first = 2
    BY <1>7, <2>1, <2>2
  <2>4. answer = b.severity
    BY <1>4, <1>6, <2>1, <2>3
  <2>5. \A e \in found : e.severity = b.severity
    BY <1>9
  <2>6. b \in found
    BY <1>9
  <2> QED BY <1>1, <2>4, <2>5, <2>6 DEF answer, codex
<1>10. CASE ~Finds(a, n) /\ ~Finds(b, n)
  <2>1. hits = {} /\ found = {}
    BY <1>5, <1>10
  <2> QED BY <1>6, <2>1 DEF answer, codex
<1> QED BY <1>8, <1>9, <1>10

\* Whatever the letters, the words and the sizes of what is compared: the
\* Inquisitor refuses the names an entry says and no other, the simple one none
\* besides those that an entry it can compare says, and a codex in order of severity
\* answers with the worst entry it finds (check_blacklist, check_entry,
\* check_sovereign_codex).
THEOREM ListsFindWhatTheySay == Spec => []ListsAreRead
<1>1. Judgeable(Entries, Words, Letters)
  BY WordType DEF Judgeable, Entries
<1> DEFINE Short == {e \in Entries : Len(e.pattern) < OracleSize}
<1>2. Judgeable(Short, Words, Letters) /\ \A e \in Short : Len(e.pattern) < OracleSize
  BY <1>1 DEF Judgeable
<1>3. PatternMeaning /\ WorstEntryDecides
  BY <1>1, <1>2, EntriesSay, WorstDecides DEF PatternMeaning, WorstEntryDecides
<1>4. ListsAreRead
  BY <1>3 DEF ListsAreRead
<1> QED BY <1>4, PTL

-----------------------------------------------------------------------------
(* The table of the shepherd. *)

LEMMA probe_tty_writeTruthful ==
  ASSUME ShepherdTypeOK, TableIsTruthful, NEW p \in Pids, NEW claude, NEW text,
         probe_tty_write(p, claude, text)
  PROVE  TableIsTruthful'
<1>1. CASE UNCHANGED shepherdVars
  BY <1>1 DEF shepherdVars, sessionVars, TableIsTruthful, EntryOfThisLife, WaitingWasAsked,
              Tracked
<1>2. CASE ~UNCHANGED shepherdVars
  <2>1. PICK request \in IF text = "unread" THEN BOOLEAN ELSE {text = "request"} :
          /\ pid_states' = IF request /\ p \in Tracked
                           THEN [pid_states EXCEPT ![p] = waiting_permission] ELSE pid_states
          /\ asked' = IF text = "plain" THEN asked ELSE asked \cup {p}
          /\ UNCHANGED <<sessions, untold>>
    BY <1>2, Zenon DEF probe_tty_write
  <2>2. request => text # "plain"
    BY <2>1
  <2>3. CASE request /\ p \in Tracked
    <3>1. /\ pid_states' = [pid_states EXCEPT ![p] = waiting_permission]
          /\ asked' = asked \cup {p} /\ UNCHANGED <<sessions, untold>>
      BY <2>1, <2>2, <2>3
    <3>. QED  BY <2>3, <3>1 DEF ShepherdTypeOK, TableIsTruthful, EntryOfThisLife,
                                WaitingWasAsked, Tracked
  <2>4. CASE ~(request /\ p \in Tracked)
    <3>1. /\ pid_states' = pid_states /\ asked \subseteq asked'
          /\ UNCHANGED <<sessions, untold>>
      BY <2>1, <2>4
    <3>. QED  BY <3>1 DEF TableIsTruthful, EntryOfThisLife, WaitingWasAsked, Tracked
  <2>. QED  BY <2>3, <2>4
<1>. QED  BY <1>1, <1>2

LEMMA trace_execTruthful ==
  ASSUME ShepherdTypeOK, TableIsTruthful, NEW p \in Pids, NEW claude, trace_exec(p, claude)
  PROVE  TableIsTruthful'
<1>1. CASE UNCHANGED shepherdVars
  BY <1>1 DEF shepherdVars, sessionVars, TableIsTruthful, EntryOfThisLife, WaitingWasAsked,
              Tracked
<1>2. CASE ~UNCHANGED shepherdVars
  <2>1. /\ pid_states' = NewEntry(p) /\ asked' = asked \ {p}
        /\ sessions' = sessions \cup {p} /\ untold' = untold \ {p}
    BY <1>2 DEF trace_exec
  <2>2. /\ \A q \in Pids \ {p} : pid_states'[q] = pid_states[q]
        /\ pid_states'[p] \in {absent, running}
    BY <2>1 DEF NewEntry, Fits, Tracked, ShepherdTypeOK
  <2>3. \A q \in Pids : pid_states'[q] = waiting_permission => q \in asked'
    BY <2>1, <2>2 DEF TableIsTruthful, WaitingWasAsked, absent, running, waiting_permission
  <2>. QED  BY <2>1, <2>2, <2>3 DEF TableIsTruthful, EntryOfThisLife, WaitingWasAsked, Tracked
<1>. QED  BY <1>1, <1>2

\* An entry that an exit leaves behind is one it could not report.
LEMMA trace_exitTruthful ==
  ASSUME ShepherdTypeOK, TableIsTruthful, NEW p \in Pids, NEW whole, trace_exit(p, whole)
  PROVE  TableIsTruthful'
<1>1. CASE Forgets(p)
  BY <1>1 DEF trace_exit, ShepherdTypeOK, TableIsTruthful, EntryOfThisLife, WaitingWasAsked,
              Tracked, absent, waiting_permission
<1>2. CASE ~Forgets(p)
  BY <1>2 DEF trace_exit, Forgets, TableIsTruthful, EntryOfThisLife, WaitingWasAsked, Tracked
<1>. QED  BY <1>1, <1>2

LEMMA TableStep ==
  ASSUME TypeOK, TableIsTruthful, [Next]_vars
  PROVE  TableIsTruthful'
<1>1. ShepherdTypeOK
  BY DEF TypeOK
<1>. HIDE DEF TypeOK
<1>2. ASSUME UNCHANGED <<pid_states, asked, sessions, untold>> PROVE TableIsTruthful'
  BY <1>2 DEF TableIsTruthful, EntryOfThisLife, WaitingWasAsked, Tracked
<1>3. ASSUME NEW p \in Pids, Exec(p) PROVE TableIsTruthful'
  BY <1>1, <1>2, <1>3, trace_execTruthful DEF Exec, shepherdVars, sessionVars
<1>4. ASSUME NEW p \in Pids, NEW text, Write(p, text) PROVE TableIsTruthful'
  BY <1>1, <1>4, probe_tty_writeTruthful DEF Write
<1>5. ASSUME NEW p \in Pids, ThreadExit(p) PROVE TableIsTruthful'
  BY <1>1, <1>5, trace_exitTruthful DEF ThreadExit
<1>6. ASSUME NEW p \in Pids, Exit(p) PROVE TableIsTruthful'
  BY <1>1, <1>6, trace_exitTruthful DEF Exit
<1>. QED
  BY <1>2, <1>3, <1>4, <1>5, <1>6
  DEF Next, Fork, Execve, FileCall, Judge, Resume, Deliver, handleEvent, SwitchShepherd, Switch,
      StopEnforcing, vars, shepherdVars, sessionVars

\* An entry of the shepherd's table is about the process that has the pid
\* now, unless its predecessor's exit could not be told of, and is shown as
\* waiting only if that process asked (trace_exec, trace_exit,
\* probe_tty_write).
THEOREM TableStaysTruthful == Spec => []TableIsTruthful
<1>1. Init => TableIsTruthful
  BY DEF Init, ShepherdInit, TableIsTruthful, EntryOfThisLife, WaitingWasAsked, Tracked,
         absent, waiting_permission
<1>2. TypeOK /\ TableIsTruthful /\ [Next]_vars => TableIsTruthful'
  BY TableStep
<1>. QED  BY <1>1, <1>2, TypeCorrect, PTL DEF Spec

-----------------------------------------------------------------------------
(* The daemon of the shepherd: what a sequence of records comes to. *)

\* Induction, for a set: the library's theorem takes an operator.
LEMMA Induction ==
  ASSUME NEW S, 0 \in S, \A n \in Nat : n \in S => n + 1 \in S
  PROVE  Nat \subseteq S
<1> SUFFICES ASSUME NEW k \in Nat, k \notin S PROVE FALSE
  OBVIOUS
<1> DEFINE T == {n \in 0..k : n \notin S}
           f == [n \in T |-> n - 1]
<1>1. IsFiniteSet(T)
  <2>1. IsFiniteSet(0..k)
    BY FS_Interval
  <2> QED BY <2>1, FS_Subset
<1>2. \A n \in T : n - 1 \in T /\ n \in 0..k
  <2> SUFFICES ASSUME NEW n \in T PROVE n - 1 \in T
    OBVIOUS
  <2>1. n \in 0..k /\ n \notin S /\ n # 0
    OBVIOUS
  <2>2. n - 1 \in Nat /\ (n - 1) + 1 = n /\ n - 1 \in 0..k
    BY <2>1
  <2>3. n - 1 \notin S
    BY <2>1, <2>2
  <2> QED BY <2>2, <2>3
<1>3. f \in Injection(T, T)
  <2>1. f \in [T -> T]
    BY <1>2
  <2>2. \A a, b \in T : f[a] = f[b] => a = b
    BY <1>2
  <2> HIDE DEF f, T
  <2> QED BY <2>1, <2>2 DEF Injection, IsInjective
<1>4. f \in Surjection(T, T)
  <2> HIDE DEF f, T
  <2> QED BY <1>1, <1>3, FS_Injection
<1>5. k \in T
  OBVIOUS
<1>6. PICK n \in T : f[n] = k
  <2> HIDE DEF f, T
  <2> QED BY <1>4, <1>5 DEF Surjection
<1> QED BY <1>2, <1>6

\* f takes the records of s in whose numbers are in D, for every D within N.
Takes(f, b, s, N) ==
  f = [D \in SUBSET N |-> IF D = {} THEN b ELSE Applied(f[D \ {Max(D)}], s[Max(D)])]

LEMMA FoldEquation ==
  ASSUME NEW s, NEW b, \E f : Takes(f, b, s, DOMAIN s)
  PROVE  \E g : Takes(g, b, s, DOMAIN s) /\ FoldLeft(Applied, b, s) = g[DOMAIN s]
<1> DEFINE whole == CHOOSE g : Takes(g, b, s, DOMAIN s)
<1>1. FoldLeft(Applied, b, s) = whole[DOMAIN s]
  BY DEF FoldLeft, MapThenFoldSet, Takes
<1>2. Takes(whole, b, s, DOMAIN s)
  OBVIOUS
<1> QED BY <1>1, <1>2

LEMMA MaxIs ==
  ASSUME NEW D, NEW x \in D, D \subseteq Int, \A y \in D : x >= y
  PROVE  Max(D) = x
<1> DEFINE P(z) == \A y \in D : z >= y
<1>1. P(Max(D)) /\ Max(D) \in D
  BY Zenon DEF Max
<1>2. Max(D) >= x /\ x >= Max(D) /\ Max(D) \in Int /\ x \in Int
  BY <1>1
<1> QED BY <1>2

LEMMA FoldExists ==
  ASSUME NEW n \in Nat, NEW s, NEW b
  PROVE  \E f : Takes(f, b, s, 1..n)
<1> DEFINE Body(f, k) == [D \in SUBSET (1..k) |->
                        IF D = {} THEN b ELSE Applied(f[D \ {Max(D)}], s[Max(D)])]
           S == {k \in Nat : \E f : f = Body(f, k)}
<1>1. 0 \in S
  <2> DEFINE f == [D \in SUBSET (1..0) |-> b]
  <2>1. \A D \in SUBSET (1..0) : D = {}
    OBVIOUS
  <2>2. f = Body(f, 0)
    BY <2>1
  <2> HIDE DEF f, Body
  <2> QED BY <2>2
<1>2. ASSUME NEW k \in Nat, k \in S PROVE k + 1 \in S
  <2>1. PICK f : f = Body(f, k)
    BY <1>2
  <2> DEFINE h == [D \in SUBSET (1..(k + 1)) |->
                      IF k + 1 \in D THEN Applied(f[D \ {k + 1}], s[k + 1]) ELSE f[D]]
  <2>2. ASSUME NEW D \in SUBSET (1..(k + 1))
        PROVE  h[D] = IF D = {} THEN b ELSE Applied(h[D \ {Max(D)}], s[Max(D)])
    <3>1. CASE k + 1 \in D
      <4>1. Max(D) = k + 1
        <5>1. D \subseteq Int /\ \A y \in D : k + 1 >= y
          OBVIOUS
        <5> QED BY <3>1, <5>1, MaxIs
      <4>2. D \ {k + 1} \in SUBSET (1..(k + 1)) /\ k + 1 \notin D \ {k + 1}
        OBVIOUS
      <4>3. h[D \ {k + 1}] = f[D \ {k + 1}]
        BY <4>2
      <4>4. h[D] = Applied(f[D \ {k + 1}], s[k + 1])
        BY <3>1
      <4> HIDE DEF h
      <4> QED BY <3>1, <4>1, <4>3, <4>4
    <3>2. CASE k + 1 \notin D
      <4>1. D \in SUBSET (1..k) /\ D \ {Max(D)} \in SUBSET (1..(k + 1)) /\ k + 1 \notin D \ {Max(D)}
        <5>1. \A y \in D : y \in 1..(k + 1) /\ y # k + 1
          BY <3>2
        <5>2. \A y \in D : y \in 1..k
          BY <5>1
        <5> QED BY <5>1, <5>2
      <4>2. h[D] = f[D] /\ h[D \ {Max(D)}] = f[D \ {Max(D)}]
        BY <3>2, <4>1
      <4>3. f[D] = IF D = {} THEN b ELSE Applied(f[D \ {Max(D)}], s[Max(D)])
        BY <2>1, <4>1
      <4> HIDE DEF h
      <4> QED BY <4>2, <4>3
    <3> QED BY <3>1, <3>2
  <2>3. h = Body(h, k + 1)
    <3>1. h = [D \in SUBSET (1..(k + 1)) |-> h[D]]
      OBVIOUS
    <3> HIDE DEF h
    <3> QED BY <2>2, <3>1
  <2> HIDE DEF h, Body
  <2> QED BY <2>3
<1>3. Nat \subseteq S
  <2> HIDE DEF S
  <2> QED BY <1>1, <1>2, Induction
<1> QED BY <1>3 DEF Takes

\* g counts the records of s in: the fold is what it comes to.
Folding(g, b, s, n) ==
  /\ g[0] = b
  /\ \A i \in 1..n : g[i] = Applied(g[i - 1], s[i])

LEMMA FoldTerms ==
  ASSUME NEW n \in Nat, NEW s, DOMAIN s = 1..n, NEW b
  PROVE  \E g : Folding(g, b, s, n) /\ FoldLeft(Applied, b, s) = g[n]
<1>1. PICK g : Takes(g, b, s, DOMAIN s) /\ FoldLeft(Applied, b, s) = g[DOMAIN s]
  BY FoldExists, FoldEquation
<1>2. g = [D \in SUBSET DOMAIN s |-> IF D = {} THEN b ELSE Applied(g[D \ {Max(D)}], s[Max(D)])]
  BY <1>1 DEF Takes
<1> DEFINE h == [k \in 0..n |-> g[1..k]]
<1>3. h[0] = b
  <2>1. 1..0 = {} /\ 0 \in 0..n
    OBVIOUS
  <2>2. g[{}] = b
    BY <1>2
  <2> QED BY <2>1, <2>2
<1>4. ASSUME NEW i \in 1..n PROVE h[i] = Applied(h[i - 1], s[i])
  <2>1. Max(1..i) = i
    <3>1. 1..i \subseteq Int /\ i \in 1..i /\ \A y \in 1..i : i >= y
      OBVIOUS
    <3> QED BY <3>1, MaxIs
  <2>2. (1..i) \ {i} = 1..(i - 1) /\ 1..i # {} /\ 1..i \in SUBSET DOMAIN s
    <3>1. i \in 1..i /\ \A y \in 1..i : y \in 1..n
      OBVIOUS
    <3>2. \A y \in 1..i : y # i => y \in 1..(i - 1)
      OBVIOUS
    <3>3. \A y \in 1..(i - 1) : y \in 1..i /\ y # i
      OBVIOUS
    <3> QED BY <3>1, <3>2, <3>3
  <2>3. g[1..i] = Applied(g[1..(i - 1)], s[i])
    BY <1>2, <2>1, <2>2
  <2>4. i \in 0..n /\ i - 1 \in 0..n
    OBVIOUS
  <2> QED BY <2>3, <2>4
<1>5. h[n] = FoldLeft(Applied, b, s)
  BY <1>1
<1> HIDE DEF h
<1> QED BY <1>3, <1>4, <1>5 DEF Folding

\* g and h begin alike and take the same n records in.
Alike(g, h, n) ==
  /\ g[0] = h[0]
  /\ \A i \in 1..n : \E e : g[i] = Applied(g[i - 1], e) /\ h[i] = Applied(h[i - 1], e)

LEMMA FoldingsAgree ==
  ASSUME NEW n \in Nat, NEW g, NEW h, Alike(g, h, n)
  PROVE  \A i \in 0..n : g[i] = h[i]
<1> DEFINE S == {i \in Nat : i \in 0..n => g[i] = h[i]}
<1>1. 0 \in S
  BY DEF Alike
<1>2. ASSUME NEW k \in Nat, k \in S PROVE k + 1 \in S
  <2> SUFFICES ASSUME k + 1 \in 0..n PROVE g[k + 1] = h[k + 1]
    OBVIOUS
  <2>1. g[k] = h[k] /\ k + 1 \in 1..n
    BY <1>2
  <2>2. PICK e : g[k + 1] = Applied(g[(k + 1) - 1], e) /\ h[k + 1] = Applied(h[(k + 1) - 1], e)
    BY <2>1 DEF Alike
  <2>3. (k + 1) - 1 = k
    OBVIOUS
  <2> QED BY <2>1, <2>2, <2>3
<1>3. Nat \subseteq S
  <2> HIDE DEF S
  <2> QED BY <1>1, <1>2, Induction
<1> QED BY <1>3

\* A record at the end is applied to what the others come to.
LEMMA FoldAppend ==
  ASSUME NEW R, NEW s \in Seq(R), NEW e \in R, NEW b
  PROVE  FoldLeft(Applied, b, Append(s, e)) = Applied(FoldLeft(Applied, b, s), e)
<1> DEFINE n == Len(s)
           t == Append(s, e)
<1>1. n \in Nat /\ DOMAIN s = 1..n /\ t \in Seq(R) /\ DOMAIN t = 1..(n + 1)
      /\ t[n + 1] = e /\ \A i \in 1..n : t[i] = s[i]
  OBVIOUS
<1>2. PICK g : Folding(g, b, s, n) /\ FoldLeft(Applied, b, s) = g[n]
  <2> HIDE DEF n, t
  <2> QED BY <1>1, FoldTerms
<1>3. PICK h : Folding(h, b, t, n + 1) /\ FoldLeft(Applied, b, t) = h[n + 1]
  <2> HIDE DEF n, t
  <2> QED BY <1>1, FoldTerms
<1>4. \A i \in 0..n : g[i] = h[i]
  <2> HIDE DEF n, t
  <2>1. ASSUME NEW i \in 1..n PROVE \E e0 : g[i] = Applied(g[i - 1], e0) /\ h[i] = Applied(h[i - 1], e0)
    <3>1. i \in 1..(n + 1) /\ t[i] = s[i]
      BY <1>1
    <3> QED BY <1>2, <1>3, <3>1 DEF Folding
  <2>2. g[0] = h[0]
    BY <1>2, <1>3 DEF Folding
  <2>3. n \in Nat
    BY <1>1
  <2>4. Alike(g, h, n)
    BY <2>1, <2>2 DEF Alike
  <2> QED BY <2>3, <2>4, FoldingsAgree
<1>5. h[n + 1] = Applied(h[n], e)
  <2>1. n + 1 \in 1..(n + 1) /\ (n + 1) - 1 = n
    BY <1>1
  <2> HIDE DEF n, t
  <2> QED BY <1>1, <1>3, <2>1 DEF Folding
<1> HIDE DEF n, t
<1>6. h[n] = g[n]
  BY <1>1, <1>4
<1>7. FoldLeft(Applied, b, t) = Applied(FoldLeft(Applied, b, s), e)
  BY <1>2, <1>3, <1>5, <1>6
<1> QED BY <1>7 DEF t

\* What a sequence comes to is what its tail comes to, from where its head leads.
LEMMA FoldHead ==
  ASSUME NEW R, NEW s \in Seq(R), s # <<>>, NEW b
  PROVE  FoldLeft(Applied, Applied(b, Head(s)), Tail(s)) = FoldLeft(Applied, b, s)
<1> DEFINE n == Len(s) - 1
           t == Tail(s)
           a == Applied(b, Head(s))
<1>1. n \in Nat /\ DOMAIN s = 1..(n + 1) /\ t \in Seq(R) /\ DOMAIN t = 1..n
      /\ \A i \in 1..n : t[i] = s[i + 1]
  OBVIOUS
<1>2. PICK g : Folding(g, b, s, n + 1) /\ FoldLeft(Applied, b, s) = g[n + 1]
  <2> HIDE DEF n, t
  <2> QED BY <1>1, FoldTerms
<1>3. PICK h : Folding(h, a, t, n) /\ FoldLeft(Applied, a, t) = h[n]
  <2> HIDE DEF n, t, a
  <2> QED BY <1>1, FoldTerms
<1> DEFINE f == [i \in 0..n |-> g[i + 1]]
<1>4. f[0] = h[0]
  <2>1. 1 \in 1..(n + 1) /\ 1 - 1 = 0 /\ 0 \in 0..n
    BY <1>1
  <2>2. g[1] = Applied(g[0], s[1])
    BY <1>2, <2>1 DEF Folding
  <2>3. g[0] = b /\ h[0] = a /\ Head(s) = s[1]
    BY <1>2, <1>3 DEF Folding
  <2>4. f[0] = g[1]
    BY <2>1
  <2> QED BY <2>2, <2>3, <2>4
<1>5. ASSUME NEW i \in 1..n PROVE \E e : f[i] = Applied(f[i - 1], e) /\ h[i] = Applied(h[i - 1], e)
  <2>1. i \in 0..n /\ i - 1 \in 0..n /\ i + 1 \in 1..(n + 1) /\ (i + 1) - 1 = i /\ (i - 1) + 1 = i
    BY <1>1
  <2>2. f[i] = g[i + 1] /\ f[i - 1] = g[i]
    BY <2>1
  <2>3. g[i + 1] = Applied(g[i], s[i + 1])
    <3> HIDE DEF n, f
    <3> QED BY <1>2, <2>1 DEF Folding
  <2>4. h[i] = Applied(h[i - 1], t[i]) /\ t[i] = s[i + 1]
    <3> HIDE DEF n, f, t
    <3> QED BY <1>1, <1>3 DEF Folding
  <2> HIDE DEF f, n, t
  <2> QED BY <2>2, <2>3, <2>4
<1>6. \A i \in 0..n : f[i] = h[i]
  <2> HIDE DEF f, n, t
  <2>1. n \in Nat
    BY <1>1
  <2>2. Alike(f, h, n)
    BY <1>4, <1>5 DEF Alike
  <2> QED BY <2>1, <2>2, FoldingsAgree
<1>7. f[n] = g[n + 1] /\ n \in 0..n
  BY <1>1
<1>8. FoldLeft(Applied, a, t) = FoldLeft(Applied, b, s)
  <2> HIDE DEF f, n, t, a
  <2> QED BY <1>2, <1>3, <1>6, <1>7
<1> HIDE DEF t, a
<1> QED BY <1>8 DEF t, a

\* What the daemon will hold when it has read the ring.
Told == FoldLeft(Applied, instances, reports)

\* No pid is both in the table and among those that found it full.
ListedOrNot == Tracked \cap unlisted = {}

InstancesInv == InstancesFollowTable /\ ListedOrNot

LEMMA SubmitTold ==
  ASSUME ShepherdTypeOK, NEW type \in Types, NEW p \in Pids, Submit(type, p), UNCHANGED instances
  PROVE  Told' = CASE type = "exec" -> Told \cup {p}
                   [] type = "exit" -> Told \ {p}
                   [] OTHER -> Told
<1> DEFINE r == [type |-> type, pid |-> p]
<1>1. reports \in Seq(Report) /\ r \in Report
  BY DEF ShepherdTypeOK, Report
<1>2. reports' = Append(reports, r)
  BY DEF Submit
<1>3. FoldLeft(Applied, instances, Append(reports, r)) = Applied(FoldLeft(Applied, instances, reports), r)
  BY <1>1, FoldAppend
<1>4. Told' = Applied(Told, r)
  BY <1>2, <1>3 DEF Told
<1> QED BY <1>4 DEF Applied

LEMMA SameTold ==
  ASSUME InstancesInv, UNCHANGED <<instances, reports>>,
         Tracked' = Tracked, unlisted' = unlisted
  PROVE  InstancesInv'
BY DEF InstancesInv, InstancesFollowTable, ListedOrNot, Told

LEMMA probe_tty_writeTold ==
  ASSUME ShepherdTypeOK, InstancesInv, NEW p \in Pids, NEW claude, NEW text,
         probe_tty_write(p, claude, text)
  PROVE  InstancesInv'
<1>1. CASE UNCHANGED shepherdVars
  BY <1>1, SameTold DEF shepherdVars, sessionVars, Tracked
<1>2. CASE ~UNCHANGED shepherdVars
  <2>1. PICK request :
          /\ Submit(IF request THEN "permission" ELSE "tty", p)
          /\ pid_states' = IF request /\ p \in Tracked
                           THEN [pid_states EXCEPT ![p] = waiting_permission] ELSE pid_states
          /\ UNCHANGED <<instances, unlisted>>
    BY <1>2, Zenon DEF probe_tty_write
  <2>2. Submit("permission", p) \/ Submit("tty", p)
    BY <2>1
  <2>3. Told' = Told
    BY <2>1, <2>2, SubmitTold DEF Types
  <2>4. Tracked' = Tracked
    BY <2>1 DEF Tracked, ShepherdTypeOK, waiting_permission, absent
  <2> QED BY <2>1, <2>3, <2>4 DEF InstancesInv, InstancesFollowTable, ListedOrNot, Told
<1> QED BY <1>1, <1>2

LEMMA trace_execTold ==
  ASSUME ShepherdTypeOK, InstancesInv, NEW p \in Pids, NEW claude, trace_exec(p, claude)
  PROVE  InstancesInv'
<1>1. CASE UNCHANGED shepherdVars
  BY <1>1, SameTold DEF shepherdVars, sessionVars, Tracked
<1>2. CASE ~UNCHANGED shepherdVars
  <2>1. /\ pid_states' = NewEntry(p) /\ Submit("exec", p) /\ UNCHANGED instances
        /\ unlisted' = IF Fits(p) THEN unlisted \ {p} ELSE unlisted \cup {p}
    BY <1>2 DEF trace_exec
  <2>2. Told' = Told \cup {p}
    BY <2>1, SubmitTold DEF Types
  <2>3. CASE Fits(p)
    <3>1. Tracked' = Tracked \cup {p}
      BY <2>1, <2>3 DEF NewEntry, Tracked, ShepherdTypeOK, running, absent
    <3> QED BY <2>1, <2>2, <2>3, <3>1 DEF InstancesInv, InstancesFollowTable, ListedOrNot, Told
  <2>4. CASE ~Fits(p)
    <3>1. Tracked' = Tracked /\ p \notin Tracked
      BY <2>1, <2>4 DEF NewEntry, Tracked, ShepherdTypeOK, Fits
    <3> QED BY <2>1, <2>2, <2>4, <3>1 DEF InstancesInv, InstancesFollowTable, ListedOrNot, Told
  <2> QED BY <2>3, <2>4
<1> QED BY <1>1, <1>2

LEMMA trace_exitTold ==
  ASSUME ShepherdTypeOK, InstancesInv, NEW p \in Pids, NEW whole, trace_exit(p, whole)
  PROVE  InstancesInv'
<1>1. CASE Forgets(p)
  <2>1. /\ pid_states' = [pid_states EXCEPT ![p] = absent] /\ Submit("exit", p)
        /\ UNCHANGED <<instances, unlisted>> /\ p \in Tracked
    BY <1>1 DEF trace_exit, Forgets
  <2>2. Told' = Told \ {p}
    BY <2>1, SubmitTold DEF Types
  <2>3. Tracked' = Tracked \ {p}
    BY <2>1 DEF Tracked, ShepherdTypeOK, absent
  <2> QED BY <2>1, <2>2, <2>3 DEF InstancesInv, InstancesFollowTable, ListedOrNot, Told
<1>2. CASE ~Forgets(p)
  <2>1. UNCHANGED <<instances, reports, pid_states, unlisted>>
    BY <1>2 DEF trace_exit
  <2> QED BY <2>1, SameTold DEF Tracked
<1> QED BY <1>1, <1>2

LEMMA handleEventTold ==
  ASSUME ShepherdTypeOK, InstancesInv, handleEvent
  PROVE  InstancesInv'
<1>1. reports \in Seq(Report) /\ reports # <<>>
  BY DEF ShepherdTypeOK, Report, handleEvent
<1>2. instances' = Applied(instances, Head(reports)) /\ reports' = Tail(reports)
  BY DEF handleEvent
<1>3. FoldLeft(Applied, Applied(instances, Head(reports)), Tail(reports))
        = FoldLeft(Applied, instances, reports)
  BY <1>1, FoldHead
<1>4. Told' = Told
  BY <1>2, <1>3 DEF Told
<1> QED BY <1>4 DEF handleEvent, sessionVars, InstancesInv, InstancesFollowTable, ListedOrNot,
                    Tracked, Told

LEMMA InstancesStep ==
  ASSUME TypeOK, InstancesInv, [Next]_vars
  PROVE  InstancesInv'
<1>1. ShepherdTypeOK
  BY DEF TypeOK
<1> HIDE DEF TypeOK
<1>2. ASSUME UNCHANGED <<instances, reports, pid_states, unlisted>> PROVE InstancesInv'
  BY <1>2, SameTold DEF Tracked
<1>3. ASSUME NEW p \in Pids, Exec(p) PROVE InstancesInv'
  BY <1>1, <1>2, <1>3, trace_execTold DEF Exec, shepherdVars, sessionVars
<1>4. ASSUME NEW p \in Pids, NEW text, Write(p, text) PROVE InstancesInv'
  BY <1>1, <1>4, probe_tty_writeTold DEF Write
<1>5. ASSUME NEW p \in Pids, ThreadExit(p) PROVE InstancesInv'
  BY <1>1, <1>5, trace_exitTold DEF ThreadExit
<1>6. ASSUME NEW p \in Pids, Exit(p) PROVE InstancesInv'
  BY <1>1, <1>6, trace_exitTold DEF Exit
<1>7. ASSUME Deliver PROVE InstancesInv'
  BY <1>1, <1>7, handleEventTold DEF Deliver
<1> QED
  BY <1>2, <1>3, <1>4, <1>5, <1>6, <1>7
  DEF Next, Fork, Execve, FileCall, Judge, Resume, SwitchShepherd, Switch,
      StopEnforcing, vars, shepherdVars, sessionVars

\* For any number of processes and any sizes of the table and the ring, the
\* daemon's instances, once it has read what is in the ring, are the sessions
\* of the table and those that found it full (trace_exec, trace_exit,
\* handleEvent).
THEOREM InstancesStayInStep == Spec => []InstancesFollowTable
<1>1. Init => InstancesInv
  <2> SUFFICES ASSUME Init PROVE InstancesInv
    OBVIOUS
  <2>1. reports = <<>> /\ instances = {} /\ Tracked = {} /\ unlisted = {}
    BY DEF Init, ShepherdInit, Tracked
  <2>2. FoldLeft(Applied, {}, <<>>) = {}
    <3>1. PICK n, s : n = 0 /\ s = <<>>
      OBVIOUS
    <3>2. n \in Nat /\ DOMAIN s = 1..n
      BY <3>1
    <3>3. PICK g : Folding(g, {}, s, n) /\ FoldLeft(Applied, {}, s) = g[n]
      BY <3>2, FoldTerms
    <3> QED BY <3>1, <3>3 DEF Folding
  <2> QED BY <2>1, <2>2 DEF InstancesInv, InstancesFollowTable, ListedOrNot
<1>2. TypeOK /\ InstancesInv /\ [Next]_vars => InstancesInv'
  BY InstancesStep
<1>3. InstancesInv => InstancesFollowTable
  BY DEF InstancesInv
<1> QED BY <1>1, <1>2, <1>3, TypeCorrect, PTL DEF Spec

-----------------------------------------------------------------------------
(* The verdicts of the Observer.  The invariant is inductive with one more *)
(* part: a free pid owes nothing for the life that ended.                  *)

FreePidOwesNothing == \A p \in Pids \ Live : made[p] = {}

VerdictInv == WorstVerdictReached /\ FreePidOwesNothing

\* What is owed for a call of one kind of pattern: p is not blind, and the
\* signal is given, in "signals", or the record waits.
Reached(p, kind, signals) ==
    p \in Live \ unseen /\ kind \in made[p] => pending[p] \in signals \/ Pending(p, kind)

LEMMA WorstVerdictIsReached ==
  ASSUME TypeOK
  PROVE  WorstVerdictReached <=>
            \A p \in Pids : /\ Reached(p, "dangerous", {"SIGKILL"})
                            /\ Reached(p, "banned", {"SIGSTOP", "SIGKILL"})
BY DEF WorstVerdictReached, Reached, TypeOK, Live

\* A record that joins the ring takes none away.
LEMMA PendingAfterAppend ==
  ASSUME ObserverTypeOK, NEW r \in Observation, observed' = Append(observed, r),
         NEW p \in Pids, NEW kind
  PROVE  /\ Pending(p, kind) => Pending(p, kind)'
         /\ r.pid = p /\ kind \in r.command => Pending(p, kind)'
<1>1. observed \in Seq(Observation)
  BY DEF ObserverTypeOK, Observation
<1>2. /\ DOMAIN observed = 1 .. Len(observed) /\ Len(observed) \in Nat
      /\ DOMAIN observed' = 1 .. Len(observed) + 1
      /\ \A i \in DOMAIN observed : observed'[i] = observed[i]
      /\ observed'[Len(observed) + 1] = r
  BY <1>1
<1>3. DOMAIN observed \subseteq DOMAIN observed' /\ Len(observed) + 1 \in DOMAIN observed'
  BY <1>2
<1>4. Pending(p, kind) => Pending(p, kind)'
  BY <1>2, <1>3 DEF Pending
<1>5. r.pid = p /\ kind \in r.command => Pending(p, kind)'
  BY <1>2, <1>3 DEF Pending
<1>. QED  BY <1>4, <1>5

\* Only the record that the daemon takes stops waiting.
LEMMA PendingAfterTail ==
  ASSUME ObserverTypeOK, observed # <<>>, observed' = Tail(observed),
         NEW p \in Pids, NEW kind, Pending(p, kind)
  PROVE  \/ Pending(p, kind)'
         \/ Head(observed).pid = p /\ kind \in Head(observed).command
<1>1. observed \in Seq(Observation)
  BY DEF ObserverTypeOK, Observation
<1>2. PICK i \in DOMAIN observed : observed[i].pid = p /\ kind \in observed[i].command
  BY DEF Pending
<1>3. CASE i = 1
  BY <1>1, <1>2, <1>3
<1>4. CASE i # 1
  <2>1. i - 1 \in DOMAIN observed' /\ observed'[i - 1] = observed[i]
    BY <1>1, <1>2, <1>4
  <2>. QED  BY <1>2, <2>1 DEF Pending
<1>. QED  BY <1>3, <1>4

LEMMA kprobeReached ==
  ASSUME ObserverTypeOK, NEW p \in Pids, NEW command \in Commands, NEW read \in Commands,
         read \in {command, {}}, kprobe(p, command, read), UNCHANGED <<comm, pending>>,
         NEW q \in Pids, NEW kind \in Kinds, NEW signals, Reached(q, kind, signals)
  PROVE  Reached(q, kind, signals)'
<1>1. CASE UNCHANGED observerVars
  BY <1>1 DEF observerVars, Reached, Live, Pending
<1>. SUFFICES ASSUME ~UNCHANGED observerVars, q \in Live', q \notin unseen', kind \in made'[q],
                     pending'[q] \notin signals
              PROVE  Pending(q, kind)'
  BY <1>1 DEF Reached
<1>2. /\ made' = [made EXCEPT ![p] = @ \cup command]
      /\ unseen \subseteq unseen' /\ q \in Live /\ q \notin unseen
  BY DEF kprobe, Live
<1>3. made \in [Pids -> SUBSET Kinds]
  BY DEF ObserverTypeOK
<1>4. [pid |-> p, command |-> read] \in Observation
  BY DEF Observation
<1>5. CASE Len(observed) < ObserverRing
  <2>1. PICK r \in Observation :
          observed' = Append(observed, r) /\ r.pid = p /\ r.command = read
    BY <1>4, <1>5 DEF kprobe
  <2>2. CASE kind \in made[q]
    BY <1>2, <2>1, <2>2, PendingAfterAppend DEF Reached
  <2>3. CASE kind \notin made[q]
    <3>1. q = p /\ kind \in command
      BY <1>2, <1>3, <2>3
    <3>2. read = command
      BY <3>1, <1>5 DEF kprobe
    <3>. QED  BY <2>1, <3>1, <3>2, PendingAfterAppend
  <2>. QED  BY <2>2, <2>3
<1>6. CASE ~(Len(observed) < ObserverRing)
  <2>1. q # p /\ UNCHANGED observed
    BY <1>6 DEF kprobe
  <2>. QED  BY <1>2, <1>3, <2>1 DEF Reached, Pending
<1>. QED  BY <1>5, <1>6

\* The daemon's signal is the worst that the record it takes calls for, and
\* takes none back.
LEMMA JudgeReached ==
  ASSUME TypeOK, Judge, NEW q \in Pids
  PROVE  /\ Reached(q, "dangerous", {"SIGKILL"}) => Reached(q, "dangerous", {"SIGKILL"})'
         /\ Reached(q, "banned", {"SIGSTOP", "SIGKILL"})
                => Reached(q, "banned", {"SIGSTOP", "SIGKILL"})'
<1>1. Head(observed) \in Observation /\ ObserverTypeOK
  BY handle_eventTypes DEF Judge, TypeOK
<1>2. PICK p \in Pids : p = Head(observed).pid
  BY <1>1 DEF Observation
<1>3. /\ observed # <<>> /\ observed' = Tail(observed) /\ UNCHANGED <<comm, made, unseen>>
      /\ execute_verdict(p, verdict)
  BY <1>2 DEF Judge, handle_event
<1>4. pending \in [Pids -> {"none", "SIGSTOP", "SIGKILL"}]
  BY DEF TypeOK
<1>5. /\ pending[q] = "SIGKILL" => pending'[q] = "SIGKILL"
      /\ pending[q] = "SIGSTOP" => pending'[q] \in {"SIGSTOP", "SIGKILL"}
  BY <1>3, <1>4 DEF execute_verdict, verdict, judge_command
<1>6. ASSUME q = p, q \in Live
      PROVE  /\ "dangerous" \in Head(observed).command => pending'[q] = "SIGKILL"
             /\ "banned" \in Head(observed).command => pending'[q] \in {"SIGSTOP", "SIGKILL"}
  BY <1>3, <1>4, <1>6 DEF execute_verdict, verdict, judge_command
<1>7. Live' = Live
  BY <1>3 DEF Live
<1>8. \A kind \in Kinds : Pending(q, kind) =>
        Pending(q, kind)' \/ (q = p /\ kind \in Head(observed).command)
  BY <1>1, <1>2, <1>3, PendingAfterTail
<1>9. Reached(q, "dangerous", {"SIGKILL"}) => Reached(q, "dangerous", {"SIGKILL"})'
  BY <1>3, <1>5, <1>6, <1>7, <1>8 DEF Reached, Kinds
<1>10. Reached(q, "banned", {"SIGSTOP", "SIGKILL"})
          => Reached(q, "banned", {"SIGSTOP", "SIGKILL"})'
  BY <1>3, <1>5, <1>6, <1>7, <1>8 DEF Reached, Kinds
<1>. QED  BY <1>9, <1>10

\* A process that goes on after SIGSTOP still owes the worse verdict, and one
\* that starts owes nothing.
LEMMA ProcessReached ==
  ASSUME TypeOK, VerdictInv, NEW p \in Pids,
         (\E child \in Pids : Fork(p, child)) \/ Exec(p) \/ Exit(p) \/ Resume(p)
  PROVE  WorstVerdictReached'
<1>1. ObserverTypeOK /\ made \in [Pids -> SUBSET Kinds]
      /\ comm \in [Pids -> Programs \cup {<<>>}]
      /\ pending \in [Pids -> {"none", "SIGSTOP", "SIGKILL"}]
  BY DEF TypeOK, ObserverTypeOK
<1>2. \A q \in Pids \ Live : made[q] = {}
  BY DEF VerdictInv, FreePidOwesNothing
<1>3. WorstVerdictReached
  BY DEF VerdictInv
<1>. SUFFICES ASSUME NEW q \in Live' \ unseen'
              PROVE  /\ "dangerous" \in made'[q] =>
                            pending'[q] = "SIGKILL" \/ Pending(q, "dangerous")'
                     /\ "banned" \in made'[q] =>
                            pending'[q] # "none" \/ Pending(q, "banned")'
  BY DEF WorstVerdictReached
<1>. HIDE DEF TypeOK, VerdictInv
<1>4. q \in Pids /\ comm'[q] # <<>>
  BY DEF Live
<1>5. observed' = observed
  BY DEF Fork, Exec, Exit, Resume, Settle, observerVars
<1>6. ASSUME made'[q] = made[q], q \in Live => q \notin unseen, pending'[q] = pending[q]
      PROVE  /\ "dangerous" \in made'[q] =>
                    pending'[q] = "SIGKILL" \/ Pending(q, "dangerous")'
             /\ "banned" \in made'[q] => pending'[q] # "none" \/ Pending(q, "banned")'
  <2>1. CASE q \in Live
    BY <1>3, <1>5, <1>6, <2>1 DEF WorstVerdictReached, Pending
  <2>2. CASE q \notin Live
    BY <1>2, <1>4, <1>6, <2>2
  <2>. QED  BY <2>1, <2>2
<1>7. CASE (\E child \in Pids : Fork(p, child)) \/ Exec(p)
  BY <1>6, <1>7 DEF Fork, Exec, observerVars
<1>8. CASE Exit(p)
  <2>1. q # p
    BY <1>1, <1>4, <1>8 DEF Exit
  <2>. QED  BY <1>1, <1>4, <1>6, <1>8, <2>1 DEF Exit, Settle
<1>9. CASE Resume(p)
  <2>1. UNCHANGED <<comm, unseen>> /\ q \in Live /\ q \notin unseen
    <3>1. {"banned"} # Kinds
      BY DEF Kinds
    <3>2. UNCHANGED <<comm, unseen>>
      BY <1>9, <3>1 DEF Resume, Settle
    <3>. QED  BY <3>2 DEF Live
  <2>2. CASE q = p
    BY <1>1, <1>3, <1>4, <1>5, <1>9, <2>1, <2>2
    DEF Resume, Settle, WorstVerdictReached, Pending
  <2>3. CASE q # p
    BY <1>1, <1>4, <1>6, <1>9, <2>1, <2>3 DEF Resume, Settle
  <2>. QED  BY <2>2, <2>3
<1>. QED  BY <1>7, <1>8, <1>9

LEMMA FreePidStep ==
  ASSUME TypeOK, FreePidOwesNothing, [Next]_vars
  PROVE  FreePidOwesNothing'
<1>1. made \in [Pids -> SUBSET Kinds] /\ comm \in [Pids -> Programs \cup {<<>>}]
  BY DEF TypeOK, ObserverTypeOK
<1>. SUFFICES ASSUME NEW q \in Pids \ Live' PROVE made'[q] = {}
  BY DEF FreePidOwesNothing
<1>. HIDE DEF TypeOK
<1>2. q \in Pids /\ comm'[q] = <<>>
  BY DEF Live
<1>3. comm[q] = <<>> => made[q] = {}
  BY <1>2 DEF FreePidOwesNothing, Live
<1>4. ASSUME NEW p \in Pids, NEW command, NEW read, Running(p), UNCHANGED comm,
             kprobe(p, command, read)
      PROVE  made'[q] = {}
  <2>1. q # p
    BY <1>2, <1>4 DEF Running, Live
  <2>. QED  BY <1>1, <1>2, <1>3, <1>4, <2>1 DEF kprobe, observerVars
<1>5. ASSUME NEW p \in Pids, NEW child \in Pids, Fork(p, child) PROVE made'[q] = {}
  <2>1. comm[q] = <<>>
    BY <1>1, <1>2, <1>5 DEF Fork, Running, Live
  <2>. QED  BY <1>3, <1>5, <2>1 DEF Fork, observerVars
<1>6. ASSUME NEW p \in Pids, Exec(p) PROVE made'[q] = {}
  <2>1. comm[q] = <<>>
    BY <1>1, <1>2, <1>6 DEF Exec
  <2>. QED  BY <1>3, <1>6, <2>1 DEF Exec, observerVars
<1>7. ASSUME NEW p \in Pids, Exit(p) PROVE made'[q] = {}
  <2>1. CASE q = p
    BY <1>1, <1>7, <2>1 DEF Exit, Settle
  <2>2. CASE q # p
    BY <1>1, <1>2, <1>3, <1>7, <2>2 DEF Exit, Settle
  <2>. QED  BY <2>1, <2>2
<1>8. ASSUME NEW p \in Pids, Resume(p) PROVE made'[q] = {}
  BY <1>1, <1>2, <1>3, <1>8 DEF Resume, Settle
<1>9. ASSUME UNCHANGED <<comm, made>> PROVE made'[q] = {}
  BY <1>2, <1>3, <1>9
<1>10. ASSUME NEW p \in Pids, NEW command \in Commands, NEW read \in Commands,
              FileCall(p, command, read) \/ \E name \in Programs : Execve(p, name, command, read)
       PROVE  made'[q] = {}
  BY <1>4, <1>10 DEF FileCall, Execve
<1>. QED
  BY <1>5, <1>6, <1>7, <1>8, <1>9, <1>10
  DEF Next, Write, ThreadExit, Judge, handle_event, Deliver, SwitchShepherd, StopEnforcing, vars,
      processVars, observerVars

LEMMA VerdictStep ==
  ASSUME TypeOK, VerdictInv, [Next]_vars
  PROVE  VerdictInv'
<1>1. FreePidOwesNothing' /\ TypeOK'
  BY FreePidStep, NextTypes DEF VerdictInv
<1>2. WorstVerdictReached /\ ObserverTypeOK
  BY DEF VerdictInv, TypeOK
<1>. HIDE DEF TypeOK, VerdictInv
<1>3. \A q \in Pids : /\ Reached(q, "dangerous", {"SIGKILL"})
                      /\ Reached(q, "banned", {"SIGSTOP", "SIGKILL"})
  BY <1>2, WorstVerdictIsReached
<1>4. ASSUME \A q \in Pids : /\ Reached(q, "dangerous", {"SIGKILL"})'
                              /\ Reached(q, "banned", {"SIGSTOP", "SIGKILL"})'
      PROVE  WorstVerdictReached'
  <2>1. \A q \in Live' : q \in Pids
    BY DEF Live
  <2>. QED  BY <1>4, <2>1 DEF WorstVerdictReached, Reached
<1>5. ASSUME NEW p \in Pids, NEW command \in Commands, NEW read \in Commands,
             read \in {command, {}}, kprobe(p, command, read), UNCHANGED <<comm, pending>>
      PROVE  WorstVerdictReached'
  BY <1>2, <1>3, <1>4, <1>5, kprobeReached DEF Kinds
<1>6. ASSUME Judge PROVE WorstVerdictReached'
  <2>1. \A q \in Pids : /\ Reached(q, "dangerous", {"SIGKILL"})'
                        /\ Reached(q, "banned", {"SIGSTOP", "SIGKILL"})'
    <3>. TAKE q \in Pids
    <3>. QED  BY <1>3, <1>6, JudgeReached
  <2>. QED  BY <1>4, <2>1
<1>7. ASSUME UNCHANGED <<comm, pending, made, unseen, observed>> PROVE WorstVerdictReached'
  BY <1>2, <1>7 DEF WorstVerdictReached, Live, Pending
<1>8. ASSUME NEW p \in Pids,
             (\E child \in Pids : Fork(p, child)) \/ Exec(p) \/ Exit(p) \/ Resume(p)
      PROVE  WorstVerdictReached'
  BY <1>8, ProcessReached
<1>9. ASSUME NEW p \in Pids, NEW command \in Commands, NEW read \in Commands,
             read \in {command, {}},
             FileCall(p, command, read) \/ \E name \in Programs : Execve(p, name, command, read)
      PROVE  WorstVerdictReached'
  BY <1>5, <1>9 DEF FileCall, Execve
<1>10. WorstVerdictReached'
  <2>1. CASE \E p \in Pids, command \in Commands, read \in Commands :
                /\ read \in {command, {}}
                /\ \/ FileCall(p, command, read)
                   \/ \E name \in Programs : Execve(p, name, command, read)
    BY <1>9, <2>1
  <2>2. CASE \E p \in Pids :
                (\E child \in Pids : Fork(p, child)) \/ Exec(p) \/ Exit(p) \/ Resume(p)
    BY <1>8, <2>2
  <2>3. CASE \/ \E p \in Pids :
                    ThreadExit(p) \/ \E text \in {"plain", "request", "unread"} : Write(p, text)
             \/ Deliver \/ SwitchShepherd \/ StopEnforcing \/ UNCHANGED vars
    BY <1>7, <2>3 DEF Write, ThreadExit, Deliver, SwitchShepherd, StopEnforcing, vars,
                      processVars, observerVars
  <2>. QED  BY <1>6, <2>1, <2>2, <2>3, Zenon DEF Next
<1>. QED  BY <1>1, <1>10 DEF VerdictInv

\* A registered agent owes the worst verdict on what it did in this life only
\* while its record waits, or if one could not be made, whatever the order of
\* the calls, the verdicts and the operator's SIGCONT (handle_event,
\* execute_verdict).
THEOREM WorstVerdictIsOwed == Spec => []WorstVerdictReached
<1>1. Init => VerdictInv
  BY DEF Init, ObserverInit, VerdictInv, WorstVerdictReached, FreePidOwesNothing, Live
<1>2. TypeOK /\ VerdictInv /\ [Next]_vars => VerdictInv'
  BY VerdictStep
<1>3. VerdictInv => WorstVerdictReached
  BY DEF VerdictInv
<1>. QED  BY <1>1, <1>2, <1>3, TypeCorrect, PTL DEF Spec

-----------------------------------------------------------------------------
(* The hooks at the entry of every system call.                            *)

Place == [thread : Threads, busy : BOOLEAN]

LEMMA InitOracleTypes == OracleInit => OracleTypeOK
<1>. SUFFICES ASSUME OracleInit PROVE OracleTypeOK
  OBVIOUS
<1>1. (CHOOSE n \in Numbers : TRUE) \in Numbers
  BY SyscallOracleAssumption
<1>2. number \in [Threads -> Numbers]
  BY <1>1 DEF OracleInit
<1>3. grimoire_events \in Seq(Place) /\ Len(grimoire_events) = 0
  BY DEF OracleInit
<1>4. RingSize \in Nat
  BY SyscallOracleAssumption
<1>. QED  BY <1>2, <1>3, <1>4 DEF OracleInit, OracleTypeOK, Place, Steps

LEMMA KeyType ==
  ASSUME OracleTypeOK, NEW t \in Threads
  PROVE  Key(t) \in Keys /\ \A n \in Numbers : <<PidOf[t], n>> \in Keys
BY DEF OracleTypeOK, Key, Keys

\* Submission changes no place and no thread of a record.
LEMMA SubmittedPlaces ==
  ASSUME OracleTypeOK, NEW t \in Threads
  PROVE  /\ Submitted(t) \in Seq(Place) /\ Len(Submitted(t)) = Len(grimoire_events)
         /\ DOMAIN Submitted(t) = DOMAIN grimoire_events
         /\ \A i \in DOMAIN grimoire_events :
              /\ Submitted(t)[i].thread = grimoire_events[i].thread
              /\ Submitted(t)[i].busy
                   <=> grimoire_events[i].busy /\ grimoire_events[i].thread # t
<1>. DEFINE r == grimoire_events
<1>1. r \in Seq(Place) /\ DOMAIN r = 1..Len(r) /\ Len(r) \in Nat
  BY DEF OracleTypeOK, Place
<1>2. \A i \in DOMAIN r : r[i] \in Place
  BY <1>1
<1>3. \A i \in DOMAIN r :
        /\ Submitted(t)[i] \in Place
        /\ Submitted(t)[i].thread = r[i].thread
        /\ Submitted(t)[i].busy <=> r[i].busy /\ r[i].thread # t
  BY <1>2 DEF Submitted, Place
<1>4. DOMAIN Submitted(t) = 1..Len(r)
  BY <1>1 DEF Submitted
<1>5. Submitted(t) \in [1..Len(r) -> Place]
  BY <1>1, <1>3, <1>4 DEF Submitted
<1>6. Submitted(t) \in Seq(Place) /\ Len(Submitted(t)) = Len(r)
  BY <1>1, <1>5
<1>. QED  BY <1>1, <1>3, <1>4, <1>6

\* What the step of a thread may do to the counters keeps their types.
LEMMA CounterTypes ==
  ASSUME OracleTypeOK, NEW t \in Threads, NEW n \in Numbers,
         trace_sys_enter(t, n) \/ trace_syscall_enter(t, n) \/ Hook(t)
  PROVE  /\ stats' \in [Stats -> Nat]
         /\ syscall_counts' \in [Keys -> Nat]
         /\ ended' \in [Keys -> Nat] /\ raced' \subseteq Keys /\ stale' \subseteq Threads
         /\ pc' \in [Threads -> Steps] /\ number' \in [Threads -> Numbers]
<1>. USE DEF OracleTypeOK, countVars, ringVars, GoTo, Steps
<1>1. Key(t) \in Keys /\ <<PidOf[t], n>> \in Keys
  BY KeyType
<1>2. CASE trace_sys_enter(t, n)
  <2>1. stats' \in [Stats -> Nat]
    BY <1>2 DEF trace_sys_enter, increment_stat, Stats
  <2>2. UNCHANGED <<syscall_counts, ended, raced, stale>>
    BY <1>2 DEF trace_sys_enter
  <2>3. pc' \in [Threads -> Steps] /\ number' \in [Threads -> Numbers]
    BY <1>2 DEF trace_sys_enter
  <2>. QED  BY <2>1, <2>2, <2>3
<1>3. CASE trace_syscall_enter(t, n)
  <2>. DEFINE k == <<PidOf[t], n>>
  <2>1. stats' \in [Stats -> Nat] /\ number' \in [Threads -> Numbers]
    BY <1>3 DEF trace_syscall_enter, increment_stat, Stats
  <2>2. UNCHANGED <<syscall_counts, ended, stale>>
    BY <1>3 DEF trace_syscall_enter
  <2>3. \/ pc' = [pc EXCEPT ![t] = "found"] /\ raced' = raced
        \/ pc' = [pc EXCEPT ![t] = "missed"] /\ raced' \in {raced, raced \cup {k}}
    BY <1>3, Zenon DEF trace_syscall_enter
  <2>4. k \in Keys
    BY <1>1
  <2>. HIDE DEF k
  <2>5. raced' \subseteq Keys
    BY <2>3, <2>4
  <2>6. pc' \in [Threads -> Steps]
    BY <2>3
  <2>. QED  BY <2>1, <2>2, <2>5, <2>6
<1>4. CASE InsertCount(t)
  <2>1. FirstCount(Key(t)) \in Nat
    BY DEF FirstCount
  <2>2. /\ syscall_counts' = [syscall_counts EXCEPT ![Key(t)] = FirstCount(Key(t))]
        /\ ended' = [ended EXCEPT ![Key(t)] = @ + 1]
        /\ pc' = [pc EXCEPT ![t] = "counted"] /\ UNCHANGED <<number, stats, raced>>
        /\ stale' \in {stale, stale \cup Holders(Key(t))}
    BY <1>4 DEF InsertCount, Called
  <2>3. Holders(Key(t)) \subseteq Threads
    BY DEF Holders
  <2>. QED  BY <1>1, <2>1, <2>2, <2>3
<1>7. CASE IncrementCount(t)
  <2>1. /\ ended' = [ended EXCEPT ![Key(t)] = @ + 1]
        /\ pc' = [pc EXCEPT ![t] = "counted"] /\ UNCHANGED <<number, stats, raced>>
        /\ stale' = stale \ {t}
    BY <1>7 DEF IncrementCount, Called
  <2>2. \/ UNCHANGED syscall_counts
        \/ \E k \in Keys : syscall_counts' = [syscall_counts EXCEPT ![k] = @ + 1]
    <3>1. CASE UNCHANGED syscall_counts
      BY <3>1
    <3>2. CASE CountAt(Key(t))
      BY <1>1, <3>2 DEF CountAt
    <3>3. ASSUME NEW k \in raced, CountAt(k)
          PROVE  \E j \in Keys : syscall_counts' = [syscall_counts EXCEPT ![j] = @ + 1]
      BY <3>3 DEF CountAt
    <3>. QED  BY <1>7, <3>1, <3>2, <3>3 DEF IncrementCount
  <2>3. syscall_counts' \in [Keys -> Nat]
    <3>1. ASSUME NEW k \in Keys, syscall_counts' = [syscall_counts EXCEPT ![k] = @ + 1]
          PROVE  syscall_counts' \in [Keys -> Nat]
      BY <3>1
    <3>. QED  BY <2>2, <3>1
  <2>4. ended' \in [Keys -> Nat]
    BY <1>1, <2>1
  <2>5. pc' \in [Threads -> Steps] /\ stale' \subseteq Threads
    BY <2>1
  <2>. QED  BY <2>1, <2>3, <2>4, <2>5
<1>5. CASE AfterCount(t) \/ Reserve(t) \/ SubmitEvent(t)
  <2>1. UNCHANGED <<number, stats, syscall_counts, ended, raced, stale>>
    BY <1>5 DEF AfterCount, Reserve, SubmitEvent
  <2>2. pc' \in [Threads -> Steps]
    BY <1>5 DEF AfterCount, Reserve, SubmitEvent
  <2>. QED  BY <2>1, <2>2
<1>6. CASE Drop(t) \/ Emitted(t)
  <2>1. UNCHANGED <<number, syscall_counts, ended, raced, stale>>
    BY <1>6 DEF Drop, Emitted
  <2>2. pc' \in [Threads -> Steps]
    BY <1>6 DEF Drop, Emitted
  <2>3. stats' \in [Stats -> Nat]
    BY <1>6 DEF Drop, Emitted, increment_stat, DropStat, Stats
  <2>. QED  BY <2>1, <2>2, <2>3
<1>. QED  BY <1>2, <1>3, <1>4, <1>5, <1>6, <1>7 DEF Hook

LEMMA RingTypes ==
  ASSUME OracleTypeOK, OracleNext
  PROVE  /\ grimoire_events' \in Seq(Place) /\ Len(grimoire_events') =< RingSize
         /\ received' \in Nat /\ loaded' = loaded
         /\ config' \in [enabled : BOOLEAN, filter : BOOLEAN]
<1>. USE DEF OracleTypeOK, ringVars, Place
<1>0. RingSize \in Nat /\ Len(grimoire_events) \in Nat
  BY SyscallOracleAssumption
<1>1. ASSUME NEW t \in Threads, Reserve(t)
      PROVE  grimoire_events' \in Seq(Place) /\ Len(grimoire_events') =< RingSize
  <2>. DEFINE r == [thread |-> t, busy |-> TRUE]
  <2>1. r \in Place
    OBVIOUS
  <2>2. grimoire_events' = Append(grimoire_events, r) /\ Len(grimoire_events) < RingSize
    BY <1>1 DEF Reserve
  <2>. HIDE DEF r
  <2>. QED  BY <1>0, <2>1, <2>2
<1>2. ASSUME NEW t \in Threads, SubmitEvent(t)
      PROVE  grimoire_events' \in Seq(Place) /\ Len(grimoire_events') =< RingSize
  BY <1>2, SubmittedPlaces DEF SubmitEvent
<1>3. CASE Receive
  <2>1. grimoire_events' \in Seq(Place) /\ Len(grimoire_events') =< RingSize
    BY <1>0, <1>3 DEF Receive
  <2>. QED  BY <1>3, <2>1 DEF Receive
<1>4. CASE Configure
  BY <1>4 DEF Configure
<1>5. ASSUME NEW t \in Threads, NEW n \in Numbers,
             trace_sys_enter(t, n) \/ trace_syscall_enter(t, n) \/ Hook(t)
      PROVE  /\ grimoire_events' \in Seq(Place) /\ Len(grimoire_events') =< RingSize
             /\ UNCHANGED <<received, loaded, config>>
  <2>1. UNCHANGED <<received, loaded, config>>
    BY <1>5 DEF trace_sys_enter, trace_syscall_enter, Hook, IncrementCount, InsertCount,
                AfterCount, Reserve, Drop, SubmitEvent, Emitted
  <2>2. Reserve(t) \/ SubmitEvent(t) \/ UNCHANGED grimoire_events
    BY <1>5 DEF trace_sys_enter, trace_syscall_enter, Hook, IncrementCount, InsertCount,
                AfterCount, Drop, Emitted
  <2>. QED  BY <1>1, <1>2, <2>1, <2>2
<1>6. Numbers # {}
  BY SyscallOracleAssumption
<1>. QED  BY <1>3, <1>4, <1>5, <1>6 DEF OracleNext

LEMMA OracleTypes == OracleTypeOK /\ [OracleNext]_oracleVars => OracleTypeOK'
<1>. SUFFICES ASSUME OracleTypeOK, [OracleNext]_oracleVars PROVE OracleTypeOK'
  OBVIOUS
<1>1. CASE OracleNext
  <2>1. /\ grimoire_events' \in Seq(Place) /\ Len(grimoire_events') =< RingSize
        /\ received' \in Nat /\ loaded' = loaded
        /\ config' \in [enabled : BOOLEAN, filter : BOOLEAN]
    BY <1>1, RingTypes
  <2>2. /\ stats' \in [Stats -> Nat]
        /\ syscall_counts' \in [Keys -> Nat]
        /\ ended' \in [Keys -> Nat] /\ raced' \subseteq Keys /\ stale' \subseteq Threads
        /\ pc' \in [Threads -> Steps] /\ number' \in [Threads -> Numbers]
    <3>1. CASE Receive \/ Configure
      BY <3>1 DEF Receive, Configure, countVars, OracleTypeOK
    <3>2. CASE ~(Receive \/ Configure)
      <4>1. PICK n \in Numbers : TRUE
        BY SyscallOracleAssumption
      <4>2. PICK t \in Threads :
              \/ \E m \in Numbers : trace_sys_enter(t, m) \/ trace_syscall_enter(t, m)
              \/ Hook(t)
        BY <1>1, <3>2 DEF OracleNext
      <4>3. \E m \in Numbers : trace_sys_enter(t, m) \/ trace_syscall_enter(t, m) \/ Hook(t)
        BY <4>1, <4>2
      <4>. QED  BY <4>3, CounterTypes
    <3>. QED  BY <3>1, <3>2
  <2>. QED  BY <2>1, <2>2 DEF OracleTypeOK, Place
<1>2. CASE UNCHANGED oracleVars
  BY <1>2 DEF oracleVars, OracleTypeOK
<1>. QED  BY <1>1, <1>2

-----------------------------------------------------------------------------
(* The counters add up.  For the statistics: a thread that fills a record   *)
(* has exactly one busy record, so a submission makes one record ready.     *)
(* For the counts: a thread that found no entry relies on nobody else to    *)
(* have found the same, and nobody else to have made the entry since, or    *)
(* the key is one that raced; a thread that found an entry relies on nobody *)
(* to have replaced it, or the key is one that raced.                       *)

Inside == {t \in Threads : pc[t] \in {"admitted", "filling", "submitted"}}
Sent == {t \in Threads : pc[t] \in {"submitted"}}
ReadyRecords == {i \in DOMAIN grimoire_events : ~grimoire_events[i].busy}
BusyRecords(t) ==
    {i \in DOMAIN grimoire_events : grimoire_events[i].thread = t /\ grimoire_events[i].busy}

\* The steps of the program that runs.
StepsInv ==
    \A t \in Threads : IF loaded = "grimoire" THEN pc[t] \notin {"found", "missed", "counted"}
                                              ELSE pc[t] # "submitted"

\* A thread that fills a record has one that is busy, and no other thread has any.
BusyInv ==
    \A t \in Threads :
        /\ pc[t] = "filling" => \E i \in DOMAIN grimoire_events : BusyRecords(t) = {i}
        /\ pc[t] # "filling" => BusyRecords(t) = {}

\* What a thread that found no entry can rely on.
MissedInv ==
    \A t \in Threads : (pc[t] = "missed" /\ Key(t) \notin raced) =>
        /\ syscall_counts[Key(t)] = 0
        /\ \A u \in Threads \ {t} : pc[u] = "missed" => Key(u) # Key(t)

\* A thread that found an entry still has it, or the key is one that raced.
FoundInv ==
    \A t \in Threads :
        /\ t \in stale => pc[t] = "found" /\ Key(t) \in raced
        /\ (pc[t] = "found" /\ t \notin stale) => syscall_counts[Key(t)] > 0

OracleInv ==
    /\ OracleTypeOK /\ StepsInv /\ BusyInv /\ MissedInv /\ FoundInv
    /\ StatsAddUp /\ CountIsCalls

\* StatsAddUp in these terms.
LEMMA StatsMeaning ==
  StatsAddUp <=>
       (loaded = "grimoire" =>
          /\ stats["filtered"] = stats["emitted"] + stats["dropped"] + Cardinality(Inside)
          /\ received + Cardinality(ReadyRecords) = stats["emitted"] + Cardinality(Sent))
BY DEF StatsAddUp, InHook, Ready, Inside, Sent, ReadyRecords

LEMMA OracleSetsAreFinite ==
  ASSUME OracleTypeOK
  PROVE  /\ IsFiniteSet(Inside) /\ Cardinality(Inside) \in Nat
         /\ IsFiniteSet(Sent) /\ Cardinality(Sent) \in Nat
         /\ IsFiniteSet(ReadyRecords) /\ Cardinality(ReadyRecords) \in Nat
<1>1. IsFiniteSet(Threads)
  BY SyscallOracleAssumption
<1>2. Inside \in SUBSET Threads /\ Sent \in SUBSET Threads
  BY DEF Inside, Sent
<1>3. DOMAIN grimoire_events = 1..Len(grimoire_events) /\ Len(grimoire_events) \in Nat
  BY DEF OracleTypeOK
<1>4. IsFiniteSet(DOMAIN grimoire_events)
  BY <1>3, FS_Interval
<1>5. ReadyRecords \in SUBSET DOMAIN grimoire_events
  BY DEF ReadyRecords
<1>. QED  BY <1>1, <1>2, <1>4, <1>5, FS_Subset, FS_CardinalityType

LEMMA InitOracleInv == OracleInit => OracleInv
<1>. SUFFICES ASSUME OracleInit PROVE OracleInv
  OBVIOUS
<1>1. OracleTypeOK
  BY InitOracleTypes
<1>2. /\ \A t \in Threads : pc[t] = "idle"
      /\ grimoire_events = <<>> /\ received = 0 /\ stale = {} /\ raced = {}
      /\ stats["filtered"] = 0 /\ stats["emitted"] = 0 /\ stats["dropped"] = 0
      /\ \A k \in Keys : syscall_counts[k] = 0 /\ ended[k] = 0
  BY DEF OracleInit, Stats
<1>3. StepsInv /\ BusyInv /\ MissedInv /\ FoundInv
  BY <1>2 DEF StepsInv, BusyInv, BusyRecords, MissedInv, FoundInv
<1>4. Inside = {} /\ Sent = {} /\ ReadyRecords = {}
  BY <1>2 DEF Inside, Sent, ReadyRecords
<1>5. StatsAddUp
  BY <1>2, <1>4, FS_EmptySet, StatsMeaning
<1>6. CountIsCalls
  BY <1>2 DEF CountIsCalls
<1>. QED  BY <1>1, <1>3, <1>5, <1>6 DEF OracleInv

-----------------------------------------------------------------------------
(* The statistics.                                                         *)

\* A thread's step from one place in the hook to another.
LEMMA MoveCounts ==
  ASSUME OracleTypeOK, NEW t \in Threads, NEW step \in Steps, GoTo(t, step)
  PROVE  /\ pc'[t] = step /\ \A u \in Threads \ {t} : pc'[u] = pc[u]
         /\ Inside' = IF step \in {"admitted", "filling", "submitted"}
                      THEN Inside \cup {t} ELSE Inside \ {t}
         /\ Sent' = IF step = "submitted" THEN Sent \cup {t} ELSE Sent \ {t}
<1>1. pc'[t] = step /\ \A u \in Threads \ {t} : pc'[u] = pc[u]
  BY DEF GoTo, OracleTypeOK
<1>2. Inside' = IF step \in {"admitted", "filling", "submitted"}
                THEN Inside \cup {t} ELSE Inside \ {t}
  BY <1>1 DEF Inside
<1>3. Sent' = IF step = "submitted" THEN Sent \cup {t} ELSE Sent \ {t}
  BY <1>1 DEF Sent
<1>. QED  BY <1>1, <1>2, <1>3

\* One element more, or less, or the same.
LEMMA OneMore ==
  ASSUME NEW S, IsFiniteSet(S), NEW x
  PROVE  /\ x \notin S => Cardinality(S \cup {x}) = Cardinality(S) + 1
         /\ x \in S => Cardinality(S \ {x}) = Cardinality(S) - 1
         /\ x \in S => S \cup {x} = S
         /\ x \notin S => S \ {x} = S
BY FS_AddElement, FS_RemoveElement

\* A step that leaves the ring alone, and takes no thread into or out of a record.
LEMMA SameRing ==
  ASSUME BusyInv, UNCHANGED grimoire_events,
         \A t \in Threads : pc'[t] = "filling" <=> pc[t] = "filling"
  PROVE  BusyInv' /\ ReadyRecords' = ReadyRecords
BY DEF BusyInv, BusyRecords, ReadyRecords

LEMMA ReserveRing ==
  ASSUME OracleTypeOK, BusyInv, NEW t \in Threads, Reserve(t)
  PROVE  BusyInv' /\ ReadyRecords' = ReadyRecords
<1>. DEFINE r == grimoire_events
            last == Len(grimoire_events) + 1
<1>1. r \in Seq(Place) /\ DOMAIN r = 1..Len(r) /\ Len(r) \in Nat
  BY DEF OracleTypeOK, Place
<1>2. r' = Append(r, [thread |-> t, busy |-> TRUE])
  BY DEF Reserve
<1>3. /\ DOMAIN r' = DOMAIN r \cup {last} /\ last \notin DOMAIN r
      /\ \A i \in DOMAIN r : r'[i] = r[i]
      /\ r'[last] = [thread |-> t, busy |-> TRUE]
  BY <1>1, <1>2
<1>4. r'[last].thread = t /\ r'[last].busy
  BY <1>3
<1>5. pc[t] = "admitted" /\ pc'[t] = "filling" /\ \A u \in Threads \ {t} : pc'[u] = pc[u]
  BY MoveCounts DEF Reserve, At, Steps
<1>. HIDE DEF last
<1>6. ReadyRecords' = ReadyRecords
  BY <1>3, <1>4 DEF ReadyRecords
<1>7. BusyRecords(t)' = BusyRecords(t) \cup {last} /\ last \in DOMAIN r'
  BY <1>3, <1>4 DEF BusyRecords
<1>8. \A u \in Threads \ {t} : BusyRecords(u)' = BusyRecords(u)
  BY <1>3, <1>4 DEF BusyRecords
<1>9. BusyRecords(t) = {}
  BY <1>5 DEF BusyInv
<1>10. BusyInv'
  <2>. SUFFICES ASSUME NEW u \in Threads
                PROVE  /\ pc'[u] = "filling" => \E i \in DOMAIN r' : BusyRecords(u)' = {i}
                       /\ pc'[u] # "filling" => BusyRecords(u)' = {}
    BY DEF BusyInv
  <2>1. CASE u = t
    BY <1>5, <1>7, <1>9, <2>1
  <2>2. CASE u # t
    BY <1>3, <1>5, <1>8, <2>2 DEF BusyInv
  <2>. QED  BY <2>1, <2>2
<1>. QED  BY <1>6, <1>10

LEMMA SubmitRing ==
  ASSUME OracleTypeOK, BusyInv, NEW t \in Threads, SubmitEvent(t)
  PROVE  BusyInv' /\ Cardinality(ReadyRecords') = Cardinality(ReadyRecords) + 1
<1>. DEFINE r == grimoire_events
<1>1. /\ DOMAIN r' = DOMAIN r
      /\ \A i \in DOMAIN r : /\ r'[i].thread = r[i].thread
                             /\ r'[i].busy <=> r[i].busy /\ r[i].thread # t
  BY SubmittedPlaces DEF SubmitEvent
<1>2. /\ pc[t] = "filling" /\ pc'[t] # "filling"
      /\ \A u \in Threads \ {t} : pc'[u] = pc[u]
  <2>1. PICK step \in {"submitted", "idle"} : GoTo(t, step)
    BY DEF SubmitEvent
  <2>. QED  BY <2>1, MoveCounts DEF SubmitEvent, At, Steps
<1>3. PICK open \in DOMAIN r : BusyRecords(t) = {open}
  BY <1>2 DEF BusyInv
<1>4. \A i \in DOMAIN r : i = open <=> (r[i].thread = t /\ r[i].busy)
  BY <1>3 DEF BusyRecords
<1>5. ReadyRecords' = ReadyRecords \cup {open} /\ open \notin ReadyRecords
  BY <1>1, <1>4 DEF ReadyRecords
<1>6. Cardinality(ReadyRecords') = Cardinality(ReadyRecords) + 1
  BY <1>5, OracleSetsAreFinite, OneMore
<1>7. BusyInv'
  <2>. SUFFICES ASSUME NEW u \in Threads
                PROVE  /\ pc'[u] = "filling" => \E i \in DOMAIN r' : BusyRecords(u)' = {i}
                       /\ pc'[u] # "filling" => BusyRecords(u)' = {}
    BY DEF BusyInv
  <2>1. CASE u = t
    <3>1. BusyRecords(u)' = {}
      BY <1>1, <2>1 DEF BusyRecords
    <3>. QED  BY <1>2, <2>1, <3>1
  <2>2. CASE u # t
    <3>1. BusyRecords(u)' = BusyRecords(u)
      BY <1>1, <2>2 DEF BusyRecords
    <3>. QED  BY <1>1, <1>2, <2>2, <3>1 DEF BusyInv
  <2>. QED  BY <2>1, <2>2
<1>. QED  BY <1>6, <1>7

\* Taking the oldest record out of the ring moves the others up by one place.
LEMMA ReceiveRing ==
  ASSUME OracleTypeOK, BusyInv, Receive
  PROVE  BusyInv' /\ Cardinality(ReadyRecords') = Cardinality(ReadyRecords) - 1
<1>. DEFINE r == grimoire_events
<1>1. /\ r \in Seq(Place) /\ DOMAIN r = 1..Len(r) /\ Len(r) \in Nat \ {0}
      /\ DOMAIN r' = 1..(Len(r) - 1)
      /\ \A i \in DOMAIN r' : r'[i] = r[i + 1]
      /\ ~r[1].busy
  BY DEF OracleTypeOK, Place, Receive
<1>. DEFINE places == {i \in 1..(Len(r) - 1) : ~r[i + 1].busy}
            shifted == {i \in 2..Len(r) : ~r[i].busy}
            shift == [i \in places |-> i + 1]
<1>2. ReadyRecords \ {1} = shifted /\ 1 \in ReadyRecords
  BY <1>1 DEF ReadyRecords
<1>3. Cardinality(ReadyRecords \ {1}) = Cardinality(ReadyRecords) - 1
  BY <1>2, OracleSetsAreFinite, OneMore
<1>4. ReadyRecords' = places
  BY <1>1 DEF ReadyRecords
<1>5. IsFiniteSet(places)
  <2>1. IsFiniteSet(1..(Len(r) - 1))
    BY <1>1, FS_Interval
  <2>2. places \in SUBSET (1..(Len(r) - 1))
    OBVIOUS
  <2>. QED  BY <2>1, <2>2, FS_Subset
<1>6. /\ \A i \in places : shift[i] = i + 1 /\ shift[i] \in shifted /\ i \in Nat
      /\ \A j \in shifted : j - 1 \in places /\ j = shift[j - 1]
  BY <1>1
<1>7. shift \in Bijection(places, shifted)
  <2>1. shift \in [places -> shifted]
    BY <1>6
  <2>2. \A i, j \in places : shift[i] = shift[j] => i = j
    BY <1>6
  <2>3. \A j \in shifted : \E i \in places : shift[i] = j
    BY <1>6
  <2>. HIDE DEF shift, places, shifted
  <2>. QED  BY <2>1, <2>2, <2>3, Fun_IsBij
<1>8. Cardinality(ReadyRecords') = Cardinality(ReadyRecords \ {1})
  <2>. HIDE DEF places, shifted, shift
  <2>1. ExistsBijection(places, shifted)
    BY <1>7 DEF ExistsBijection
  <2>2. Cardinality(shifted) = Cardinality(places)
    BY <1>5, <2>1, FS_Bijection
  <2>. QED  BY <1>2, <1>4, <2>2
<1>9. BusyInv'
  <2>. SUFFICES ASSUME NEW u \in Threads
                PROVE  /\ pc'[u] = "filling" => \E i \in DOMAIN r' : BusyRecords(u)' = {i}
                       /\ pc'[u] # "filling" => BusyRecords(u)' = {}
    BY DEF BusyInv
  <2>1. \A i : i \in BusyRecords(u)' <=> (i \in DOMAIN r' /\ i + 1 \in BusyRecords(u))
    BY <1>1 DEF BusyRecords
  <2>2. 1 \notin BusyRecords(u)
    BY <1>1 DEF BusyRecords
  <2>3. pc'[u] = pc[u]
    BY DEF Receive
  <2>4. CASE pc[u] # "filling"
    BY <2>1, <2>3, <2>4 DEF BusyInv
  <2>5. CASE pc[u] = "filling"
    <3>1. PICK i \in DOMAIN r : BusyRecords(u) = {i}
      BY <2>5 DEF BusyInv
    <3>2. i - 1 \in DOMAIN r'
      BY <1>1, <2>2, <3>1
    <3>3. \A j : j \in BusyRecords(u)' <=> j = i - 1
      BY <1>1, <2>1, <3>1, <3>2
    <3>. QED  BY <2>3, <2>5, <3>2, <3>3
  <2>. QED  BY <2>4, <2>5
<1>. QED  BY <1>3, <1>8, <1>9

\* The statistics of trace_sys_enter, over every step.
LEMMA StatsStep ==
  ASSUME OracleInv, OracleNext
  PROVE  StepsInv' /\ BusyInv' /\ StatsAddUp'
<1>. USE DEF OracleInv
<1>0. /\ stats \in [Stats -> Nat] /\ received \in Nat
      /\ {stats["filtered"], stats["emitted"], stats["dropped"]} \subseteq Nat
  BY DEF OracleTypeOK, Stats
<1>1. /\ IsFiniteSet(Inside) /\ Cardinality(Inside) \in Nat
      /\ IsFiniteSet(Sent) /\ Cardinality(Sent) \in Nat
      /\ Cardinality(ReadyRecords) \in Nat
  BY OracleSetsAreFinite
<1>2. loaded = "grimoire" =>
        /\ stats["filtered"] = stats["emitted"] + stats["dropped"] + Cardinality(Inside)
        /\ received + Cardinality(ReadyRecords) = stats["emitted"] + Cardinality(Sent)
  BY StatsMeaning
<1>3. loaded' = loaded
  BY RingTypes
<1>4. StatsAddUp' <=>
       (loaded' = "grimoire" =>
          /\ stats'["filtered"] = stats'["emitted"] + stats'["dropped"] + Cardinality(Inside')
          /\ received' + Cardinality(ReadyRecords') = stats'["emitted"] + Cardinality(Sent'))
  BY DEF StatsAddUp, InHook, Ready, Inside, Sent, ReadyRecords
<1>5. CASE Configure
  <2>1. UNCHANGED <<loaded, pc, stats, received, grimoire_events>>
    BY <1>5 DEF Configure, ringVars
  <2>2. BusyInv' /\ ReadyRecords' = ReadyRecords
    BY <2>1, SameRing
  <2>3. Inside' = Inside /\ Sent' = Sent
    BY <2>1 DEF Inside, Sent
  <2>. QED  BY <1>2, <1>4, <2>1, <2>2, <2>3 DEF StepsInv
<1>6. CASE Receive
  <2>1. UNCHANGED <<loaded, pc, stats>> /\ received' = received + 1
    BY <1>6 DEF Receive
  <2>2. BusyInv' /\ Cardinality(ReadyRecords') = Cardinality(ReadyRecords) - 1
    BY <1>6, ReceiveRing
  <2>3. Inside' = Inside /\ Sent' = Sent
    BY <2>1 DEF Inside, Sent
  <2>4. StepsInv'
    BY <2>1 DEF StepsInv
  <2>5. loaded = "grimoire" =>
          received' + Cardinality(ReadyRecords') = stats["emitted"] + Cardinality(Sent)
    BY <1>0, <1>1, <1>2, <2>1, <2>2
  <2>6. StatsAddUp'
    BY <1>2, <1>4, <2>1, <2>3, <2>5
  <2>. QED  BY <2>2, <2>4, <2>6
<1>7. ASSUME NEW t \in Threads, NEW n \in Numbers, trace_sys_enter(t, n)
      PROVE  StepsInv' /\ BusyInv' /\ StatsAddUp'
  <2>1. UNCHANGED <<received, grimoire_events>> /\ pc[t] = "idle" /\ loaded = "grimoire"
    BY <1>7 DEF trace_sys_enter, ringVars, At
  <2>2. t \notin Inside /\ t \notin Sent
    BY <2>1 DEF Inside, Sent
  <2>3. CASE Admits(n, config.filter)
    <3>1. /\ stats'["filtered"] = stats["filtered"] + 1 /\ stats'["emitted"] = stats["emitted"]
          /\ stats'["dropped"] = stats["dropped"] /\ GoTo(t, "admitted")
      BY <1>0, <1>7, <2>3 DEF trace_sys_enter, Stats
    <3>2. /\ pc'[t] = "admitted" /\ \A u \in Threads \ {t} : pc'[u] = pc[u]
          /\ Inside' = Inside \cup {t} /\ Sent' = Sent \ {t}
      BY <3>1, MoveCounts DEF Steps
    <3>3. BusyInv' /\ ReadyRecords' = ReadyRecords
      BY <2>1, <3>2, SameRing
    <3>4. Cardinality(Inside') = Cardinality(Inside) + 1 /\ Sent' = Sent
      BY <1>1, <2>2, <3>2, OneMore
    <3>5. StepsInv'
      BY <1>3, <3>2 DEF StepsInv
    <3>6. stats'["filtered"] = stats'["emitted"] + stats'["dropped"] + Cardinality(Inside')
      BY <1>0, <1>1, <1>2, <2>1, <3>1, <3>4
    <3>7. received' + Cardinality(ReadyRecords') = stats'["emitted"] + Cardinality(Sent')
      BY <1>2, <2>1, <3>1, <3>3, <3>4
    <3>8. StatsAddUp'
      BY <1>4, <3>6, <3>7
    <3>. QED  BY <3>3, <3>5, <3>8
  <2>4. CASE ~Admits(n, config.filter)
    <3>1. /\ stats'["filtered"] = stats["filtered"] /\ stats'["emitted"] = stats["emitted"]
          /\ stats'["dropped"] = stats["dropped"] /\ pc' = pc
      BY <1>0, <1>7, <2>4 DEF trace_sys_enter, increment_stat, Stats
    <3>2. BusyInv' /\ ReadyRecords' = ReadyRecords
      BY <2>1, <3>1, SameRing
    <3>3. Inside' = Inside /\ Sent' = Sent
      BY <3>1 DEF Inside, Sent
    <3>4. StepsInv'
      BY <1>3, <3>1 DEF StepsInv
    <3>. QED  BY <1>2, <1>4, <2>1, <3>1, <3>2, <3>3, <3>4
  <2>. QED  BY <2>3, <2>4
<1>8. ASSUME NEW t \in Threads, Reserve(t)
      PROVE  StepsInv' /\ BusyInv' /\ StatsAddUp'
  <2>1. UNCHANGED <<received, stats>> /\ pc[t] = "admitted" /\ GoTo(t, "filling")
    BY <1>8 DEF Reserve, At
  <2>2. /\ pc'[t] = "filling" /\ \A u \in Threads \ {t} : pc'[u] = pc[u]
        /\ Inside' = Inside \cup {t} /\ Sent' = Sent \ {t}
    BY <2>1, MoveCounts DEF Steps
  <2>3. BusyInv' /\ ReadyRecords' = ReadyRecords
    BY <1>8, ReserveRing
  <2>4. t \in Inside /\ t \notin Sent
    BY <2>1 DEF Inside, Sent
  <2>5. Inside' = Inside /\ Sent' = Sent
    BY <2>2, <2>4
  <2>6. StepsInv'
    BY <1>3, <2>2 DEF StepsInv
  <2>7. StatsAddUp'
    BY <1>2, <1>3, <1>4, <2>1, <2>3, <2>5
  <2>. QED  BY <2>3, <2>6, <2>7
<1>9. ASSUME NEW t \in Threads, SubmitEvent(t)
      PROVE  StepsInv' /\ BusyInv' /\ StatsAddUp'
  <2>1. UNCHANGED <<received, stats>> /\ pc[t] = "filling"
    BY <1>9 DEF SubmitEvent, At
  <2>2. BusyInv' /\ Cardinality(ReadyRecords') = Cardinality(ReadyRecords) + 1
    BY <1>9, SubmitRing
  <2>3. t \in Inside /\ t \notin Sent
    BY <2>1 DEF Inside, Sent
  <2>4. CASE loaded = "grimoire"
    <3>1. GoTo(t, "submitted")
      BY <1>9, <2>4 DEF SubmitEvent
    <3>2. /\ pc'[t] = "submitted" /\ \A u \in Threads \ {t} : pc'[u] = pc[u]
          /\ Inside' = Inside \cup {t} /\ Sent' = Sent \cup {t}
      BY <3>1, MoveCounts DEF Steps
    <3>3. Inside' = Inside /\ Cardinality(Sent') = Cardinality(Sent) + 1
      BY <1>1, <2>3, <3>2, OneMore
    <3>4. StepsInv'
      BY <1>3, <2>4, <3>2 DEF StepsInv
    <3>5. received' + Cardinality(ReadyRecords') = stats["emitted"] + Cardinality(Sent')
      BY <1>0, <1>1, <1>2, <2>1, <2>2, <2>4, <3>3
    <3>6. stats["filtered"] = stats["emitted"] + stats["dropped"] + Cardinality(Inside')
      BY <1>2, <2>4, <3>3
    <3>7. StatsAddUp'
      BY <1>4, <2>1, <3>5, <3>6
    <3>. QED  BY <2>2, <3>4, <3>7
  <2>5. CASE loaded # "grimoire"
    <3>1. GoTo(t, "idle")
      BY <1>9, <2>5 DEF SubmitEvent
    <3>2. pc'[t] = "idle" /\ \A u \in Threads \ {t} : pc'[u] = pc[u]
      BY <3>1, MoveCounts DEF Steps
    <3>3. StepsInv'
      BY <1>3, <2>5, <3>2 DEF StepsInv
    <3>. QED  BY <1>3, <1>4, <2>2, <2>5, <3>3
  <2>. QED  BY <2>4, <2>5
<1>10. ASSUME NEW t \in Threads, Drop(t) \/ Emitted(t)
       PROVE  StepsInv' /\ BusyInv' /\ StatsAddUp'
  <2>1. /\ UNCHANGED <<received, grimoire_events>>
        /\ pc[t] \in {"admitted", "submitted"} /\ GoTo(t, "idle")
    BY <1>10 DEF Drop, Emitted, At, ringVars
  <2>2. /\ pc'[t] = "idle" /\ \A u \in Threads \ {t} : pc'[u] = pc[u]
        /\ Inside' = Inside \ {t} /\ Sent' = Sent \ {t}
    BY <2>1, MoveCounts DEF Steps
  <2>3. BusyInv' /\ ReadyRecords' = ReadyRecords
    BY <2>1, <2>2, SameRing
  <2>4. StepsInv'
    BY <1>3, <2>2 DEF StepsInv
  <2>5. t \in Inside
    BY <2>1 DEF Inside
  <2>6. Cardinality(Inside') = Cardinality(Inside) - 1
    BY <1>1, <2>2, <2>5, OneMore
  <2>7. ASSUME loaded = "grimoire" PROVE StatsAddUp'
    <3>1. CASE Drop(t)
      <4>1. /\ stats'["filtered"] = stats["filtered"] /\ stats'["emitted"] = stats["emitted"]
            /\ stats'["dropped"] = stats["dropped"] + 1 /\ pc[t] = "admitted"
        BY <1>0, <2>7, <3>1 DEF Drop, DropStat, increment_stat, At, Stats
      <4>2. t \notin Sent
        BY <4>1 DEF Sent
      <4>3. Sent' = Sent
        BY <2>2, <4>2
      <4>. QED  BY <1>0, <1>1, <1>2, <1>4, <2>1, <2>3, <2>6, <2>7, <4>1, <4>3
    <3>2. CASE Emitted(t)
      <4>1. /\ stats'["filtered"] = stats["filtered"] /\ stats'["emitted"] = stats["emitted"] + 1
            /\ stats'["dropped"] = stats["dropped"] /\ pc[t] = "submitted"
        BY <1>0, <3>2 DEF Emitted, increment_stat, At, Stats
      <4>2. t \in Sent
        BY <4>1 DEF Sent
      <4>3. Cardinality(Sent') = Cardinality(Sent) - 1
        BY <1>1, <2>2, <4>2, OneMore
      <4>. QED  BY <1>0, <1>1, <1>2, <1>4, <2>1, <2>3, <2>6, <2>7, <4>1, <4>3
    <3>. QED  BY <1>10, <3>1, <3>2
  <2>. QED  BY <1>3, <1>4, <2>3, <2>4, <2>7
<1>11. ASSUME NEW t \in Threads, IncrementCount(t) \/ InsertCount(t) \/ AfterCount(t)
       PROVE  StepsInv' /\ BusyInv' /\ StatsAddUp'
  <2>1. UNCHANGED grimoire_events /\ pc[t] \in {"found", "missed", "counted"}
    BY <1>11 DEF IncrementCount, InsertCount, AfterCount, At, ringVars
  <2>2. loaded # "grimoire"
    BY <2>1 DEF StepsInv
  <2>3. PICK step \in {"counted", "admitted", "idle"} : GoTo(t, step)
    BY <1>11 DEF IncrementCount, InsertCount, AfterCount
  <2>4. pc'[t] = step /\ \A u \in Threads \ {t} : pc'[u] = pc[u]
    BY <2>3, MoveCounts DEF Steps
  <2>5. BusyInv'
    BY <2>1, <2>4, SameRing
  <2>6. StepsInv'
    BY <1>3, <2>2, <2>4 DEF StepsInv
  <2>. QED  BY <1>3, <1>4, <2>2, <2>5, <2>6
<1>12. ASSUME NEW t \in Threads, NEW n \in Numbers, trace_syscall_enter(t, n)
       PROVE  StepsInv' /\ BusyInv' /\ StatsAddUp'
  <2>1. UNCHANGED grimoire_events /\ pc[t] = "idle" /\ loaded = "counter"
    BY <1>12 DEF trace_syscall_enter, At, ringVars
  <2>2. PICK step \in {"found", "missed"} : GoTo(t, step)
    BY <1>12, Zenon DEF trace_syscall_enter
  <2>3. pc'[t] = step /\ \A u \in Threads \ {t} : pc'[u] = pc[u]
    BY <2>2, MoveCounts DEF Steps
  <2>4. BusyInv'
    BY <2>1, <2>3, SameRing
  <2>5. StepsInv'
    BY <1>3, <2>1, <2>3 DEF StepsInv
  <2>. QED  BY <1>3, <1>4, <2>1, <2>4, <2>5
<1>. QED  BY <1>5, <1>6, <1>7, <1>8, <1>9, <1>10, <1>11, <1>12 DEF OracleNext, Hook

-----------------------------------------------------------------------------
(* The counts.                                                             *)

Entered == {k \in Keys : syscall_counts[k] > 0}

\* Once the map is full no key is ever added.
LEMMA FullStays ==
  ASSUME Entered' = Entered, Full
  PROVE  Full'
BY DEF Full, Entered

\* What CountIsCalls says of one key.
CountOK(k) ==
    /\ \/ syscall_counts[k] = ended[k]
       \/ syscall_counts[k] = 0 /\ Full
       \/ k \in raced
    /\ raced \subseteq {k} => syscall_counts[k] =< ended[k]

LEMMA CountsMeaning == CountIsCalls <=> \A k \in Keys : CountOK(k)
BY DEF CountIsCalls, CountOK

\* A thread makes an entry for the key it found missing, or replaces one.
LEMMA InsertStep ==
  ASSUME OracleInv, NEW t \in Threads, InsertCount(t)
  PROVE  MissedInv' /\ FoundInv' /\ CountIsCalls'
<1>. USE DEF OracleInv
<1>. DEFINE k == Key(t)
<1>1. /\ k \in Keys /\ \A u \in Threads : Key(u) \in Keys
      /\ syscall_counts \in [Keys -> Nat] /\ ended \in [Keys -> Nat]
      /\ stale \subseteq Threads
  BY KeyType DEF OracleTypeOK
<1>2. /\ pc[t] = "missed" /\ GoTo(t, "counted") /\ UNCHANGED <<number, raced>>
      /\ syscall_counts' = [syscall_counts EXCEPT ![k] = FirstCount(k)]
      /\ ended' = [ended EXCEPT ![k] = @ + 1]
      /\ stale' = stale \cup IF syscall_counts[k] > 0 THEN Holders(k) ELSE {}
  BY DEF InsertCount, At, Called
<1>3. pc'[t] = "counted" /\ \A u \in Threads \ {t} : pc'[u] = pc[u]
  BY <1>2, MoveCounts DEF Steps
<1>4. \A u \in Threads : Key(u)' = Key(u)
  BY <1>2 DEF Key
<1>. HIDE DEF k
<1>5. /\ syscall_counts'[k] = FirstCount(k) /\ ended'[k] = ended[k] + 1
      /\ \A j \in Keys \ {k} : syscall_counts'[j] = syscall_counts[j] /\ ended'[j] = ended[j]
  BY <1>1, <1>2
<1>6. k \notin raced => /\ syscall_counts[k] = 0
                        /\ \A u \in Threads \ {t} : pc[u] = "missed" => Key(u) # k
  BY <1>2 DEF MissedInv, k
<1>7. MissedInv'
  <2>. SUFFICES ASSUME NEW u \in Threads, pc'[u] = "missed", Key(u) \notin raced
                PROVE  /\ syscall_counts'[Key(u)] = 0
                       /\ \A v \in Threads \ {u} : pc'[v] = "missed" => Key(v) # Key(u)
    BY <1>2, <1>4 DEF MissedInv
  <2>1. u # t /\ pc[u] = "missed"
    BY <1>3
  <2>2. Key(u) # k
    BY <1>2, <2>1 DEF MissedInv, k
  <2>3. syscall_counts'[Key(u)] = 0
    BY <1>1, <1>5, <2>1, <2>2 DEF MissedInv
  <2>4. \A v \in Threads \ {u} : pc'[v] = "missed" => v # t /\ pc[v] = "missed"
    BY <1>3
  <2>. QED  BY <2>1, <2>3, <2>4 DEF MissedInv
<1>8. syscall_counts'[k] > 0 <=> (syscall_counts[k] > 0 \/ ~Full)
  BY <1>1, <1>5 DEF FirstCount
<1>9. FoundInv'
  <2>. SUFFICES ASSUME NEW u \in Threads
                PROVE  /\ u \in stale' => pc'[u] = "found" /\ Key(u) \in raced
                       /\ (pc'[u] = "found" /\ u \notin stale') => syscall_counts'[Key(u)] > 0
    BY <1>2, <1>4 DEF FoundInv
  <2>1. ASSUME u \in stale PROVE pc'[u] = "found" /\ Key(u) \in raced
    BY <1>2, <1>3, <2>1 DEF FoundInv
  <2>2. ASSUME syscall_counts[k] > 0, u \in Holders(k)
        PROVE  pc'[u] = "found" /\ Key(u) \in raced
    BY <1>2, <1>3, <1>6, <2>2 DEF Holders, At
  <2>3. ASSUME pc'[u] = "found", u \notin stale' PROVE syscall_counts'[Key(u)] > 0
    <3>1. pc[u] = "found" /\ u \notin stale /\ syscall_counts[Key(u)] > 0
      BY <1>2, <1>3, <2>3 DEF FoundInv
    <3>. QED  BY <1>1, <1>5, <1>8, <3>1
  <2>. QED  BY <1>2, <2>1, <2>2, <2>3
<1>10. Full => Full'
  <2>. SUFFICES ASSUME Full PROVE Full'
    OBVIOUS
  <2>1. Entered' = Entered
    BY <1>5, <1>8 DEF Entered
  <2>. QED  BY <2>1, FullStays
<1>11. ASSUME NEW j \in Keys PROVE CountOK(j)'
  <2>1. CountOK(j)
    BY CountsMeaning
  <2>2. CASE j # k
    BY <1>2, <1>5, <1>10, <2>1, <2>2 DEF CountOK
  <2>3. CASE j = k
    <3>1. FirstCount(k) \in {0, 1} /\ ended[k] \in Nat /\ syscall_counts[k] \in Nat
      BY <1>1 DEF FirstCount
    <3>2. syscall_counts'[k] =< ended'[k]
      BY <1>5, <3>1
    <3>3. CASE k \in raced
      BY <1>2, <2>3, <3>2, <3>3 DEF CountOK
    <3>4. CASE k \notin raced /\ Full
      <4>1. FirstCount(k) = 0
        BY <1>6, <3>4 DEF FirstCount
      <4>. QED  BY <1>5, <1>10, <2>3, <3>2, <3>4, <4>1 DEF CountOK
    <3>5. CASE k \notin raced /\ ~Full
      <4>1. FirstCount(k) = 1
        BY <3>5 DEF FirstCount
      <4>2. ended[k] = 0
        BY <1>6, <2>1, <2>3, <3>5 DEF CountOK
      <4>. QED  BY <1>5, <2>3, <3>2, <4>1, <4>2 DEF CountOK
    <3>. QED  BY <3>3, <3>4, <3>5
  <2>. QED  BY <2>2, <2>3
<1>12. Keys' = Keys
  BY DEF Keys
<1>13. CountIsCalls'
  BY <1>11, <1>12 DEF CountIsCalls, CountOK
<1>. QED  BY <1>7, <1>9, <1>13

\* A thread increments the entry it found, or what has become of it.
LEMMA IncrementStep ==
  ASSUME OracleInv, NEW t \in Threads, IncrementCount(t)
  PROVE  MissedInv' /\ FoundInv' /\ CountIsCalls'
<1>. USE DEF OracleInv
<1>. DEFINE k == Key(t)
<1>1. /\ k \in Keys /\ \A u \in Threads : Key(u) \in Keys
      /\ syscall_counts \in [Keys -> Nat] /\ ended \in [Keys -> Nat]
      /\ stale \subseteq Threads /\ raced \subseteq Keys
  BY KeyType DEF OracleTypeOK
<1>2. /\ pc[t] = "found" /\ GoTo(t, "counted") /\ UNCHANGED <<number, raced>>
      /\ ended' = [ended EXCEPT ![k] = @ + 1]
      /\ stale' = stale \ {t}
  BY DEF IncrementCount, At, Called
<1>3. \/ t \in stale /\ UNCHANGED syscall_counts
      \/ \E j \in Keys : /\ syscall_counts' = [syscall_counts EXCEPT ![j] = @ + 1]
                         /\ (t \notin stale /\ j = k) \/ (t \in stale /\ j \in raced)
                         /\ syscall_counts[j] > 0
  BY <1>1, <1>2 DEF IncrementCount, CountAt, FoundInv
<1>4. pc'[t] = "counted" /\ \A u \in Threads \ {t} : pc'[u] = pc[u]
  BY <1>2, MoveCounts DEF Steps
<1>5. \A u \in Threads : Key(u)' = Key(u)
  BY <1>2 DEF Key
<1>6. t \in stale => k \in raced
  BY DEF FoundInv
<1>. HIDE DEF k
<1>7. ended'[k] = ended[k] + 1 /\ \A j \in Keys \ {k} : ended'[j] = ended[j]
  BY <1>1, <1>2
\* No entry appears and none goes.
<1>8. \A j \in Keys : syscall_counts'[j] > 0 <=> syscall_counts[j] > 0
  BY <1>1, <1>3
<1>9. syscall_counts' \in [Keys -> Nat]
  BY <1>1, <1>3
<1>10. MissedInv'
  <2>. SUFFICES ASSUME NEW u \in Threads, pc'[u] = "missed", Key(u) \notin raced
                PROVE  /\ syscall_counts'[Key(u)] = 0
                       /\ \A v \in Threads \ {u} : pc'[v] = "missed" => Key(v) # Key(u)
    BY <1>2, <1>5 DEF MissedInv
  <2>1. \A v \in Threads : pc'[v] = "missed" => v # t /\ pc[v] = "missed"
    BY <1>4
  <2>2. syscall_counts[Key(u)] = 0
    BY <2>1 DEF MissedInv
  <2>3. syscall_counts'[Key(u)] = 0
    BY <1>1, <1>8, <1>9, <2>2
  <2>. QED  BY <2>1, <2>3 DEF MissedInv
<1>11. FoundInv'
  <2>. SUFFICES ASSUME NEW u \in Threads
                PROVE  /\ u \in stale' => pc'[u] = "found" /\ Key(u) \in raced
                       /\ (pc'[u] = "found" /\ u \notin stale') => syscall_counts'[Key(u)] > 0
    BY <1>2, <1>5 DEF FoundInv
  <2>1. CASE u = t
    BY <1>2, <1>4, <2>1
  <2>2. CASE u # t
    BY <1>1, <1>2, <1>4, <1>8, <2>2 DEF FoundInv
  <2>. QED  BY <2>1, <2>2
<1>12. Full => Full'
  <2>1. Entered' = Entered
    BY <1>8 DEF Entered
  <2>. QED  BY <2>1, FullStays
<1>13. ASSUME NEW i \in Keys PROVE CountOK(i)'
  <2>1. CountOK(i) /\ syscall_counts[i] \in Nat /\ ended[i] \in Nat
    BY <1>1, CountsMeaning
  <2>2. CASE t \in stale /\ UNCHANGED syscall_counts
    <3>1. CASE i = k
      BY <1>2, <1>6, <1>7, <2>1, <2>2, <3>1 DEF CountOK
    <3>2. CASE i # k
      BY <1>2, <1>7, <1>12, <2>1, <2>2, <3>2 DEF CountOK
    <3>. QED  BY <3>1, <3>2
  <2>3. ASSUME NEW j \in Keys, (t \notin stale /\ j = k) \/ (t \in stale /\ j \in raced),
               syscall_counts' = [syscall_counts EXCEPT ![j] = @ + 1], syscall_counts[j] > 0
        PROVE  CountOK(i)'
    <3>1. /\ syscall_counts'[j] = syscall_counts[j] + 1
          /\ i # j => syscall_counts'[i] = syscall_counts[i]
      BY <1>1, <2>3
    <3>2. CASE j = k /\ i = k
      BY <1>2, <1>7, <2>1, <2>3, <3>1, <3>2 DEF CountOK
    <3>3. CASE i # j /\ i # k
      BY <1>2, <1>7, <1>12, <2>1, <3>1, <3>3 DEF CountOK
    <3>4. CASE j # k /\ i \in {j, k}
      <4>1. {j, k} \subseteq raced
        BY <1>6, <2>3, <3>4
      <4>2. i \in raced /\ ~(raced \subseteq {i})
        BY <3>4, <4>1
      <4>. QED  BY <1>2, <4>2 DEF CountOK
    <3>. QED  BY <3>2, <3>3, <3>4
  <2>. QED  BY <1>3, <2>2, <2>3
<1>14. Keys' = Keys
  BY DEF Keys
<1>15. CountIsCalls'
  BY <1>13, <1>14 DEF CountIsCalls, CountOK
<1>. QED  BY <1>10, <1>11, <1>15

\* The lookup changes no count: it notes a key that a second thread finds missing.
LEMMA LookupStep ==
  ASSUME OracleInv, NEW t \in Threads, NEW n \in Numbers, trace_syscall_enter(t, n)
  PROVE  MissedInv' /\ FoundInv' /\ CountIsCalls'
<1>. USE DEF OracleInv
<1>. DEFINE k == <<PidOf[t], n>>
            others == {u \in Threads \ {t} : pc[u] = "missed" /\ Key(u) = k}
<1>1. /\ k \in Keys /\ \A u \in Threads : Key(u) \in Keys
      /\ syscall_counts \in [Keys -> Nat] /\ ended \in [Keys -> Nat]
  BY KeyType DEF OracleTypeOK
<1>2. /\ number' = [number EXCEPT ![t] = n] /\ pc[t] = "idle"
      /\ number \in [Threads -> Numbers] /\ UNCHANGED <<syscall_counts, ended, stale>>
  BY DEF trace_syscall_enter, At, OracleTypeOK
<1>3. /\ number'[t] = n /\ \A u \in Threads \ {t} : number'[u] = number[u]
  BY <1>2
<1>4. Key(t)' = k /\ \A u \in Threads \ {t} : Key(u)' = Key(u)
  BY <1>3 DEF Key
<1>5. \/ syscall_counts[k] > 0 /\ GoTo(t, "found") /\ raced' = raced
      \/ /\ ~(syscall_counts[k] > 0) /\ GoTo(t, "missed")
         /\ raced' = IF others = {} THEN raced ELSE raced \cup {k}
  BY Zenon DEF trace_syscall_enter, At
<1>. HIDE DEF k
<1>6. PICK step \in {"found", "missed"} :
        /\ GoTo(t, step)
        /\ step = "found" <=> syscall_counts[k] > 0
        /\ (step = "missed" /\ others # {}) => k \in raced'
  BY <1>5
<1>7. raced \subseteq raced'
  BY <1>5
<1>8. pc'[t] = step /\ \A u \in Threads \ {t} : pc'[u] = pc[u]
  BY <1>6, MoveCounts DEF Steps
<1>9. MissedInv'
  <2>. SUFFICES ASSUME NEW u \in Threads, pc'[u] = "missed", Key(u)' \notin raced'
                PROVE  /\ syscall_counts[Key(u)'] = 0
                       /\ \A v \in Threads \ {u} : pc'[v] = "missed" => Key(v)' # Key(u)'
    BY <1>2 DEF MissedInv
  <2>1. CASE u = t
    <3>1. Key(u)' = k /\ others = {} /\ syscall_counts[k] = 0
      BY <1>1, <1>4, <1>6, <1>8, <2>1
    <3>2. \A v \in Threads \ {u} : pc'[v] = "missed" => Key(v)' # k
      BY <1>4, <1>8, <2>1, <3>1
    <3>. QED  BY <3>1, <3>2
  <2>2. CASE u # t
    <3>1. pc[u] = "missed" /\ Key(u)' = Key(u) /\ Key(u) \notin raced
      BY <1>4, <1>7, <1>8, <2>2
    <3>2. syscall_counts[Key(u)] = 0
      BY <3>1 DEF MissedInv
    <3>3. ASSUME NEW v \in Threads \ {u}, pc'[v] = "missed" PROVE Key(v)' # Key(u)'
      <4>1. CASE v = t
        <5>1. Key(u) = k => u \in others
          BY <2>2, <3>1
        <5>. QED  BY <1>4, <1>6, <1>8, <3>1, <3>3, <4>1, <5>1
      <4>2. CASE v # t
        BY <1>4, <1>8, <3>1, <3>3, <4>2 DEF MissedInv
      <4>. QED  BY <4>1, <4>2
    <3>. QED  BY <3>1, <3>2, <3>3
  <2>. QED  BY <2>1, <2>2
<1>10. FoundInv'
  <2>. SUFFICES ASSUME NEW u \in Threads
                PROVE  /\ u \in stale => pc'[u] = "found" /\ Key(u)' \in raced'
                       /\ (pc'[u] = "found" /\ u \notin stale) => syscall_counts[Key(u)'] > 0
    BY <1>2 DEF FoundInv
  <2>1. CASE u = t
    BY <1>2, <1>4, <1>6, <1>8, <2>1 DEF FoundInv
  <2>2. CASE u # t
    BY <1>4, <1>7, <1>8, <2>2 DEF FoundInv
  <2>. QED  BY <2>1, <2>2
<1>11. Full <=> Full'
  BY <1>2 DEF Full, Keys
<1>12. CountIsCalls'
  BY <1>2, <1>7, <1>11 DEF CountIsCalls, Keys
<1>. QED  BY <1>9, <1>10, <1>12

\* The counts of trace_syscall_enter, over every step.
LEMMA CountsStep ==
  ASSUME OracleInv, OracleNext
  PROVE  MissedInv' /\ FoundInv' /\ CountIsCalls'
<1>. USE DEF OracleInv
<1>1. ASSUME UNCHANGED <<syscall_counts, ended, raced, stale>>,
             \A u \in Threads : pc'[u] \in {"missed", "found"} => number'[u] = number[u],
             \A u \in Threads : pc'[u] = "missed" => pc[u] = "missed",
             \A u \in Threads : pc'[u] = "found" <=> pc[u] = "found"
      PROVE  MissedInv' /\ FoundInv' /\ CountIsCalls'
  <2>1. \A u \in Threads : pc'[u] \in {"missed", "found"} => Key(u)' = Key(u)
    BY <1>1 DEF Key
  <2>2. MissedInv'
    BY <1>1, <2>1 DEF MissedInv
  <2>3. FoundInv'
    BY <1>1, <2>1 DEF FoundInv
  <2>4. Full <=> Full'
    BY <1>1 DEF Full, Keys
  <2>5. CountIsCalls'
    BY <1>1, <2>4 DEF CountIsCalls, Keys
  <2>. QED  BY <2>2, <2>3, <2>5
<1>2. CASE Receive \/ Configure
  BY <1>1, <1>2 DEF Receive, Configure, countVars
<1>3. ASSUME NEW t \in Threads, NEW n \in Numbers, trace_sys_enter(t, n)
      PROVE  MissedInv' /\ FoundInv' /\ CountIsCalls'
  <2>1. UNCHANGED <<syscall_counts, ended, raced, stale>> /\ loaded = "grimoire"
    BY <1>3 DEF trace_sys_enter, countVars
  <2>2. loaded' = loaded /\ StepsInv'
    BY RingTypes, StatsStep
  <2>3. \A u \in Threads : {pc[u], pc'[u]} \cap {"missed", "found"} = {}
    BY <2>1, <2>2 DEF StepsInv
  <2>. QED  BY <1>1, <2>1, <2>3
<1>4. ASSUME NEW t \in Threads,
             AfterCount(t) \/ Reserve(t) \/ Drop(t) \/ SubmitEvent(t) \/ Emitted(t)
      PROVE  MissedInv' /\ FoundInv' /\ CountIsCalls'
  <2>1. UNCHANGED <<number, syscall_counts, ended, raced, stale>>
    BY <1>4 DEF AfterCount, Reserve, Drop, SubmitEvent, Emitted, countVars
  <2>2. pc[t] \in {"counted", "admitted", "filling", "submitted"}
    BY <1>4 DEF AfterCount, Reserve, Drop, SubmitEvent, Emitted, At
  <2>3. PICK step \in {"admitted", "idle", "filling", "submitted"} : GoTo(t, step)
    BY <1>4 DEF AfterCount, Reserve, Drop, SubmitEvent, Emitted
  <2>4. pc'[t] = step /\ \A u \in Threads \ {t} : pc'[u] = pc[u]
    BY <2>3, MoveCounts DEF Steps
  <2>. QED  BY <1>1, <2>1, <2>2, <2>4
<1>. QED  BY <1>2, <1>3, <1>4, InsertStep, IncrementStep, LookupStep DEF OracleNext, Hook

LEMMA OracleStep == OracleInv /\ [OracleNext]_oracleVars => OracleInv'
<1>. SUFFICES ASSUME OracleInv, [OracleNext]_oracleVars PROVE OracleInv'
  OBVIOUS
<1>1. CASE OracleNext
  <2>1. OracleTypeOK'
    BY <1>1, OracleTypes DEF OracleInv
  <2>2. StepsInv' /\ BusyInv' /\ StatsAddUp'
    BY <1>1, StatsStep
  <2>3. MissedInv' /\ FoundInv' /\ CountIsCalls'
    BY <1>1, CountsStep
  <2>. QED  BY <2>1, <2>2, <2>3 DEF OracleInv
<1>2. CASE UNCHANGED oracleVars
  <2>1. OracleTypeOK'
    BY <1>2, OracleTypes DEF OracleInv
  <2>5. StepsInv' /\ BusyInv'
    BY <1>2 DEF oracleVars, OracleInv, StepsInv, BusyInv, BusyRecords
  <2>2. MissedInv' /\ FoundInv'
    BY <1>2 DEF oracleVars, OracleInv, MissedInv, FoundInv, Key
  <2>3. StatsAddUp'
    BY <1>2 DEF oracleVars, OracleInv, StatsAddUp, InHook, Ready
  <2>4. CountIsCalls'
    BY <1>2 DEF oracleVars, OracleInv, CountIsCalls, Full, Keys
  <2>. QED  BY <2>1, <2>2, <2>3, <2>4, <2>5 DEF OracleInv
<1>. QED  BY <1>1, <1>2

\* The variables of the hooks have their types, and the ring buffer never holds
\* more than its size (bpf_ringbuf_reserve in both programs).
THEOREM OracleTypeCorrect == OracleSpec => []OracleTypeOK
BY InitOracleTypes, OracleTypes, PTL DEF OracleSpec

\* Whatever threads run the hooks at once: a call that passed the Grimoire's
\* filter is emitted, dropped or still in the hook, the daemon has read or has
\* before it exactly the events that were submitted, and the count of a key is
\* that of the calls, unless two threads found it missing at once or the map
\* was full, and above them only where a second key raced (trace_sys_enter,
\* trace_syscall_enter).
THEOREM CountersAlwaysAddUp == OracleSpec => []CountersAddUp
<1>1. OracleInv => CountersAddUp
  BY DEF OracleInv, CountersAddUp
<1>. QED  BY <1>1, InitOracleInv, OracleStep, PTL DEF OracleSpec
=============================================================================
