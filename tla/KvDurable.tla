------------------------------ MODULE KvDurable ------------------------------
(***************************************************************************)
(* The consensus node of distributed_kv with its write-ahead log attached  *)
(* (lib.zig, wal.zig): which handler writes which records, what a process  *)
(* crash leaves behind, and what start() makes of it.                      *)
(*                                                                         *)
(* A handler writes its records under the mutex before it answers, so they *)
(* belong to the handler's action; a crash between a record and the answer *)
(* is that action with a message nobody gets.  A crash ends the process    *)
(* and not the machine: written bytes survive (nothing ever calls sync()), *)
(* but a batch may be half recorded, and the record being written may be   *)
(* left half there.  Writes that return do not fail.                       *)
(***************************************************************************)
EXTENDS KvRaft

CONSTANTS
  Freed,       \* the data of a recovered entry, freed when start() returns
  Crashers,    \* bound: the nodes whose process may crash
  MaxCrashes   \* bound: process crashes in a behaviour

ASSUME DurableAssumption ==
  /\ Freed \in Payload \ (Command \union {Noop})
  /\ Crashers \subseteq Node
  /\ MaxCrashes \in Nat

VARIABLES
  wal,      \* what recover() reads back: the last vote record, every entry record
  torn,     \* nodes whose last segment ends in a half-written record
  crashes,  \* history: how many crashes so far
  cut,      \* history: nodes that once cut their log back
  misread   \* history: nodes that started again after they had cut

walVars == <<wal, torn, crashes, cut, misread>>
durableVars == <<vars, walVars>>

-----------------------------------------------------------------------------
(* What the handlers write. *)

\* The records of node n become w; those in cutting have run truncateLog, which
\* writes nothing.
Writes(n, w, cutting) ==
  /\ wal' = [wal EXCEPT ![n] = w]
  /\ cut' = cut \union cutting
  /\ UNCHANGED <<torn, crashes, misread>>

WritesNothing == UNCHANGED walVars

writeVote(w, term, candidate) == [w EXCEPT !.term = term, !.voted_for = candidate]
writeEntries(w, entries) == [w EXCEPT !.entries = @ \o entries]

\* appendEntry's record: an entry at the end of the log.
entryRecord(n, term, command) ==
  <<[term |-> term, index |-> Len(log[n]) + 1, command |-> command]>>

\* startElection records the node's vote for itself; alone, it leads at once.
electionRecords(n) ==
  LET voted == writeVote(wal[n], current_term[n] + 1, n)
  IN  IF Cardinality(Node) = 1
      THEN writeEntries(voted, entryRecord(n, current_term[n] + 1, Noop)) ELSE voted

\* handleRequestVote records a vote it grants.
grantRecordsNone(m) == wal[m.to]               \* mutant: a granted vote is not written
grantRecords(m) == IF grants(m) THEN writeVote(wal[m.to], m.term, m.from) ELSE wal[m.to]

\* handleRequestVoteResponse: the noop, if the vote makes the node the leader.
victoryRecords(m) ==
  IF state[m.to] = "candidate" /\ state'[m.to] = "leader"
  THEN writeEntries(wal[m.to], entryRecord(m.to, current_term[m.to], Noop)) ELSE wal[m.to]

\* How many entries of the batch the append loop of handleAppendEntries passes
\* over, because the log has them ...
present(l, m) ==
  Cardinality({j \in 1..Len(m.entries) : \A i \in 1..j :
    /\ m.prev_log_index + i <= Len(l)
    /\ l[m.prev_log_index + i].term = m.entries[i].term})

\* ... and those it appends, each with its record (appendEntryDirect).  The first
\* may take the place of an entry, and of all that follow it, by truncateLog.
appendedWhole(m) == IF accepts(m) THEN m.entries ELSE <<>>     \* mutant: recorded at receipt
appended(m) ==
  IF accepts(m)
  THEN SubSeq(m.entries, present(log[m.to], m) + 1, Len(m.entries)) ELSE <<>>
cuts(m) ==
  IF appended(m) # <<>> /\ m.prev_log_index + present(log[m.to], m) < Len(log[m.to])
  THEN {m.to} ELSE {}

-----------------------------------------------------------------------------
(* The handlers of KvRaft with what they write. *)

DurableTick(n) ==
  /\ n \in Tickers \ panicked
  /\ \/ startElection(n) /\ Writes(n, electionRecords(n), {})
     \/ (sendHeartbeats(n) \/ noTimeout(n)) /\ WritesNothing
  /\ applyCommitted(n)

DurableSubmit(n, command) ==
  /\ Submit(n, command)
  /\ Writes(n, writeEntries(wal[n], entryRecord(n, current_term[n], command)), {})

DurableRequestVote(m) == HandleRequestVote(m) /\ Writes(m.to, grantRecords(m), {})

DurableRequestVoteResponse(m) ==
  HandleRequestVoteResponse(m) /\ Writes(m.to, victoryRecords(m), {})

DurableAppendEntries(m) ==
  HandleAppendEntries(m) /\ Writes(m.to, writeEntries(wal[m.to], appended(m)), cuts(m))

DurableAppendEntriesResponse(m) == HandleAppendEntriesResponse(m) /\ WritesNothing

-----------------------------------------------------------------------------
(* Crash and restart. *)

\* The process of n ends, the record it was writing half there or not at all.
ends(n) ==
  /\ n \in Crashers \ panicked
  /\ crashes < MaxCrashes
  /\ crashes' = crashes + 1
  /\ panicked' = panicked \union {n}
  /\ torn' \in {torn, torn \union {n}}
  /\ UNCHANGED <<current_term, voted_for, state, commit_index, peer_states, last_applied,
                 applied, msgs, misread>>

Crash(n) == ends(n) /\ UNCHANGED <<log, wal, cut>>

\* It ends inside the append loop, k entries of the batch done with.
CrashAppending(m, k) ==
  LET n == m.to
      done == [m EXCEPT !.entries = SubSeq(@, 1, k)]
  IN  /\ m.type = "AppendEntries" /\ k < Len(m.entries) /\ accepts(m)
      /\ ends(n)
      /\ log' = [log EXCEPT ![n] = merge(@, m.prev_log_index, done.entries)]
      /\ wal' = [wal EXCEPT ![n] = writeEntries(@, appended(done))]
      /\ cut' = cut \union cuts(done)

\* recover: entry records in the order they were written, whatever their index.
recovered(entry) == IF entry.command = Noop THEN entry ELSE [entry EXCEPT !.command = Freed]

\* The vote start() takes over.
voteRecovered(n) == wal[n].voted_for

\* init() and start(): the consensus state comes from the records, all else is
\* fresh.  A half-written record makes recover() fail, and start() returns
\* without an error and without a running node.
Restart(n) ==
  /\ n \in panicked \ torn
  /\ current_term' = [current_term EXCEPT ![n] = wal[n].term]
  /\ voted_for' = [voted_for EXCEPT ![n] = voteRecovered(n)]
  /\ log' = [log EXCEPT ![n] =
       [i \in 1..Len(wal[n].entries) |-> recovered(wal[n].entries[i])]]
  /\ state' = [state EXCEPT ![n] = "follower"]
  /\ commit_index' = [commit_index EXCEPT ![n] = 0]
  /\ last_applied' = [last_applied EXCEPT ![n] = 0]
  /\ peer_states' = [peer_states EXCEPT ![n] = [p \in Node |-> NoPeer]]
  /\ panicked' = panicked \ {n}
  /\ applied' = [applied EXCEPT ![n] = {}]
  /\ misread' = misread \union (cut \intersect {n})
  /\ UNCHANGED <<msgs, wal, torn, crashes, cut>>

-----------------------------------------------------------------------------

DurableInit ==
  /\ Init
  /\ wal = [n \in Node |-> [term |-> 0, voted_for |-> Nil, entries |-> <<>>]]
  /\ torn = {}
  /\ crashes = 0
  /\ cut = {}
  /\ misread = {}

DurableNext ==
  \/ \E n \in Node : DurableTick(n)
  \/ \E n \in Node, command \in Command : DurableSubmit(n, command)
  \/ \E m \in msgs : DurableRequestVote(m)
  \/ \E m \in msgs : DurableRequestVoteResponse(m)
  \/ \E m \in msgs : DurableAppendEntries(m)
  \/ \E m \in msgs : DurableAppendEntriesResponse(m)
  \/ \E n \in Node : Crash(n)
  \/ \E m \in msgs, k \in 0..(MaxEntriesPerRpc - 1) : CrashAppending(m, k)
  \/ \E n \in Node : Restart(n)

DurableSpec == DurableInit /\ [][DurableNext]_durableVars

-----------------------------------------------------------------------------
(* Properties, beside those of KvRaft. *)

\* What is left of the records for a reader that makes room at each record's
\* index and puts the entry there: the last record decides the length, and an
\* entry stands if all records after its own are of higher indices.
Replays(records, l) ==
  /\ Len(l) = IF records = <<>> THEN 0 ELSE records[Len(records)].index
  /\ \A i \in 1..Len(l) : \E k \in 1..Len(records) :
       /\ records[k].index = i /\ records[k].term = l[i].term
       /\ \A j \in (k + 1)..Len(records) : records[j].index > i

\* The reading of recover(): the k-th record is the k-th entry.
ReadsInOrder(records, l) ==
  /\ Len(records) = Len(l)
  /\ \A i \in 1..Len(l) : records[i].term = l[i].term

\* The records of every node give its log, for nodes that have cut their logs
\* too: no batch that comes twice, late or in part leaves a record too many or
\* too few.  recover() finds that log in them only as long as the node has never
\* cut; the promise ends when one that has cut starts again.
RecordsGiveLog ==
  misread = {} =>
    \A n \in Node : /\ Replays(wal[n].entries, log[n])
                     /\ n \notin cut => ReadsInOrder(wal[n].entries, log[n])
=============================================================================
