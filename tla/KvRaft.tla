------------------------------- MODULE KvRaft -------------------------------
(***************************************************************************)
(* The consensus node of distributed_kv (src/raft.zig): RaftNode, driven   *)
(* by tick(), by the four RPC handlers and by submit().  Every entry point *)
(* takes the node's mutex for its whole body, so each is one action.       *)
(*                                                                         *)
(* The node talks through the Transport interface, which it calls and      *)
(* forgets; requests and responses are modelled by the set of all messages *)
(* ever sent, any of which may be handed to its target at any time: lost,  *)
(* late, reordered and repeated deliveries are all covered.  Time is       *)
(* abstracted: a timeout may fire whenever its branch of tick() is open.   *)
(* Nodes do not restart and allocations succeed; no write-ahead log is     *)
(* attached (wal_writer == null).                                          *)
(***************************************************************************)
EXTENDS Naturals, Sequences, FiniteSets

CONSTANTS
  Node,              \* config.nodes, the same fixed list on every node
  Command,           \* client commands, opaque to the consensus code
  Noop,              \* the entry a new leader appends
  Payload,           \* what an entry may hold
  Nil,               \* a null voted_for
  MaxEntriesPerRpc,  \* MAX_ENTRIES_PER_RPC, 100 in the code
  ElectionTimers,    \* bound: pairs of a node and a term it may stand in
  Tickers,           \* bound: the nodes whose tick thread gets to run
  MaxStaleness,      \* bound: terms a message delivered may lag behind its target
  MaxLogLength,      \* bound: no submit when the log is this long
  ApplyFailers       \* bound: the nodes on which apply may return an error

ASSUME KvRaftAssumption ==
  /\ IsFiniteSet(Node) /\ Node # {}
  /\ Cardinality(Node) <= 16  \* the array advanceCommitIndex sorts
  /\ Nil \notin Node
  /\ Noop \notin Command
  /\ Command \union {Noop} \subseteq Payload
  /\ MaxEntriesPerRpc \in Nat \ {0}
  /\ ElectionTimers \subseteq Node \X Nat
  /\ Tickers \subseteq Node
  /\ MaxStaleness \in Nat
  /\ MaxLogLength \in Nat
  /\ ApplyFailers \subseteq Node

VARIABLES
  current_term, voted_for, log,      \* "persistent" state of RaftNode
  state, commit_index, last_applied, \* volatile state of RaftNode
  peer_states,                       \* per-peer replication state
  panicked,                          \* nodes stopped by a failed bounds check
  applied,                           \* history: entries the state machine took
  msgs                               \* every RPC message ever sent

nodeVars == <<current_term, voted_for, log, state, commit_index, peer_states>>
applyVars == <<last_applied, applied, panicked>>
vars == <<nodeVars, applyVars, msgs>>

-----------------------------------------------------------------------------
(* Types. *)

State == {"follower", "candidate", "leader"}

LogEntry == [term : Nat, index : Nat, command : Payload]

\* A peer absent from the peer_states map has known = FALSE.
PeerState == [known : BOOLEAN, next_index : Nat, match_index : Nat, vote_granted : BOOLEAN]
NoPeer == [known |-> FALSE, next_index |-> 0, match_index |-> 0, vote_granted |-> FALSE]

RequestVoteRequest ==
  [type : {"RequestVote"}, from : Node, to : Node, term : Nat,
   last_log_index : Nat, last_log_term : Nat]

RequestVoteResponse ==
  [type : {"RequestVoteResponse"}, from : Node, to : Node, term : Nat, vote_granted : BOOLEAN]

AppendEntriesRequest ==
  [type : {"AppendEntries"}, from : Node, to : Node, term : Nat, prev_log_index : Nat,
   prev_log_term : Nat, entries : Seq(LogEntry), leader_commit : Nat]

AppendEntriesResponse ==
  [type : {"AppendEntriesResponse"}, from : Node, to : Node, term : Nat, success : BOOLEAN,
   conflict_index : Nat, conflict_term : Nat]

Message ==
  RequestVoteRequest \union RequestVoteResponse
    \union AppendEntriesRequest \union AppendEntriesResponse

-----------------------------------------------------------------------------
(* Helpers on logs and configurations. *)

least(a, b) == IF a <= b THEN a ELSE b
most(a, b) == IF a >= b THEN a ELSE b

quorumSize == Cardinality(Node) \div 2 + 1

getTermAt(l, index) == IF index \in 1..Len(l) THEN l[index].term ELSE 0

getLastLogTerm(l) == getTermAt(l, Len(l))

\* appendEntry: the index is the new position, the term the leader's own.
appendEntry(l, term, command) ==
  Append(l, [term |-> term, index |-> Len(l) + 1, command |-> command])

\* Vote responses of the current candidacy that name a configured node.
votes(peers) == {p \in Node : peers[p].known /\ peers[p].vote_granted}

-----------------------------------------------------------------------------
(* Messages a node sends. *)

requestVotes(n, term) ==
  {[type |-> "RequestVote", from |-> n, to |-> p, term |-> term,
    last_log_index |-> Len(log[n]), last_log_term |-> getLastLogTerm(log[n])]
     : p \in Node \ {n}}

\* The slice of the log a heartbeat carries to one peer.
entriesFrom(l, next) ==
  IF next \in 1..Len(l) THEN SubSeq(l, next, least(next + MaxEntriesPerRpc - 1, Len(l))) ELSE <<>>

\* sendHeartbeats: one AppendEntries for every other node with a peer state.
heartbeats(n, term, l, peers) ==
  {[type |-> "AppendEntries", from |-> n, to |-> p, term |-> term,
    prev_log_index |-> most(peers[p].next_index, 1) - 1,
    prev_log_term |-> getTermAt(l, most(peers[p].next_index, 1) - 1),
    entries |-> entriesFrom(l, peers[p].next_index),
    leader_commit |-> commit_index[n]]
     : p \in {q \in Node \ {n} : peers[q].known}}

-----------------------------------------------------------------------------
(* State changes shared by several handlers. *)

\* becomeLeader: peer states are rebuilt from the log as it was before the
\* noop, the noop is appended and the first heartbeats carry it.
freshPeers(l) ==
  [p \in Node |-> [known |-> TRUE, next_index |-> Len(l) + 1,
                   match_index |-> 0, vote_granted |-> FALSE]]

becomeLeader(n, term) ==
  LET l == appendEntry(log[n], term, Noop)
      peers == freshPeers(log[n])
  IN  /\ state' = [state EXCEPT ![n] = "leader"]
      /\ peer_states' = [peer_states EXCEPT ![n] = peers]
      /\ log' = [log EXCEPT ![n] = l]
      /\ msgs' = msgs \union heartbeats(n, term, l, peers)

\* stepDown, also taken within a term: the vote is forgotten either way.
stepDown(n, term) ==
  /\ current_term' = [current_term EXCEPT ![n] = term]
  /\ state' = [state EXCEPT ![n] = "follower"]
  /\ voted_for' = [voted_for EXCEPT ![n] = Nil]

\* startElection.  A node that was never a leader has no peer state of its
\* own, so its vote for itself is not recorded there.
startElection(n) ==
  LET term == current_term[n] + 1
      peers == [p \in Node |->
                  [peer_states[n][p] EXCEPT !.vote_granted = (p = n /\ peer_states[n][n].known)]]
  IN  /\ state[n] \in {"follower", "candidate"}
      /\ <<n, term>> \in ElectionTimers
      /\ current_term' = [current_term EXCEPT ![n] = term]
      /\ voted_for' = [voted_for EXCEPT ![n] = n]
      /\ \/ /\ Cardinality(Node) = 1
            /\ becomeLeader(n, term)
         \/ /\ Cardinality(Node) # 1
            /\ state' = [state EXCEPT ![n] = "candidate"]
            /\ peer_states' = [peer_states EXCEPT ![n] = peers]
            /\ msgs' = msgs \union requestVotes(n, term)
            /\ UNCHANGED log
      /\ UNCHANGED commit_index

\* The leader's branch of tick.
sendHeartbeats(n) ==
  /\ state[n] = "leader"
  /\ msgs' = msgs \union heartbeats(n, current_term[n], log[n], peer_states[n])
  /\ UNCHANGED nodeVars

-----------------------------------------------------------------------------
(* tick(): the branch for the node's state, then applyCommitted. *)

\* applyCommitted.  last_applied moves before the entry is read and applied:
\* an apply error ends the tick with the entry skipped, and a commit index
\* beyond the log stops the process at the bounds check.
applyCommitted(n) ==
  LET todo == (last_applied[n] + 1)..commit_index[n]
      inLog == todo \intersect (1..Len(log[n]))
      take(ks) == applied' = [applied EXCEPT ![n] = @ \union {log[n][k] : k \in ks}]
  IN  \/ /\ todo = {}
         /\ UNCHANGED applyVars
      \/ /\ todo # {}
         /\ last_applied' = [last_applied EXCEPT ![n] =
              IF inLog = todo THEN commit_index[n] ELSE most(@, Len(log[n])) + 1]
         /\ panicked' = IF inLog = todo THEN panicked ELSE panicked \union {n}
         /\ take(inLog)
      \/ \E k \in inLog :
           /\ n \in ApplyFailers
           /\ last_applied' = [last_applied EXCEPT ![n] = k]
           /\ take({j \in inLog : j < k})
           /\ UNCHANGED panicked

\* A tick that finds no timeout expired only applies.
noTimeout(n) == UNCHANGED <<nodeVars, msgs>>

Tick(n) ==
  /\ n \in Tickers \ panicked
  /\ startElection(n) \/ sendHeartbeats(n) \/ noTimeout(n)
  /\ applyCommitted(n)

-----------------------------------------------------------------------------
(* The RPC handlers, each for the message m delivered to m.to. *)

reaches(m, type) ==
  /\ m.type = type
  /\ m.to \notin panicked
  /\ m.term + MaxStaleness >= current_term[m.to]

\* A node votes once, or again for the same candidate ...
can_voteAgain(vote, candidate) == TRUE          \* mutant: voted_for ignored
can_vote(vote, candidate) == vote \in {Nil, candidate}

\* ... if the candidate's log is at least as up to date as its own.
log_okAlways(l, m) == TRUE                       \* mutant: logs not compared
log_ok(l, m) ==
  \/ m.last_log_term > getLastLogTerm(l)
  \/ m.last_log_term = getLastLogTerm(l) /\ m.last_log_index >= Len(l)

\* The vote the request meets: a newer term has none yet.
voteAtLoose(n, term) == IF term >= current_term[n] THEN Nil ELSE voted_for[n]  \* mutant
voteAt(n, term) == IF term > current_term[n] THEN Nil ELSE voted_for[n]

\* The answer to a request for a vote.
grants(m) ==
  /\ m.term >= current_term[m.to]
  /\ can_vote(voteAt(m.to, m.term), m.from)
  /\ log_ok(log[m.to], m)

\* handleRequestVote.  A newer term resets the vote first; the response
\* carries the term after that.
HandleRequestVote(m) ==
  LET n == m.to
      vote == voteAt(n, m.term)
      granted == grants(m)
  IN  /\ reaches(m, "RequestVote")
      /\ current_term' = [current_term EXCEPT ![n] = most(@, m.term)]
      /\ state' = [state EXCEPT ![n] = IF m.term > current_term[n] THEN "follower" ELSE @]
      /\ voted_for' = [voted_for EXCEPT ![n] = IF granted THEN m.from ELSE vote]
      /\ msgs' = msgs \union
           {[type |-> "RequestVoteResponse", from |-> n, to |-> m.from,
             term |-> most(current_term[n], m.term), vote_granted |-> granted]}
      /\ UNCHANGED <<log, commit_index, peer_states, applyVars>>

\* handleRequestVoteResponse.  A refusal, and a response for another term or
\* to a node that is no candidate, change nothing unless the term is newer.
HandleRequestVoteResponse(m) ==
  LET n == m.to
      current == state[n] = "candidate" /\ m.term = current_term[n]
      peers == [peer_states[n] EXCEPT ![m.from] =
                  IF @.known THEN [@ EXCEPT !.vote_granted = TRUE]
                  ELSE [known |-> TRUE, next_index |-> 1, match_index |-> 0,
                        vote_granted |-> TRUE]]
  IN  /\ reaches(m, "RequestVoteResponse")
      /\ \/ /\ ~current /\ m.term > current_term[n]
            /\ stepDown(n, m.term)
            /\ UNCHANGED <<log, peer_states, msgs>>
         \/ /\ current /\ m.vote_granted
            /\ Cardinality(votes(peers)) < quorumSize
            /\ peer_states' = [peer_states EXCEPT ![n] = peers]
            /\ UNCHANGED <<current_term, voted_for, log, state, msgs>>
         \/ /\ current /\ m.vote_granted
            /\ Cardinality(votes(peers)) >= quorumSize
            /\ becomeLeader(n, current_term[n])
            /\ UNCHANGED <<current_term, voted_for>>
      /\ UNCHANGED <<commit_index, applyVars>>

\* The consistency check's answer when the terms at prev_log_index differ:
\* the first index of the run of entries with the conflicting term.
firstOfRun(l, index) ==
  LET run == {i \in 1..index : \A j \in i..index : getTermAt(l, j) = getTermAt(l, index)}
  IN  index + 1 - Cardinality(run)

\* The append loop: entries already present are kept, the first one whose
\* term differs cuts the log there, the rest of the batch is appended.
\* mutant: entries in conflict stay
mergeKeepStale(l, prev, entries) == l \o SubSeq(entries, Len(l) - prev + 1, Len(entries))
mergeAtEnd(l, prev, entries) == l \o entries    \* mutant: no check for present entries
merge(l, prev, entries) ==
  LET last == prev + Len(entries)
      agreeTo(j) == \A i \in (prev + 1)..j : i <= Len(l) /\ l[i].term = entries[i - prev].term
  IN  IF agreeTo(last) THEN l
      ELSE [j \in 1..last |-> IF agreeTo(j) THEN l[j] ELSE entries[j - prev]]

\* The node follows the sender; it keeps its vote only if it was a follower of
\* this very term.
mustStepDown(n, term) == state[n] # "follower" \/ term > current_term[n]

\* The entry before the batch is present with another term.
mismatch(l, m) ==
  m.prev_log_index \in 1..Len(l) /\ getTermAt(l, m.prev_log_index) # m.prev_log_term

\* A batch gets as far as the append loop: m is not of an older term, and the
\* entry before the batch is there, with the term the leader has for it.
accepts(m) ==
  /\ m.term >= current_term[m.to]
  /\ m.prev_log_index <= Len(log[m.to])
  /\ ~mismatch(log[m.to], m)

\* handleAppendEntries.  A leader or candidate steps down for an equal term
\* too, and thereby forgets its vote of that term.
HandleAppendEntries(m) ==
  LET n == m.to
      tooShort == m.prev_log_index > Len(log[n])
      reply(term, success, conflict_index, conflict_term) ==
        msgs' = msgs \union
          {[type |-> "AppendEntriesResponse", from |-> n, to |-> m.from, term |-> term,
            success |-> success, conflict_index |-> conflict_index,
            conflict_term |-> conflict_term]}
  IN  /\ reaches(m, "AppendEntries")
      /\ \/ /\ m.term < current_term[n]
            /\ reply(current_term[n], FALSE, 0, 0)
            /\ UNCHANGED nodeVars
         \/ /\ m.term >= current_term[n]
            /\ IF mustStepDown(n, m.term)
               THEN stepDown(n, m.term) ELSE UNCHANGED <<current_term, state, voted_for>>
            /\ \/ /\ tooShort
                  /\ reply(m.term, FALSE, Len(log[n]) + 1, 0)
                  /\ UNCHANGED <<log, commit_index>>
               \/ /\ mismatch(log[n], m)
                  /\ reply(m.term, FALSE, firstOfRun(log[n], m.prev_log_index),
                           getTermAt(log[n], m.prev_log_index))
                  /\ UNCHANGED <<log, commit_index>>
               \/ /\ ~tooShort /\ ~mismatch(log[n], m)
                  /\ log' = [log EXCEPT ![n] = merge(@, m.prev_log_index, m.entries)]
                  /\ commit_index' = [commit_index EXCEPT ![n] =
                       IF m.leader_commit > @ THEN least(m.leader_commit, Len(log'[n])) ELSE @]
                  /\ reply(m.term, TRUE, 0, 0)
            /\ UNCHANGED peer_states
      /\ UNCHANGED applyVars

\* advanceCommitIndex.  The index replicated on a majority is the entry at
\* count - quorumSize of the sorted match indices, the node's own being the end
\* of its log; it is committed if it is new and of the current term.
advanceCommitIndex(n, peers) ==
  LET replicated == [p \in Node |-> IF p = n THEN Len(log[n]) ELSE peers[p].match_index]
      onMajority(index) == Cardinality({p \in Node : replicated[p] >= index}) >= quorumSize
      new_commit == {index \in {replicated[p] : p \in Node} :
        /\ onMajority(index)
        /\ \A p \in Node : onMajority(replicated[p]) => replicated[p] <= index
        /\ index > commit_index[n]
        /\ getTermAt(log[n], index) = current_term[n]}
  IN  IF new_commit = {} THEN commit_index[n] ELSE CHOOSE index \in new_commit : TRUE

\* Where the leader resumes after a rejection: behind its own last entry of
\* the conflicting term, else at the index the peer named.
backtrack(l, conflict_index, conflict_term) ==
  LET last == {i \in 1..Len(l) :
                 /\ getTermAt(l, i) = conflict_term
                 /\ \A j \in (i + 1)..Len(l) : getTermAt(l, j) > conflict_term}
  IN  IF conflict_term > 0 /\ last # {} THEN (CHOOSE i \in last : TRUE) + 1 ELSE conflict_index

\* The match index a success is taken to prove: a full batch behind next_index.
new_matchUncapped(peer, last) == peer.next_index - 1 + MaxEntriesPerRpc  \* mutant
new_match(peer, last) == most(peer.match_index, least(peer.next_index - 1 + MaxEntriesPerRpc, last))

\* handleAppendEntriesResponse.  A success is credited with a full batch
\* behind next_index, whatever the acknowledged request carried.
HandleAppendEntriesResponse(m) ==
  LET n == m.to
      peer == peer_states[n][m.from]
      match == new_match(peer, Len(log[n]))
      credited == [peer_states[n] EXCEPT ![m.from].match_index = match,
                                         ![m.from].next_index = match + 1]
  IN  /\ reaches(m, "AppendEntriesResponse")
      /\ state[n] = "leader"
      /\ \/ /\ m.term > current_term[n]
            /\ stepDown(n, m.term)
            /\ UNCHANGED <<commit_index, peer_states>>
         \/ /\ m.term = current_term[n] /\ peer.known /\ m.success
            /\ peer_states' = [peer_states EXCEPT ![n] = credited]
            /\ commit_index' = [commit_index EXCEPT ![n] = advanceCommitIndex(n, credited)]
            /\ UNCHANGED <<current_term, state, voted_for>>
         \/ /\ m.term = current_term[n] /\ peer.known /\ ~m.success
            /\ peer_states' = [peer_states EXCEPT ![n][m.from].next_index =
                 most(1, backtrack(log[n], m.conflict_index, m.conflict_term))]
            /\ UNCHANGED <<current_term, state, voted_for, commit_index>>
      /\ UNCHANGED <<log, msgs, applyVars>>

-----------------------------------------------------------------------------
(* The client interface, the specification. *)

\* submit, on the leader only; the entry travels with the next heartbeat.
Submit(n, command) ==
  /\ n \notin panicked
  /\ state[n] = "leader"
  /\ Len(log[n]) < MaxLogLength
  /\ log' = [log EXCEPT ![n] = appendEntry(@, current_term[n], command)]
  /\ UNCHANGED <<current_term, voted_for, state, commit_index, peer_states, applyVars, msgs>>

Init ==
  /\ current_term = [n \in Node |-> 0]
  /\ voted_for = [n \in Node |-> Nil]
  /\ log = [n \in Node |-> <<>>]
  /\ state = [n \in Node |-> "follower"]
  /\ commit_index = [n \in Node |-> 0]
  /\ last_applied = [n \in Node |-> 0]
  /\ peer_states = [n \in Node |-> [p \in Node |-> NoPeer]]
  /\ panicked = {}
  /\ applied = [n \in Node |-> {}]
  /\ msgs = {}

Next ==
  \/ \E n \in Node : Tick(n)
  \/ \E n \in Node, command \in Command : Submit(n, command)
  \/ \E m \in msgs : HandleRequestVote(m)
  \/ \E m \in msgs : HandleRequestVoteResponse(m)
  \/ \E m \in msgs : HandleAppendEntries(m)
  \/ \E m \in msgs : HandleAppendEntriesResponse(m)

Spec == Init /\ [][Next]_vars

-----------------------------------------------------------------------------
(* Properties. *)

\* Every variable has the type its field has in the source.
TypeOK ==
  /\ current_term \in [Node -> Nat]
  /\ voted_for \in [Node -> Node \union {Nil}]
  /\ log \in [Node -> Seq(LogEntry)]
  /\ state \in [Node -> State]
  /\ commit_index \in [Node -> Nat]
  /\ last_applied \in [Node -> Nat]
  /\ peer_states \in [Node -> [Node -> PeerState]]
  /\ panicked \subseteq Node
  /\ applied \in [Node -> SUBSET LogEntry]
  /\ msgs \subseteq Message

\* A term has at most one leader, though an equal-term AppendEntries makes a
\* candidate forget the vote it cast for itself and vote again in that term.
ElectionSafety ==
  \A n1, n2 \in Node :
    (state[n1] = "leader" /\ state[n2] = "leader" /\ current_term[n1] = current_term[n2])
      => n1 = n2

\* Two logs that agree on the term at an index agree on every entry up to it,
\* whatever batches were repeated, reordered or cut the logs back.
LogMatching ==
  \A n1, n2 \in Node :
    \A i \in 1..least(Len(log[n1]), Len(log[n2])) :
      log[n1][i].term = log[n2][i].term => SubSeq(log[n1], 1, i) = SubSeq(log[n2], 1, i)

\* The node that answers votes for two candidates of one term does so only
\* when that term already has an elected leader: the second vote elects nobody.
DoubleVoteOnlyAfterElection ==
  \A m1, m2 \in msgs :
    ( /\ m1.type = "RequestVoteResponse" /\ m1.vote_granted
      /\ m2.type = "RequestVoteResponse" /\ m2.vote_granted
      /\ m1.from = m2.from /\ m1.term = m2.term /\ m1.to # m2.to)
      => \E m \in msgs : m.type = "AppendEntries" /\ m.term = m1.term

\* A leader's replication indices stay within its log whatever order, or
\* however often, the responses arrive: the slice a heartbeat takes exists.
ReplicationIndicesInLog ==
  \A n, p \in Node :
    (state[n] = "leader" /\ p # n) =>
      /\ peer_states[n][p].next_index \in 1..(Len(log[n]) + 1)
      /\ peer_states[n][p].match_index \in 0..Len(log[n])

\* While a node leads, it holds every entry of its term that is in any log.
EntriesOfTermAtLeader ==
  \A l, n \in Node : \A i \in 1..Len(log[n]) :
    (state[l] = "leader" /\ log[n][i].term = current_term[l])
      => i <= Len(log[l]) /\ log[l][i] = log[n][i]

\* No two replicas ever apply different entries at one index.
StateMachineSafety ==
  \A n1, n2 \in Node : \A e1 \in applied[n1], e2 \in applied[n2] :
    e1.index = e2.index => e1 = e2

\* An entry some leader committed is in the log of every later leader.
LeaderCompleteness ==
  \A n, l \in Node : \A i \in 1..least(commit_index[n], Len(log[n])) :
    (state[l] = "leader" /\ current_term[l] > current_term[n])
      => i <= Len(log[l]) /\ log[l][i] = log[n][i]

\* A follower keeps, within a term, the vote it gave.
FollowerKeepsVote ==
  [][\A n \in Node :
       ( /\ state[n] = "follower" /\ voted_for[n] # Nil
         /\ current_term'[n] = current_term[n])
         => voted_for'[n] = voted_for[n]]_vars
=============================================================================
