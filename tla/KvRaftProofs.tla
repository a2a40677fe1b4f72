---------------------------- MODULE KvRaftProofs ----------------------------
(***************************************************************************)
(* What holds of KvRaft for any cluster, any commands, any messages lost,  *)
(* late or repeated, and every bound: it keeps its types, a term has one   *)
(* leader at most, logs match, and what a majority accepted is in the logs *)
(* of all later leaders.  What of it still holds of KvDurable, where nodes *)
(* crash and start again from their records.  And what committing and      *)
(* applying rest on, which raft.zig provides as long as no client submits. *)
(***************************************************************************)
EXTENDS KvDurable, KvCommit, Integers, FiniteSetTheorems, SequenceTheorems, TLAPS

-----------------------------------------------------------------------------
(***************************************************************************)
(* Types.  In particular no index a handler computes leaves the natural    *)
(* numbers, where the unsigned arithmetic of the code would wrap or panic. *)
(***************************************************************************)

-----------------------------------------------------------------------------
(* What the operators on logs return. *)

LEMMA QuorumType == quorumSize \in Nat /\ Cardinality(Node) \in Nat \ {0}
<1>1. Cardinality(Node) \in Nat
  BY KvRaftAssumption, FS_CardinalityType
<1>2. Cardinality(Node) # 0
  BY KvRaftAssumption, FS_EmptySet
<1> QED BY <1>1, <1>2 DEF quorumSize

LEMMA TermType ==
  ASSUME NEW l \in Seq(LogEntry), NEW i \in Int
  PROVE  getTermAt(l, i) \in Nat
<1>1. CASE i \in 1..Len(l)
  <2>1. l[i] \in LogEntry
    BY <1>1, ElementOfSeq
  <2> QED BY <1>1, <2>1 DEF getTermAt, LogEntry
<1>2. CASE i \notin 1..Len(l)
  BY <1>2 DEF getTermAt
<1> QED BY <1>1, <1>2

LEMMA AppendEntryType ==
  ASSUME NEW l \in Seq(LogEntry), NEW t \in Nat, NEW c \in Command \union {Noop}
  PROVE  appendEntry(l, t, c) \in Seq(LogEntry)
<1>1. Len(l) + 1 \in Nat
  BY LenProperties
<1>2. [term |-> t, index |-> Len(l) + 1, command |-> c] \in LogEntry
  BY <1>1, KvRaftAssumption DEF LogEntry
<1> QED BY <1>2, AppendProperties DEF appendEntry

LEMMA EntriesFromType ==
  ASSUME NEW l \in Seq(LogEntry), NEW i \in Nat
  PROVE  entriesFrom(l, i) \in Seq(LogEntry)
<1>1. CASE i \in 1..Len(l)
  <2>1. /\ Len(l) \in Nat /\ MaxEntriesPerRpc \in Nat \ {0}
        /\ \A j \in 1..Len(l) : l[j] \in LogEntry
    BY LenProperties, ElementOfSeq, KvRaftAssumption
  <2> DEFINE last == least(i + MaxEntriesPerRpc - 1, Len(l))
  <2>2. last \in Nat /\ last <= Len(l) /\ last >= i
    BY <1>1, <2>1 DEF least
  <2>3. \A j \in i..last : l[j] \in LogEntry
    BY <1>1, <2>1, <2>2
  <2>4. SubSeq(l, i, last) \in Seq(LogEntry)
    BY <2>2, <2>3, SubSeqProperties
  <2> QED BY <1>1, <2>4 DEF entriesFrom
<1>2. CASE i \notin 1..Len(l)
  BY <1>2, EmptySeq DEF entriesFrom
<1> QED BY <1>1, <1>2

LEMMA MergeType ==
  ASSUME NEW l \in Seq(LogEntry), NEW e \in Seq(LogEntry), NEW prev \in 0..Len(l)
  PROVE  merge(l, prev, e) \in Seq(LogEntry)
<1> DEFINE last == prev + Len(e)
           agreeTo(j) == \A i \in (prev + 1)..j : i <= Len(l) /\ l[i].term = e[i - prev].term
           merged == [j \in 1..last |-> IF agreeTo(j) THEN l[j] ELSE e[j - prev]]
<1>1. Len(l) \in Nat /\ Len(e) \in Nat /\ prev \in Nat /\ last \in Nat
  BY LenProperties
<1>2. ASSUME NEW j \in 1..last PROVE (IF agreeTo(j) THEN l[j] ELSE e[j - prev]) \in LogEntry
  <2>1. CASE j <= prev
    <3>1. agreeTo(j)
      BY <1>1, <2>1
    <3>2. j \in 1..Len(l)
      BY <1>1, <2>1
    <3>3. l[j] \in LogEntry
      BY <3>2, ElementOfSeq
    <3> QED BY <3>1, <3>3
  <2>2. CASE j > prev
    <3>1. j \in (prev + 1)..j
      BY <1>1, <2>2
    <3>2. j - prev \in 1..Len(e)
      BY <1>1, <2>2
    <3>3. e[j - prev] \in LogEntry
      BY <3>2, ElementOfSeq
    <3>4. ASSUME agreeTo(j) PROVE l[j] \in LogEntry
      <4>1. j <= Len(l)
        BY <3>1, <3>4
      <4>2. j \in 1..Len(l)
        BY <4>1, <1>1
      <4> QED BY <4>2, ElementOfSeq
    <3> QED BY <3>3, <3>4
  <2> QED BY <1>1, <2>1, <2>2
<1>3. merged \in [1..last -> LogEntry]
  BY <1>2
<1>4. merged \in Seq(LogEntry)
  BY <1>1, <1>3, SeqDef
<1>5. merge(l, prev, e) = IF agreeTo(last) THEN l ELSE merged
  BY DEF merge
<1> QED BY <1>4, <1>5

LEMMA FirstOfRunType ==
  ASSUME NEW l \in Seq(LogEntry), NEW i \in 1..Len(l)
  PROVE  firstOfRun(l, i) \in Nat
<1> DEFINE run == {k \in 1..i : \A j \in k..i : getTermAt(l, j) = getTermAt(l, i)}
<1>1. i \in Nat \ {0}
  BY LenProperties
<1>2. IsFiniteSet(1..i) /\ Cardinality(1..i) = i
  BY <1>1, FS_Interval
<1>3. run \in SUBSET (1..i)
  OBVIOUS
<1>4. Cardinality(run) \in Nat /\ Cardinality(run) <= i
  BY <1>2, <1>3, FS_Subset, FS_CardinalityType
<1>5. firstOfRun(l, i) = i + 1 - Cardinality(run)
  BY DEF firstOfRun
<1> QED BY <1>1, <1>4, <1>5

LEMMA BacktrackType ==
  ASSUME NEW l \in Seq(LogEntry), NEW i \in Nat, NEW t \in Nat
  PROVE  backtrack(l, i, t) \in Nat
<1> DEFINE last == {k \in 1..Len(l) :
                      /\ getTermAt(l, k) = t
                      /\ \A j \in (k + 1)..Len(l) : getTermAt(l, j) > t}
<1>1. last # {} => (CHOOSE k \in last : TRUE) \in last
  OBVIOUS
<1>2. last # {} => (CHOOSE k \in last : TRUE) + 1 \in Nat
  BY <1>1, LenProperties
<1>3. backtrack(l, i, t) = IF t > 0 /\ last # {} THEN (CHOOSE k \in last : TRUE) + 1 ELSE i
  BY DEF backtrack
<1> QED BY <1>2, <1>3

LEMMA CommitType ==
  ASSUME TypeOK, NEW n \in Node, NEW peers \in [Node -> PeerState]
  PROVE  advanceCommitIndex(n, peers) \in Nat
<1> DEFINE replicated == [p \in Node |-> IF p = n THEN Len(log[n]) ELSE peers[p].match_index]
           onMajority(i) == Cardinality({p \in Node : replicated[p] >= i}) >= quorumSize
           new_commit == {i \in {replicated[p] : p \in Node} :
             /\ onMajority(i)
             /\ \A p \in Node : onMajority(replicated[p]) => replicated[p] <= i
             /\ i > commit_index[n]
             /\ getTermAt(log[n], i) = current_term[n]}
<1>1. Len(log[n]) \in Nat /\ commit_index[n] \in Nat
  BY LenProperties DEF TypeOK
<1>2. \A p \in Node : replicated[p] \in Nat
  BY <1>1 DEF PeerState
<1>3. \A i \in new_commit : i \in Nat
  BY <1>2
<1>4. new_commit # {} => (CHOOSE i \in new_commit : TRUE) \in Nat
  BY <1>3
<1>5. advanceCommitIndex(n, peers)
        = IF new_commit = {} THEN commit_index[n] ELSE CHOOSE i \in new_commit : TRUE
  BY DEF advanceCommitIndex
<1> QED BY <1>1, <1>4, <1>5

LEMMA FreshPeersType ==
  ASSUME NEW l \in Seq(LogEntry)
  PROVE  freshPeers(l) \in [Node -> PeerState]
BY LenProperties DEF freshPeers, PeerState

LEMMA HeartbeatsType ==
  ASSUME TypeOK, NEW n \in Node, NEW t \in Nat, NEW l \in Seq(LogEntry),
         NEW peers \in [Node -> PeerState]
  PROVE  heartbeats(n, t, l, peers) \subseteq AppendEntriesRequest
<1> SUFFICES ASSUME NEW p \in Node
             PROVE  [type |-> "AppendEntries", from |-> n, to |-> p, term |-> t,
                     prev_log_index |-> most(peers[p].next_index, 1) - 1,
                     prev_log_term |-> getTermAt(l, most(peers[p].next_index, 1) - 1),
                     entries |-> entriesFrom(l, peers[p].next_index),
                     leader_commit |-> commit_index[n]] \in AppendEntriesRequest
  BY DEF heartbeats
<1>1. peers[p].next_index \in Nat
  BY DEF PeerState
<1>2. most(peers[p].next_index, 1) - 1 \in Nat
  BY <1>1 DEF most
<1>3. getTermAt(l, most(peers[p].next_index, 1) - 1) \in Nat
  BY <1>2, TermType
<1>4. entriesFrom(l, peers[p].next_index) \in Seq(LogEntry)
  BY <1>1, EntriesFromType
<1>5. commit_index[n] \in Nat
  BY DEF TypeOK
<1> QED BY <1>2, <1>3, <1>4, <1>5 DEF AppendEntriesRequest

LEMMA RequestVotesType ==
  ASSUME TypeOK, NEW n \in Node, NEW t \in Nat
  PROVE  requestVotes(n, t) \subseteq RequestVoteRequest
<1>1. Len(log[n]) \in Nat
  BY LenProperties DEF TypeOK
<1>2. getLastLogTerm(log[n]) \in Nat
  BY <1>1, TermType DEF getLastLogTerm, TypeOK
<1> QED BY <1>1, <1>2 DEF requestVotes, RequestVoteRequest

-----------------------------------------------------------------------------
(* Type correctness. *)

LEMMA BecomeLeaderType ==
  ASSUME TypeOK, NEW n \in Node, NEW t \in Nat, becomeLeader(n, t)
  PROVE  /\ state' \in [Node -> State]
         /\ peer_states' \in [Node -> [Node -> PeerState]]
         /\ log' \in [Node -> Seq(LogEntry)]
         /\ msgs' \subseteq Message
<1>1. log[n] \in Seq(LogEntry)
  BY DEF TypeOK
<1>2. freshPeers(log[n]) \in [Node -> PeerState]
  BY <1>1, FreshPeersType
<1>3. appendEntry(log[n], t, Noop) \in Seq(LogEntry)
  BY <1>1, AppendEntryType
<1>4. heartbeats(n, t, appendEntry(log[n], t, Noop), freshPeers(log[n])) \subseteq Message
  BY <1>2, <1>3, HeartbeatsType DEF Message
<1>5. /\ state' = [state EXCEPT ![n] = "leader"]
      /\ peer_states' = [peer_states EXCEPT ![n] = freshPeers(log[n])]
      /\ log' = [log EXCEPT ![n] = appendEntry(log[n], t, Noop)]
      /\ msgs' = msgs \union heartbeats(n, t, appendEntry(log[n], t, Noop), freshPeers(log[n]))
  BY DEF becomeLeader
<1>6. "leader" \in State
  BY DEF State
<1> QED BY <1>2, <1>3, <1>4, <1>5, <1>6 DEF TypeOK

LEMMA StepDownType ==
  ASSUME TypeOK, NEW n \in Node, NEW t \in Nat, stepDown(n, t)
  PROVE  /\ current_term' \in [Node -> Nat]
         /\ state' \in [Node -> State]
         /\ voted_for' \in [Node -> Node \union {Nil}]
BY DEF TypeOK, stepDown, State

LEMMA ApplyType ==
  ASSUME TypeOK, NEW n \in Node, applyCommitted(n)
  PROVE  /\ last_applied' \in [Node -> Nat]
         /\ applied' \in [Node -> SUBSET LogEntry]
         /\ panicked' \subseteq Node
<1> DEFINE todo == (last_applied[n] + 1)..commit_index[n]
           inLog == todo \intersect (1..Len(log[n]))
           take(ks) == applied' = [applied EXCEPT ![n] = @ \union {log[n][k] : k \in ks}]
<1>1. /\ last_applied[n] \in Nat /\ commit_index[n] \in Nat /\ Len(log[n]) \in Nat
      /\ \A k \in inLog : k \in Nat /\ log[n][k] \in LogEntry
  BY LenProperties, ElementOfSeq DEF TypeOK
<1>2. ASSUME NEW ks \in SUBSET inLog, take(ks) PROVE applied' \in [Node -> SUBSET LogEntry]
  <2> DEFINE taken == applied[n] \union {log[n][k] : k \in ks}
  <2>1. taken \in SUBSET LogEntry
    BY <1>1 DEF TypeOK
  <2>2. applied' = [applied EXCEPT ![n] = taken]
    BY <1>2
  <2> HIDE DEF taken
  <2> QED BY <2>1, <2>2 DEF TypeOK
<1>3. CASE UNCHANGED applyVars
  BY <1>3 DEF applyVars, TypeOK
<1>4. CASE /\ last_applied' = [last_applied EXCEPT ![n] =
                IF inLog = todo THEN commit_index[n] ELSE most(@, Len(log[n])) + 1]
           /\ panicked' = IF inLog = todo THEN panicked ELSE panicked \union {n}
           /\ take(inLog)
  <2>1. most(last_applied[n], Len(log[n])) + 1 \in Nat
    BY <1>1 DEF most
  <2>2. last_applied' \in [Node -> Nat]
    BY <1>1, <1>4, <2>1 DEF TypeOK
  <2>3. panicked' \subseteq Node
    BY <1>4 DEF TypeOK
  <2> QED BY <1>2, <1>4, <2>2, <2>3
<1>5. ASSUME NEW k \in inLog,
             last_applied' = [last_applied EXCEPT ![n] = k],
             take({j \in inLog : j < k}), UNCHANGED panicked
      PROVE  /\ last_applied' \in [Node -> Nat]
             /\ applied' \in [Node -> SUBSET LogEntry]
             /\ panicked' \subseteq Node
  <2>1. {j \in inLog : j < k} \in SUBSET inLog
    OBVIOUS
  <2>2. applied' \in [Node -> SUBSET LogEntry]
    BY <1>2, <1>5, <2>1
  <2> QED BY <1>1, <1>5, <2>2 DEF TypeOK
<1> QED BY <1>3, <1>4, <1>5 DEF applyCommitted

LEMMA StartElectionType ==
  ASSUME TypeOK, NEW n \in Node, startElection(n)
  PROVE  /\ current_term' \in [Node -> Nat]
         /\ voted_for' \in [Node -> Node \union {Nil}]
         /\ log' \in [Node -> Seq(LogEntry)]
         /\ state' \in [Node -> State]
         /\ commit_index' \in [Node -> Nat]
         /\ peer_states' \in [Node -> [Node -> PeerState]]
         /\ msgs' \subseteq Message
<1> DEFINE term == current_term[n] + 1
           peers == [p \in Node |->
             [peer_states[n][p] EXCEPT !.vote_granted = (p = n /\ peer_states[n][n].known)]]
<1>1. term \in Nat
  BY DEF TypeOK
<1>2. /\ current_term' = [current_term EXCEPT ![n] = term]
      /\ voted_for' = [voted_for EXCEPT ![n] = n]
      /\ commit_index' = commit_index
      /\ \/ becomeLeader(n, term)
         \/ /\ state' = [state EXCEPT ![n] = "candidate"]
            /\ peer_states' = [peer_states EXCEPT ![n] = peers]
            /\ msgs' = msgs \union requestVotes(n, term)
            /\ UNCHANGED log
  BY DEF startElection
<1>3. /\ current_term' \in [Node -> Nat]
      /\ voted_for' \in [Node -> Node \union {Nil}]
      /\ commit_index' \in [Node -> Nat]
  BY <1>1, <1>2 DEF TypeOK
<1>4. CASE becomeLeader(n, term)
  BY <1>1, <1>3, <1>4, BecomeLeaderType
<1>5. CASE /\ state' = [state EXCEPT ![n] = "candidate"]
           /\ peer_states' = [peer_states EXCEPT ![n] = peers]
           /\ msgs' = msgs \union requestVotes(n, term)
           /\ UNCHANGED log
  <2>1. state' \in [Node -> State]
    BY <1>5 DEF TypeOK, State
  <2>2. ASSUME NEW p \in Node
        PROVE  [peer_states[n][p] EXCEPT !.vote_granted = (p = n /\ peer_states[n][n].known)]
                 \in PeerState
    <3>1. peer_states[n][p] \in PeerState
      BY DEF TypeOK
    <3>2. (p = n /\ peer_states[n][n].known) \in BOOLEAN
      OBVIOUS
    <3> QED BY <3>1, <3>2 DEF PeerState
  <2>3. peers \in [Node -> PeerState]
    BY <2>2
  <2>4. peer_states' \in [Node -> [Node -> PeerState]]
    BY <1>5, <2>3 DEF TypeOK
  <2>5. msgs' \subseteq Message
    BY <1>1, <1>5, RequestVotesType DEF TypeOK, Message
  <2> QED BY <1>3, <1>5, <2>1, <2>4, <2>5 DEF TypeOK
<1> QED BY <1>2, <1>4, <1>5

LEMMA TypeOKInit == Init => TypeOK
BY EmptySeq DEF Init, TypeOK, State, PeerState, NoPeer, Message

LEMMA TickType == ASSUME TypeOK, NEW n \in Node, Tick(n) PROVE TypeOK'
<1>1. /\ last_applied' \in [Node -> Nat]
      /\ applied' \in [Node -> SUBSET LogEntry]
      /\ panicked' \subseteq Node
  BY ApplyType DEF Tick
<1>2. CASE startElection(n)
  BY <1>1, <1>2, StartElectionType DEF TypeOK
<1>3. CASE sendHeartbeats(n)
  <2>1. heartbeats(n, current_term[n], log[n], peer_states[n]) \subseteq Message
    <3>1. current_term[n] \in Nat /\ log[n] \in Seq(LogEntry) /\ peer_states[n] \in [Node -> PeerState]
      BY DEF TypeOK
    <3> QED BY <3>1, HeartbeatsType DEF Message
  <2>2. msgs' \subseteq Message
    BY <1>3, <2>1 DEF sendHeartbeats, TypeOK
  <2> QED BY <1>1, <1>3, <2>2 DEF sendHeartbeats, nodeVars, TypeOK
<1>4. CASE noTimeout(n)
  BY <1>1, <1>4 DEF noTimeout, nodeVars, TypeOK
<1> QED BY <1>2, <1>3, <1>4 DEF Tick

LEMMA SubmitType ==
  ASSUME TypeOK, NEW n \in Node, NEW c \in Command, Submit(n, c) PROVE TypeOK'
<1>1. log[n] \in Seq(LogEntry) /\ current_term[n] \in Nat
  BY DEF TypeOK
<1>2. appendEntry(log[n], current_term[n], c) \in Seq(LogEntry)
  BY <1>1, AppendEntryType
<1>3. log' \in [Node -> Seq(LogEntry)]
  BY <1>2 DEF Submit, TypeOK
<1> QED BY <1>3 DEF Submit, applyVars, TypeOK

\* A message of one of the four types has the fields of that type.
LEMMA MessageFields ==
  ASSUME TypeOK, NEW m \in msgs
  PROVE  /\ m.from \in Node /\ m.to \in Node /\ m.term \in Nat
         /\ m.type = "RequestVote" => m \in RequestVoteRequest
         /\ m.type = "RequestVoteResponse" => m \in RequestVoteResponse
         /\ m.type = "AppendEntries" => m \in AppendEntriesRequest
         /\ m.type = "AppendEntriesResponse" => m \in AppendEntriesResponse
<1>1. m \in RequestVoteRequest \/ m \in RequestVoteResponse
        \/ m \in AppendEntriesRequest \/ m \in AppendEntriesResponse
  BY DEF TypeOK, Message
<1> QED BY <1>1 DEF RequestVoteRequest, RequestVoteResponse, AppendEntriesRequest,
                    AppendEntriesResponse

LEMMA HandleRequestVoteType ==
  ASSUME TypeOK, NEW m \in msgs, HandleRequestVote(m) PROVE TypeOK'
<1> DEFINE n == m.to
           granted == m.term >= current_term[n] /\ can_vote(voteAt(n, m.term), m.from)
                        /\ log_ok(log[n], m)
           answer == [type |-> "RequestVoteResponse", from |-> n, to |-> m.from,
                      term |-> most(current_term[n], m.term), vote_granted |-> granted]
<1>1. n \in Node /\ m.from \in Node /\ m.term \in Nat
  BY MessageFields
<1>2. most(current_term[n], m.term) \in Nat
  BY <1>1 DEF most, TypeOK
<1>3. voteAt(n, m.term) \in Node \union {Nil}
  BY <1>1 DEF voteAt, TypeOK
<1>4. granted \in BOOLEAN
  OBVIOUS
<1>5. answer \in RequestVoteResponse
  BY <1>1, <1>2, <1>4 DEF RequestVoteResponse
<1>6. /\ current_term' = [current_term EXCEPT ![n] = most(current_term[n], m.term)]
      /\ state' = [state EXCEPT ![n] = IF m.term > current_term[n] THEN "follower" ELSE state[n]]
      /\ voted_for' = [voted_for EXCEPT ![n] = IF granted THEN m.from ELSE voteAt(n, m.term)]
      /\ msgs' = msgs \union {answer}
      /\ UNCHANGED <<log, commit_index, peer_states, applyVars>>
  BY DEF HandleRequestVote, grants
<1> HIDE DEF granted, answer, n
<1>7. /\ current_term' \in [Node -> Nat]
      /\ state' \in [Node -> State]
      /\ voted_for' \in [Node -> Node \union {Nil}]
  BY <1>1, <1>2, <1>3, <1>6 DEF TypeOK, State
<1>8. msgs' \subseteq Message
  BY <1>5, <1>6 DEF TypeOK, Message
<1> QED BY <1>6, <1>7, <1>8 DEF TypeOK, applyVars

LEMMA HandleRequestVoteResponseType ==
  ASSUME TypeOK, NEW m \in msgs, HandleRequestVoteResponse(m) PROVE TypeOK'
<1> DEFINE n == m.to
           peers == [peer_states[n] EXCEPT ![m.from] =
                       IF @.known THEN [@ EXCEPT !.vote_granted = TRUE]
                       ELSE [known |-> TRUE, next_index |-> 1, match_index |-> 0,
                             vote_granted |-> TRUE]]
<1>1. n \in Node /\ m.from \in Node /\ m.term \in Nat /\ current_term[n] \in Nat
  BY MessageFields DEF TypeOK
<1>2. peers \in [Node -> PeerState]
  <2>1. peer_states[n] \in [Node -> PeerState]
    BY <1>1 DEF TypeOK
  <2>2. [peer_states[n][m.from] EXCEPT !.vote_granted = TRUE] \in PeerState
    BY <1>1, <2>1 DEF PeerState
  <2>3. [known |-> TRUE, next_index |-> 1, match_index |-> 0, vote_granted |-> TRUE] \in PeerState
    BY DEF PeerState
  <2> QED BY <2>1, <2>2, <2>3
<1>3. \/ /\ stepDown(n, m.term)
         /\ UNCHANGED <<log, peer_states, msgs>>
      \/ /\ peer_states' = [peer_states EXCEPT ![n] = peers]
         /\ UNCHANGED <<current_term, voted_for, log, state, msgs>>
      \/ /\ becomeLeader(n, current_term[n])
         /\ UNCHANGED <<current_term, voted_for>>
  BY DEF HandleRequestVoteResponse
<1>4. UNCHANGED <<commit_index, applyVars>>
  BY DEF HandleRequestVoteResponse
<1> HIDE DEF n, peers
<1>5. CASE stepDown(n, m.term) /\ UNCHANGED <<log, peer_states, msgs>>
  BY <1>1, <1>4, <1>5, StepDownType DEF TypeOK, applyVars
<1>6. CASE /\ peer_states' = [peer_states EXCEPT ![n] = peers]
           /\ UNCHANGED <<current_term, voted_for, log, state, msgs>>
  BY <1>1, <1>2, <1>4, <1>6 DEF TypeOK, applyVars
<1>7. CASE becomeLeader(n, current_term[n]) /\ UNCHANGED <<current_term, voted_for>>
  BY <1>1, <1>4, <1>7, BecomeLeaderType DEF TypeOK, applyVars
<1> QED BY <1>3, <1>5, <1>6, <1>7

LEMMA HandleAppendEntriesType ==
  ASSUME TypeOK, NEW m \in msgs, HandleAppendEntries(m) PROVE TypeOK'
<1> DEFINE n == m.to
           answer(term, success, index, t) ==
             [type |-> "AppendEntriesResponse", from |-> n, to |-> m.from, term |-> term,
              success |-> success, conflict_index |-> index, conflict_term |-> t]
<1>1. /\ m \in AppendEntriesRequest /\ n \in Node /\ m.from \in Node /\ m.term \in Nat
      /\ m.prev_log_index \in Nat /\ m.entries \in Seq(LogEntry) /\ m.leader_commit \in Nat
  BY MessageFields DEF HandleAppendEntries, reaches, AppendEntriesRequest
<1>2. current_term[n] \in Nat /\ log[n] \in Seq(LogEntry) /\ Len(log[n]) \in Nat
  BY <1>1, LenProperties DEF TypeOK
<1>3. ASSUME NEW term \in Nat, NEW success \in BOOLEAN, NEW i \in Nat, NEW t \in Nat,
             msgs' = msgs \union {answer(term, success, i, t)}
      PROVE  msgs' \subseteq Message
  <2>1. answer(term, success, i, t) \in AppendEntriesResponse
    BY <1>1 DEF AppendEntriesResponse
  <2> QED BY <1>3, <2>1 DEF TypeOK, Message
<1>4. applyVars' = applyVars
  BY DEF HandleAppendEntries
<1>5. CASE /\ m.term < current_term[n]
           /\ msgs' = msgs \union {answer(current_term[n], FALSE, 0, 0)}
           /\ UNCHANGED nodeVars
  <2>1. msgs' \subseteq Message
    BY <1>2, <1>3, <1>5
  <2> QED BY <1>4, <1>5, <2>1 DEF TypeOK, applyVars, nodeVars
<1> DEFINE following ==
             IF mustStepDown(n, m.term)
             THEN stepDown(n, m.term) ELSE UNCHANGED <<current_term, state, voted_for>>
<1>6. ASSUME following
      PROVE  /\ current_term' \in [Node -> Nat]
             /\ state' \in [Node -> State]
             /\ voted_for' \in [Node -> Node \union {Nil}]
  <2>1. CASE mustStepDown(n, m.term)
    BY <1>1, <1>6, <2>1, StepDownType
  <2>2. CASE ~mustStepDown(n, m.term)
    BY <1>6, <2>2 DEF TypeOK
  <2> QED BY <2>1, <2>2
<1>7. CASE /\ following
           /\ msgs' = msgs \union {answer(m.term, FALSE, Len(log[n]) + 1, 0)}
           /\ UNCHANGED <<log, commit_index, peer_states>>
  <2>1. Len(log[n]) + 1 \in Nat /\ FALSE \in BOOLEAN /\ 0 \in Nat
    BY <1>2
  <2> HIDE DEF answer
  <2>2. msgs' \subseteq Message
    BY <1>1, <1>3, <1>7, <2>1
  <2> QED BY <1>4, <1>6, <1>7, <2>2 DEF TypeOK, applyVars
<1>8. CASE /\ following
           /\ mismatch(log[n], m)
           /\ msgs' = msgs \union {answer(m.term, FALSE, firstOfRun(log[n], m.prev_log_index),
                                         getTermAt(log[n], m.prev_log_index))}
           /\ UNCHANGED <<log, commit_index, peer_states>>
  <2>1. m.prev_log_index \in 1..Len(log[n])
    BY <1>8 DEF mismatch
  <2>2. /\ firstOfRun(log[n], m.prev_log_index) \in Nat
        /\ getTermAt(log[n], m.prev_log_index) \in Nat
    <3> HIDE DEF n
    <3>1. m.prev_log_index \in Int
      BY <1>1
    <3> QED BY <1>2, <2>1, <3>1, FirstOfRunType, TermType
  <2>3. msgs' \subseteq Message
    BY <1>1, <1>3, <1>8, <2>2
  <2> QED BY <1>4, <1>6, <1>8, <2>3 DEF TypeOK, applyVars
<1>9. CASE /\ following
           /\ ~(m.prev_log_index > Len(log[n]))
           /\ log' = [log EXCEPT ![n] = merge(log[n], m.prev_log_index, m.entries)]
           /\ commit_index' = [commit_index EXCEPT ![n] =
                IF m.leader_commit > commit_index[n] THEN least(m.leader_commit, Len(log'[n]))
                ELSE commit_index[n]]
           /\ msgs' = msgs \union {answer(m.term, TRUE, 0, 0)}
           /\ UNCHANGED peer_states
  <2>1. m.prev_log_index \in 0..Len(log[n])
    BY <1>1, <1>2, <1>9
  <2>2. merge(log[n], m.prev_log_index, m.entries) \in Seq(LogEntry)
    BY <1>1, <1>2, <2>1, MergeType
  <2>3. log' \in [Node -> Seq(LogEntry)]
    BY <1>9, <2>2 DEF TypeOK
  <2>4. Len(log'[n]) \in Nat
    BY <1>1, <2>3, LenProperties
  <2>5. least(m.leader_commit, Len(log'[n])) \in Nat
    BY <1>1, <2>4 DEF least
  <2>6. commit_index' \in [Node -> Nat]
    BY <1>9, <2>5 DEF TypeOK
  <2>7. msgs' \subseteq Message
    BY <1>1, <1>3, <1>9
  <2> QED BY <1>4, <1>6, <1>9, <2>3, <2>6, <2>7 DEF TypeOK, applyVars
<1> QED BY <1>5, <1>7, <1>8, <1>9 DEF HandleAppendEntries

LEMMA HandleAppendEntriesResponseType ==
  ASSUME TypeOK, NEW m \in msgs, HandleAppendEntriesResponse(m) PROVE TypeOK'
<1> DEFINE n == m.to
           peer == peer_states[n][m.from]
           match == new_match(peer, Len(log[n]))
           credited == [peer_states[n] EXCEPT ![m.from].match_index = match,
                                              ![m.from].next_index = match + 1]
           next == most(1, backtrack(log[n], m.conflict_index, m.conflict_term))
<1>1. /\ n \in Node /\ m.from \in Node /\ m.term \in Nat
      /\ m.conflict_index \in Nat /\ m.conflict_term \in Nat
  BY MessageFields DEF HandleAppendEntriesResponse, reaches, AppendEntriesResponse
<1>2. /\ log[n] \in Seq(LogEntry) /\ Len(log[n]) \in Nat
      /\ peer_states[n] \in [Node -> PeerState] /\ peer \in PeerState
  BY <1>1, LenProperties DEF TypeOK
<1>3. match \in Nat
  <2>1. peer.next_index \in Nat /\ peer.match_index \in Nat /\ MaxEntriesPerRpc \in Nat \ {0}
    BY <1>2, KvRaftAssumption DEF PeerState
  <2> QED BY <1>2, <2>1 DEF new_match, most, least
<1>4. credited \in [Node -> PeerState]
  <2> DEFINE entry == [peer EXCEPT !.match_index = match, !.next_index = match + 1]
  <2>1. entry \in PeerState
    <3>1. match + 1 \in Nat
      BY <1>3
    <3> HIDE DEF match, peer
    <3> QED BY <1>2, <1>3, <3>1 DEF PeerState
  <2>2. credited = [peer_states[n] EXCEPT ![m.from] = entry]
    BY <1>1, <1>2 DEF PeerState
  <2> HIDE DEF entry, credited
  <2> QED BY <1>1, <1>2, <2>1, <2>2
<1>5. next \in Nat
  BY <1>1, <1>2, BacktrackType DEF most
<1>6. UNCHANGED <<log, msgs, applyVars>>
  BY DEF HandleAppendEntriesResponse
<1>7. CASE stepDown(n, m.term) /\ UNCHANGED <<commit_index, peer_states>>
  BY <1>1, <1>6, <1>7, StepDownType DEF TypeOK, applyVars
<1>8. CASE /\ peer_states' = [peer_states EXCEPT ![n] = credited]
           /\ commit_index' = [commit_index EXCEPT ![n] = advanceCommitIndex(n, credited)]
           /\ UNCHANGED <<current_term, state, voted_for>>
  <2>1. advanceCommitIndex(n, credited) \in Nat
    BY <1>1, <1>4, CommitType
  <2> HIDE DEF credited, n
  <2> QED BY <1>1, <1>4, <1>6, <1>8, <2>1 DEF TypeOK, applyVars
<1>9. CASE /\ peer_states' = [peer_states EXCEPT ![n][m.from].next_index = next]
           /\ UNCHANGED <<current_term, state, voted_for, commit_index>>
  <2>1. peer_states' \in [Node -> [Node -> PeerState]]
    <3> DEFINE entry == [peer EXCEPT !.next_index = next]
               entries == [peer_states[n] EXCEPT ![m.from] = entry]
    <3>1. entry \in PeerState
      BY <1>2, <1>5 DEF PeerState
    <3>2. peer_states' = [peer_states EXCEPT ![n] = entries]
      BY <1>9
    <3> HIDE DEF entry
    <3>3. entries \in [Node -> PeerState]
      BY <1>1, <1>2, <3>1
    <3> HIDE DEF entries, n
    <3> QED BY <1>1, <3>2, <3>3 DEF TypeOK
  <2> QED BY <1>6, <1>9, <2>1 DEF TypeOK, applyVars
<1> QED BY <1>7, <1>8, <1>9 DEF HandleAppendEntriesResponse

LEMMA TypeOKStep == TypeOK /\ [Next]_vars => TypeOK'
<1> SUFFICES ASSUME TypeOK, [Next]_vars PROVE TypeOK'
  OBVIOUS
<1>1. CASE UNCHANGED vars
  BY <1>1 DEF vars, nodeVars, applyVars, TypeOK
<1>2. CASE Next
  BY <1>2, TickType, SubmitType, HandleRequestVoteType, HandleRequestVoteResponseType,
     HandleAppendEntriesType, HandleAppendEntriesResponseType DEF Next
<1> QED BY <1>1, <1>2

\* Every field keeps its type, in every order of calls and messages: the slices
\* taken, the indices computed and the terms answered are those of real entries.
THEOREM TypeCorrect == Spec => []TypeOK
BY TypeOKInit, TypeOKStep, PTL DEF Spec

-----------------------------------------------------------------------------
(***************************************************************************)
(* Elections.  A node may vote twice in a term, since a candidate that     *)
(* hears from a leader of its term forgets its vote.  So a vote is not     *)
(* kept for ever: what holds is that nobody votes twice before somebody is *)
(* elected, and that the majority that elected a leader never votes for    *)
(* anybody else.                                                           *)
(***************************************************************************)

-----------------------------------------------------------------------------
(* The inductive invariant. *)

\* p has answered c's request in term t with its vote.
Granted(p, c, t) ==
  \E m \in msgs : /\ m.type = "RequestVoteResponse" /\ m.vote_granted
                  /\ m.from = p /\ m.to = c /\ m.term = t

\* p voted for x in term t, for nobody else, and will not while the term lasts.
\* (The leader itself may be back as a follower, after a restart.)
Loyal(p, x, t) ==
  /\ current_term[p] >= t
  /\ p # x => Granted(p, x, t)
  /\ \A c \in Node : Granted(p, c, t) => c = x
  /\ current_term[p] = t => /\ voted_for[p] = x
                            /\ state[p] # "candidate"
                            /\ p # x => state[p] = "follower"

HasLoyalMajority(x, t) ==
  \E Q \in SUBSET Node : Cardinality(Q) >= quorumSize /\ \A p \in Q : Loyal(p, x, t)

SentToOthers == \A m \in msgs : m.from # m.to

OwnVote == \A n \in Node : state[n] # "follower" => voted_for[n] = n

GrantsArePast == \A p, c \in Node, t \in Nat : Granted(p, c, t) => current_term[p] >= t

\* A candidate has not voted for anybody else in its term, and counts only
\* votes that were sent to it in this term.
CandidateInv ==
  \A n \in Node : state[n] = "candidate" =>
    /\ \A c \in Node : ~Granted(n, c, current_term[n])
    /\ \A v \in votes(peer_states[n]) : v = n \/ Granted(v, n, current_term[n])

LeaderInv ==
  \A n \in Node : state[n] = "leader" => Node = {n} \/ Elected(n, current_term[n])

\* x leads term t, or did and has moved on or restarted since.
HasLed(x, t) ==
  \/ current_term[x] > t
  \/ current_term[x] = t /\ voted_for[x] = x /\ state[x] # "candidate"

ElectedInv ==
  \A x \in Node, t \in Nat : Elected(x, t) => HasLed(x, t) /\ HasLoyalMajority(x, t)

OneVoteBeforeElection ==
  \A p, c \in Node, t \in Nat :
    (Granted(p, c, t) /\ \A x \in Node : ~Elected(x, t)) =>
      /\ \A d \in Node : Granted(p, d, t) => d = c
      /\ current_term[p] = t => voted_for[p] = c /\ state[p] = "follower"

VoteInv ==
  /\ TypeOK /\ SentToOthers /\ OwnVote /\ GrantsArePast /\ CandidateInv
  /\ LeaderInv /\ ElectedInv /\ OneVoteBeforeElection

-----------------------------------------------------------------------------
(* One leader in a term. *)

LEMMA MajoritiesMeet ==
  ASSUME NEW Q \in SUBSET Node, NEW R \in SUBSET Node,
         Cardinality(Q) >= quorumSize, Cardinality(R) >= quorumSize
  PROVE  \E p \in Node : p \in Q /\ p \in R
<1>1. /\ Cardinality(Node) \in Nat
      /\ Cardinality(Q) \in Nat /\ Cardinality(R) \in Nat
  BY KvRaftAssumption, FS_Subset, FS_CardinalityType
<1>2. Cardinality(Q) + Cardinality(R) > Cardinality(Node)
  BY <1>1 DEF quorumSize
<1>3. Q \intersect R # {}
  BY <1>2, KvRaftAssumption, FS_MajoritiesIntersect, Zenon
<1> QED BY <1>3

LEMMA ElectedOnce ==
  ASSUME ElectedInv, NEW x \in Node, NEW y \in Node, NEW t \in Nat, Elected(x, t), Elected(y, t)
  PROVE  x = y
<1>1. PICK Q \in SUBSET Node : Cardinality(Q) >= quorumSize /\ \A p \in Q : Loyal(p, x, t)
  BY DEF ElectedInv, HasLoyalMajority
<1>2. PICK R \in SUBSET Node : Cardinality(R) >= quorumSize /\ \A p \in R : Loyal(p, y, t)
  BY DEF ElectedInv, HasLoyalMajority
<1>3. PICK p \in Node : p \in Q /\ p \in R
  BY <1>1, <1>2, MajoritiesMeet
<1>4. Loyal(p, x, t) /\ Loyal(p, y, t)
  BY <1>1, <1>2, <1>3
<1> QED BY <1>4 DEF Loyal

LEMMA VoteInvElectsOne == VoteInv => ElectionSafety
<1> SUFFICES ASSUME VoteInv, NEW n1 \in Node, NEW n2 \in Node,
                    state[n1] = "leader", state[n2] = "leader", current_term[n1] = current_term[n2]
             PROVE  n1 = n2
  BY DEF ElectionSafety
<1>1. CASE Node = {n1} \/ Node = {n2}
  BY <1>1
<1>2. CASE Elected(n1, current_term[n1]) /\ Elected(n2, current_term[n2])
  BY <1>2, ElectedOnce DEF VoteInv, TypeOK
<1> QED BY <1>1, <1>2 DEF VoteInv, LeaderInv

-----------------------------------------------------------------------------
(* What the steps do to the votes and heartbeats sent. *)

GrantsKept == \A p, c \in Node, t \in Nat : Granted(p, c, t)' <=> Granted(p, c, t)

ElectionsKept == \A x \in Node, t \in Nat : Elected(x, t)' <=> Elected(x, t)

LEMMA NoGrantSent ==
  ASSUME NEW S, msgs' = msgs \union S, \A m \in S : m.type = "RequestVoteResponse" => ~m.vote_granted
  PROVE  GrantsKept
BY DEF GrantsKept, Granted

LEMMA NoHeartbeatSent ==
  ASSUME NEW S, msgs' = msgs \union S, \A m \in S : m.type # "AppendEntries"
  PROVE  ElectionsKept
BY DEF ElectionsKept, Elected

LEMMA NothingSent == msgs' = msgs => GrantsKept /\ ElectionsKept /\ (SentToOthers => SentToOthers')
BY DEF GrantsKept, Granted, ElectionsKept, Elected, SentToOthers

\* Heartbeats are addressed to others and come from their leader in its term.
LEMMA HeartbeatFields ==
  ASSUME NEW n \in Node, NEW t, NEW l, NEW peers, NEW m \in heartbeats(n, t, l, peers)
  PROVE  m.type = "AppendEntries" /\ m.from = n /\ m.to \in Node \ {n} /\ m.term = t
BY DEF heartbeats

-----------------------------------------------------------------------------
(* Steps that leave roles, terms and votes alone. *)

LEMMA LoyalMajorityKept ==
  ASSUME NEW x \in Node, NEW t \in Nat, HasLoyalMajority(x, t),
         \A p \in Node : Loyal(p, x, t) => Loyal(p, x, t)'
  PROVE  HasLoyalMajority(x, t)'
<1>1. PICK Q \in SUBSET Node : Cardinality(Q) >= quorumSize /\ \A p \in Q : Loyal(p, x, t)
  BY DEF HasLoyalMajority
<1>2. \A p \in Q : Loyal(p, x, t)'
  BY <1>1
<1>3. quorumSize' = quorumSize
  BY DEF quorumSize
<1> QED BY <1>1, <1>2, <1>3 DEF HasLoyalMajority

LEMMA QuietStep ==
  ASSUME VoteInv, TypeOK', SentToOthers', GrantsKept, ElectionsKept,
         UNCHANGED <<current_term, voted_for, state>>,
         \A n \in Node : state[n] = "candidate" =>
           \A v \in votes(peer_states'[n]) :
             v \in votes(peer_states[n]) \/ Granted(v, n, current_term[n])
  PROVE  VoteInv'
<1> USE DEF VoteInv
<1>1. \A n \in Node : current_term[n] \in Nat
  BY DEF TypeOK
<1>2. OwnVote'
  BY DEF OwnVote
<1>3. GrantsArePast'
  BY DEF GrantsArePast, GrantsKept
<1>4. CandidateInv'
  BY <1>1 DEF CandidateInv, GrantsKept, votes
<1>5. LeaderInv'
  BY <1>1 DEF LeaderInv, ElectionsKept
<1>6. ElectedInv'
  <2> SUFFICES ASSUME NEW x \in Node, NEW t \in Nat, Elected(x, t)
               PROVE  HasLed(x, t)' /\ HasLoyalMajority(x, t)'
    BY DEF ElectedInv, ElectionsKept
  <2>1. HasLed(x, t)'
    BY DEF ElectedInv, HasLed
  <2>2. \A p \in Node : Loyal(p, x, t) => Loyal(p, x, t)'
    BY DEF Loyal, GrantsKept
  <2> QED BY <2>1, <2>2, LoyalMajorityKept DEF ElectedInv
<1>7. OneVoteBeforeElection'
  BY DEF OneVoteBeforeElection, GrantsKept, ElectionsKept
<1> QED BY <1>2, <1>3, <1>4, <1>5, <1>6, <1>7

-----------------------------------------------------------------------------
(* Stepping down, for a newer term or for the leader of this one. *)

LEMMA StepDownStep ==
  ASSUME VoteInv, TypeOK', SentToOthers', GrantsKept, ElectionsKept,
         NEW n \in Node, NEW t \in Nat, stepDown(n, t),
         \/ t > current_term[n]
         \/ t = current_term[n] /\ state[n] # "follower" /\ \E y \in Node \ {n} : Elected(y, t),
         UNCHANGED peer_states
  PROVE  VoteInv'
<1> USE DEF VoteInv
<1>1. \A p \in Node : current_term[p] \in Nat /\ current_term'[p] \in Nat
  BY DEF TypeOK
<1>2. /\ current_term'[n] = t /\ state'[n] = "follower" /\ voted_for'[n] = Nil
      /\ \A p \in Node \ {n} : /\ current_term'[p] = current_term[p] /\ state'[p] = state[p]
                               /\ voted_for'[p] = voted_for[p]
  BY DEF stepDown, TypeOK
<1>3. t >= current_term[n]
  BY <1>1
<1>4. OwnVote'
  BY <1>2 DEF OwnVote
<1>5. GrantsArePast'
  <2> SUFFICES ASSUME NEW p \in Node, NEW c \in Node, NEW u \in Nat, Granted(p, c, u)
               PROVE  current_term'[p] >= u
    BY DEF GrantsArePast, GrantsKept
  <2>1. current_term[p] >= u
    BY DEF GrantsArePast
  <2>2. current_term'[p] >= current_term[p]
    BY <1>1, <1>2, <1>3
  <2> QED BY <1>1, <2>1, <2>2
<1>6. CandidateInv'
  BY <1>1, <1>2 DEF CandidateInv, GrantsKept, votes
<1>7. LeaderInv'
  BY <1>1, <1>2 DEF LeaderInv, ElectionsKept
<1>8. ASSUME NEW x \in Node, NEW u \in Nat, Elected(x, u), x = n
      PROVE  u < t
  <2>1. current_term[n] > u \/ current_term[n] = u
    BY <1>8 DEF ElectedInv, HasLed
  <2>2. CASE t > current_term[n]
    BY <1>1, <2>1, <2>2
  <2>3. CASE t = current_term[n] /\ \E y \in Node \ {n} : Elected(y, t)
    <3>1. u # t
      BY <1>8, <2>3, ElectedOnce
    <3> QED BY <1>1, <2>1, <2>3, <3>1
  <2> QED BY <2>2, <2>3
<1>9. ElectedInv'
  <2> SUFFICES ASSUME NEW x \in Node, NEW u \in Nat, Elected(x, u)
               PROVE  HasLed(x, u)' /\ HasLoyalMajority(x, u)'
    BY DEF ElectedInv, ElectionsKept
  <2>1. HasLed(x, u)'
    <3>1. CASE x = n
      BY <1>1, <1>2, <1>8, <3>1 DEF HasLed
    <3>2. CASE x # n
      BY <1>2, <3>2 DEF ElectedInv, HasLed
    <3> QED BY <3>1, <3>2
  <2>2. ASSUME NEW p \in Node, Loyal(p, x, u) PROVE Loyal(p, x, u)'
    <3>1. CASE p # n
      BY <1>2, <2>2, <3>1 DEF Loyal, GrantsKept
    <3>2. CASE p = n
      <4>1. current_term[n] >= u
        BY <2>2, <3>2 DEF Loyal
      <4>2. t # u
        <5>1. CASE t > current_term[n]
          BY <1>1, <4>1, <5>1
        <5>2. CASE t = current_term[n] /\ state[n] # "follower" /\ t = u
          <6>1. n = x
            BY <2>2, <3>2, <5>2 DEF Loyal
          <6> QED BY <1>8, <5>2, <6>1
        <5> QED BY <5>1, <5>2
      <4>3. t > u
        BY <1>1, <1>3, <4>1, <4>2
      <4> QED BY <1>1, <1>2, <2>2, <3>2, <4>3 DEF Loyal, GrantsKept
    <3> QED BY <3>1, <3>2
  <2>3. HasLoyalMajority(x, u)
    BY DEF ElectedInv
  <2> QED BY <2>1, <2>2, <2>3, LoyalMajorityKept
<1>10. OneVoteBeforeElection'
  <2> SUFFICES ASSUME NEW p \in Node, NEW c \in Node, NEW u \in Nat,
                      Granted(p, c, u), \A x \in Node : ~Elected(x, u)
               PROVE  /\ \A d \in Node : Granted(p, d, u) => d = c
                      /\ current_term'[p] = u => voted_for'[p] = c /\ state'[p] = "follower"
    BY DEF OneVoteBeforeElection, GrantsKept, ElectionsKept
  <2>1. /\ \A d \in Node : Granted(p, d, u) => d = c
        /\ current_term[p] = u => voted_for[p] = c /\ state[p] = "follower"
    BY DEF OneVoteBeforeElection
  <2>2. p = n => current_term'[p] # u
    <3>1. current_term[p] >= u
      BY DEF GrantsArePast
    <3>2. CASE t > current_term[n]
      BY <1>1, <1>2, <3>1, <3>2
    <3>3. CASE \E y \in Node \ {n} : Elected(y, t)
      BY <1>2, <3>3
    <3> QED BY <3>2, <3>3
  <2> QED BY <1>2, <2>1, <2>2
<1> QED BY <1>4, <1>5, <1>6, <1>7, <1>9, <1>10

-----------------------------------------------------------------------------
(* Standing for election: the new term has no vote and no leader of n yet. *)

LEMMA NewTermKeeps ==
  ASSUME VoteInv, GrantsKept, ElectionsKept, NEW n \in Node, NEW t \in Nat,
         t > current_term[n], current_term'[n] = t,
         \A p \in Node \ {n} : /\ current_term'[p] = current_term[p] /\ state'[p] = state[p]
                               /\ voted_for'[p] = voted_for[p]
  PROVE  GrantsArePast' /\ ElectedInv' /\ OneVoteBeforeElection'
<1> USE DEF VoteInv
<1>1. \A p \in Node : current_term[p] \in Nat
  BY DEF TypeOK
<1>2. ASSUME NEW p \in Node, NEW u \in Nat, current_term[p] >= u
      PROVE  current_term'[p] >= u /\ (p = n => current_term'[p] > u)
  BY <1>1, <1>2
<1>3. GrantsArePast'
  BY <1>2 DEF GrantsArePast, GrantsKept
<1>4. ASSUME NEW x \in Node, NEW u \in Nat, Elected(x, u)
      PROVE  HasLed(x, u)' /\ HasLoyalMajority(x, u)'
  <2>1. HasLed(x, u)
    BY <1>4 DEF ElectedInv
  <2>2. current_term[x] >= u
    BY <1>1, <2>1 DEF HasLed
  <2>3. HasLed(x, u)'
    BY <1>2, <2>1, <2>2 DEF HasLed
  <2>4. ASSUME NEW p \in Node, Loyal(p, x, u) PROVE Loyal(p, x, u)'
    <3>1. current_term'[p] >= u /\ (p = n => current_term'[p] > u)
      BY <1>2, <2>4 DEF Loyal
    <3>2. p = n => current_term'[p] # u
      BY <3>1
    <3> QED BY <2>4, <3>1, <3>2 DEF Loyal, GrantsKept
  <2>5. HasLoyalMajority(x, u)
    BY <1>4 DEF ElectedInv
  <2> QED BY <2>3, <2>4, <2>5, LoyalMajorityKept
<1>5. ElectedInv'
  BY <1>4 DEF ElectedInv, ElectionsKept
<1>6. OneVoteBeforeElection'
  <2> SUFFICES ASSUME NEW p \in Node, NEW c \in Node, NEW u \in Nat,
                      Granted(p, c, u), \A x \in Node : ~Elected(x, u)
               PROVE  /\ \A d \in Node : Granted(p, d, u) => d = c
                      /\ current_term'[p] = u => voted_for'[p] = c /\ state'[p] = "follower"
    BY DEF OneVoteBeforeElection, GrantsKept, ElectionsKept
  <2>1. p = n => current_term'[p] > u
    BY <1>2 DEF GrantsArePast
  <2>2. p = n => current_term'[p] # u
    BY <2>1
  <2> QED BY <2>2 DEF OneVoteBeforeElection
<1> QED BY <1>3, <1>5, <1>6

LEMMA StartElectionStep ==
  ASSUME VoteInv, TypeOK', NEW n \in Node, startElection(n)
  PROVE  VoteInv'
<1> USE DEF VoteInv
<1> DEFINE t == current_term[n] + 1
           peers == [p \in Node |->
             [peer_states[n][p] EXCEPT !.vote_granted = (p = n /\ peer_states[n][n].known)]]
<1>1. current_term[n] \in Nat /\ t \in Nat /\ t > current_term[n]
  BY DEF TypeOK
<1>2. /\ current_term' = [current_term EXCEPT ![n] = t]
      /\ voted_for' = [voted_for EXCEPT ![n] = n]
      /\ \/ Cardinality(Node) = 1 /\ becomeLeader(n, t)
         \/ /\ Cardinality(Node) # 1
            /\ state' = [state EXCEPT ![n] = "candidate"]
            /\ peer_states' = [peer_states EXCEPT ![n] = peers]
            /\ msgs' = msgs \union requestVotes(n, t)
  BY DEF startElection
<1>3. \A p \in Node : peers[p].vote_granted => p = n
  <2> SUFFICES ASSUME NEW p \in Node, p # n PROVE ~peers[p].vote_granted
    OBVIOUS
  <2>1. peer_states[n][p] \in PeerState
    BY DEF TypeOK
  <2> QED BY <2>1 DEF PeerState
<1> HIDE DEF t, peers
<1>4. /\ current_term'[n] = t /\ voted_for'[n] = n
      /\ \A p \in Node \ {n} : current_term'[p] = current_term[p] /\ voted_for'[p] = voted_for[p]
  BY <1>2 DEF TypeOK
<1>5. CASE Cardinality(Node) = 1 /\ becomeLeader(n, t)
  <2>1. Node = {n}
    <3>1. \E x : Node = {x}
      BY <1>5, KvRaftAssumption, FS_Singleton, Zenon
    <3> QED BY <3>1
  <2>2. msgs' = msgs
    BY <1>5, <2>1 DEF becomeLeader, heartbeats
  <2>3. GrantsKept /\ ElectionsKept /\ SentToOthers'
    BY <2>2, NothingSent
  <2>4. state'[n] = "leader"
    BY <1>5 DEF becomeLeader, TypeOK
  <2>5. GrantsArePast' /\ ElectedInv' /\ OneVoteBeforeElection'
    BY <1>1, <1>4, <2>1, <2>3, NewTermKeeps
  <2>6. OwnVote' /\ CandidateInv' /\ LeaderInv'
    BY <1>4, <2>1, <2>4 DEF OwnVote, CandidateInv, LeaderInv
  <2> QED BY <2>3, <2>5, <2>6
<1>6. CASE /\ state' = [state EXCEPT ![n] = "candidate"]
           /\ peer_states' = [peer_states EXCEPT ![n] = peers]
           /\ msgs' = msgs \union requestVotes(n, t)
  <2>1. \A m \in requestVotes(n, t) : m.type = "RequestVote" /\ m.from # m.to
    BY DEF requestVotes
  <2>2. GrantsKept /\ ElectionsKept
    BY <1>6, <2>1, NoGrantSent, NoHeartbeatSent
  <2>3. SentToOthers'
    BY <1>6, <2>1 DEF SentToOthers
  <2>4. /\ state'[n] = "candidate" /\ peer_states'[n] = peers
        /\ \A p \in Node \ {n} : state'[p] = state[p] /\ peer_states'[p] = peer_states[p]
    BY <1>6 DEF TypeOK
  <2>5. GrantsArePast' /\ ElectedInv' /\ OneVoteBeforeElection'
    BY <1>1, <1>4, <2>2, <2>4, NewTermKeeps
  <2>6. OwnVote'
    BY <1>4, <2>4 DEF OwnVote
  <2>7. \A p \in Node : current_term[p] \in Nat
    BY DEF TypeOK
  <2>8. CandidateInv'
    <3>1. \A c \in Node : ~Granted(n, c, t)
      BY <1>1 DEF GrantsArePast
    <3>2. \A v \in votes(peers) : v = n
      BY <1>3 DEF votes
    <3>3. ASSUME NEW p \in Node, state'[p] = "candidate"
          PROVE  /\ \A c \in Node : ~Granted(p, c, current_term'[p])
                 /\ \A v \in votes(peer_states'[p]) : v = p \/ Granted(v, p, current_term'[p])
      <4>1. CASE p = n
        BY <1>4, <2>4, <3>1, <3>2, <4>1
      <4>2. CASE p # n
        BY <1>4, <2>4, <3>3, <4>2 DEF CandidateInv
      <4> QED BY <4>1, <4>2
    <3>4. \A p \in Node : current_term'[p] \in Nat
      BY DEF TypeOK
    <3> QED BY <2>2, <3>3, <3>4 DEF CandidateInv, GrantsKept, votes
  <2>9. LeaderInv'
    BY <1>4, <2>2, <2>4, <2>7 DEF LeaderInv, ElectionsKept
  <2> QED BY <2>2, <2>3, <2>5, <2>6, <2>8, <2>9
<1> QED BY <1>2, <1>5, <1>6

-----------------------------------------------------------------------------
(* Being elected: the voters of n are its loyal majority from here on. *)

LEMMA ElectedStep ==
  ASSUME VoteInv, TypeOK', NEW n \in Node, NEW q \in Node \ {n}, NEW peers,
         state[n] = "candidate", Cardinality(votes(peers)) >= quorumSize,
         \A v \in votes(peers) : v = n \/ Granted(v, n, current_term[n]),
         becomeLeader(n, current_term[n]), UNCHANGED <<current_term, voted_for>>
  PROVE  VoteInv'
<1> USE DEF VoteInv
<1>1. PICK t \in Nat : t = current_term[n]
  BY DEF TypeOK
<1> DEFINE sent == heartbeats(n, t, appendEntry(log[n], t, Noop), freshPeers(log[n]))
<1>2. /\ \A p \in Node : current_term[p] \in Nat
      /\ state'[n] = "leader" /\ voted_for[n] = n
      /\ \A p \in Node \ {n} : state'[p] = state[p] /\ peer_states'[p] = peer_states[p]
      /\ msgs' = msgs \union sent
  BY <1>1 DEF TypeOK, becomeLeader, OwnVote
<1>3. \A m \in sent : /\ m.type = "AppendEntries" /\ m.from = n /\ m.to \in Node \ {n}
                      /\ m.term = t
  BY HeartbeatFields
<1>4. \E m \in sent : TRUE
  <2>1. freshPeers(log[n])[q].known
    BY DEF freshPeers
  <2> QED BY <2>1 DEF heartbeats
<1> HIDE DEF sent
<1>5. GrantsKept
  BY <1>2, <1>3, NoGrantSent
<1>6. \A x \in Node, u \in Nat : Elected(x, u)' <=> Elected(x, u) \/ (x = n /\ u = t)
  BY <1>2, <1>3, <1>4 DEF Elected
<1>7. SentToOthers'
  BY <1>2, <1>3 DEF SentToOthers
<1>8. \A c \in Node : ~Granted(n, c, t)
  BY <1>1 DEF CandidateInv
<1>9. \A y \in Node : ~Elected(y, t)
  <2> SUFFICES ASSUME NEW y \in Node, Elected(y, t) PROVE FALSE
    OBVIOUS
  <2>1. PICK Q \in SUBSET Node : Cardinality(Q) >= quorumSize /\ \A p \in Q : Loyal(p, y, t)
    BY <1>1 DEF ElectedInv, HasLoyalMajority
  <2>2. votes(peers) \in SUBSET Node
    BY DEF votes
  <2>3. PICK p \in Node : p \in Q /\ p \in votes(peers)
    BY <2>1, <2>2, MajoritiesMeet
  <2>4. Loyal(p, y, t)
    BY <2>1, <2>3
  <2>5. p # n
    BY <1>1, <2>4 DEF Loyal
  <2>6. n = y
    BY <1>1, <2>3, <2>4, <2>5 DEF Loyal
  <2> QED BY <1>2, <1>1, <2>6 DEF ElectedInv, HasLed
<1>10. OwnVote'
  BY <1>2 DEF OwnVote
<1>11. GrantsArePast'
  BY <1>5 DEF GrantsArePast, GrantsKept
<1>12. CandidateInv'
  BY <1>2, <1>5 DEF CandidateInv, GrantsKept, votes
<1>13. LeaderInv'
  BY <1>2, <1>6, <1>1 DEF LeaderInv
<1>14. HasLoyalMajority(n, t)'
  <2>1. ASSUME NEW v \in votes(peers) PROVE Loyal(v, n, t)'
    <3>1. v \in Node
      BY DEF votes
    <3>2. CASE v = n
      BY <1>2, <1>5, <1>1, <1>8, <3>1, <3>2 DEF Loyal, GrantsKept
    <3>3. CASE v # n
      <4>1. Granted(v, n, t)
        BY <1>1, <3>3
      <4>2. current_term[v] >= t
        BY <1>1, <3>1, <4>1 DEF GrantsArePast
      <4>3. /\ \A d \in Node : Granted(v, d, t) => d = n
            /\ current_term[v] = t => voted_for[v] = n /\ state[v] = "follower"
        BY <1>1, <1>9, <3>1, <4>1 DEF OneVoteBeforeElection
      <4> QED BY <1>2, <1>5, <1>1, <3>1, <3>3, <4>1, <4>2, <4>3 DEF Loyal, GrantsKept
    <3> QED BY <3>2, <3>3
  <2>2. quorumSize' = quorumSize /\ votes(peers) \in SUBSET Node
    BY DEF quorumSize, votes
  <2> QED BY <2>1, <2>2 DEF HasLoyalMajority
<1>15. ASSUME NEW x \in Node, NEW u \in Nat, Elected(x, u)
       PROVE  HasLed(x, u)' /\ HasLoyalMajority(x, u)'
  <2>1. HasLed(x, u)'
    BY <1>2, <1>15 DEF ElectedInv, HasLed
  <2>2. ASSUME NEW p \in Node, Loyal(p, x, u) PROVE Loyal(p, x, u)'
    <3>1. p = n => current_term[p] # u
      BY <2>2 DEF Loyal
    <3> QED BY <1>2, <1>5, <2>2, <3>1 DEF Loyal, GrantsKept
  <2>3. HasLoyalMajority(x, u)
    BY <1>15 DEF ElectedInv
  <2> QED BY <2>1, <2>2, <2>3, LoyalMajorityKept
<1>16. ElectedInv'
  BY <1>2, <1>6, <1>1, <1>14, <1>15 DEF ElectedInv, HasLed
<1>17. OneVoteBeforeElection'
  <2> SUFFICES ASSUME NEW p \in Node, NEW c \in Node, NEW u \in Nat,
                      Granted(p, c, u), \A x \in Node : ~Elected(x, u)
               PROVE  /\ \A d \in Node : Granted(p, d, u) => d = c
                      /\ current_term'[p] = u => voted_for'[p] = c /\ state'[p] = "follower"
    BY <1>5, <1>6 DEF OneVoteBeforeElection, GrantsKept
  <2>1. p = n => current_term[p] # u
    BY <1>1, <1>8
  <2> QED BY <1>2, <2>1 DEF OneVoteBeforeElection
<1> QED BY <1>7, <1>10, <1>11, <1>12, <1>13, <1>16, <1>17

-----------------------------------------------------------------------------
(* Voting. *)

LEMMA VoteStep ==
  ASSUME VoteInv, TypeOK', SentToOthers', ElectionsKept,
         NEW n \in Node, NEW c \in Node \ {n}, NEW t \in Nat,
         t > current_term[n] \/ (t = current_term[n] /\ voted_for[n] \in {Nil, c}),
         current_term'[n] = t, voted_for'[n] = c, state'[n] \in {"follower", state[n]},
         t > current_term[n] => state'[n] = "follower",
         \A p \in Node \ {n} : /\ current_term'[p] = current_term[p] /\ state'[p] = state[p]
                               /\ voted_for'[p] = voted_for[p],
         UNCHANGED peer_states,
         \A p, d \in Node, u \in Nat :
           Granted(p, d, u)' <=> Granted(p, d, u) \/ (p = n /\ d = c /\ u = t)
  PROVE  VoteInv'
<1> USE DEF VoteInv
<1>1. /\ \A p \in Node : current_term[p] \in Nat
      /\ t >= current_term[n]
  BY DEF TypeOK
<1>2. t = current_term[n] => state[n] = "follower"
  BY <1>1, KvRaftAssumption DEF OwnVote
<1>3. state'[n] = "follower"
  BY <1>2
<1>4. OwnVote'
  BY <1>3 DEF OwnVote
<1>5. ASSUME NEW p \in Node, NEW u \in Nat, current_term[p] >= u
      PROVE  current_term'[p] >= u /\ (p = n => u <= t /\ (current_term[n] # t => u # t))
  BY <1>1, <1>5
<1>6. GrantsArePast'
  BY <1>1, <1>5 DEF GrantsArePast
<1>7. CandidateInv'
  BY <1>1, <1>3 DEF CandidateInv, votes
<1>8. LeaderInv'
  BY <1>1, <1>3 DEF LeaderInv, ElectionsKept
<1>9. ASSUME NEW x \in Node, NEW u \in Nat, Elected(x, u)
      PROVE  HasLed(x, u)' /\ HasLoyalMajority(x, u)'
  <2>1. HasLed(x, u)
    BY <1>9 DEF ElectedInv
  <2>2. HasLed(x, u)'
    <3>1. CASE x = n
      BY <1>1, <1>3, <2>1, <3>1, KvRaftAssumption DEF HasLed
    <3>2. CASE x # n
      BY <2>1, <3>2 DEF HasLed
    <3> QED BY <3>1, <3>2
  <2>3. ASSUME NEW p \in Node, Loyal(p, x, u) PROVE Loyal(p, x, u)'
    <3>1. CASE p # n
      BY <2>3, <3>1 DEF Loyal
    <3>2. CASE p = n /\ u # t
      BY <1>5, <2>3, <3>2 DEF Loyal
    <3>3. CASE p = n /\ u = t
      <4>1. current_term[n] = t
        BY <1>5, <2>3, <3>3 DEF Loyal
      <4>2. x = c /\ n # x
        BY <1>1, <1>2, <2>3, <3>3, <4>1, KvRaftAssumption DEF Loyal
      <4> QED BY <1>3, <2>3, <3>3, <4>1, <4>2 DEF Loyal
    <3> QED BY <3>1, <3>2, <3>3
  <2>4. HasLoyalMajority(x, u)
    BY <1>9 DEF ElectedInv
  <2> QED BY <2>2, <2>3, <2>4, LoyalMajorityKept
<1>10. ElectedInv'
  BY <1>9 DEF ElectedInv, ElectionsKept
<1>11. OneVoteBeforeElection'
  <2> SUFFICES ASSUME NEW p \in Node, NEW e \in Node, NEW u \in Nat,
                      Granted(p, e, u)', \A x \in Node : ~Elected(x, u)
               PROVE  /\ \A d \in Node : Granted(p, d, u)' => d = e
                      /\ current_term'[p] = u => voted_for'[p] = e /\ state'[p] = "follower"
    BY DEF OneVoteBeforeElection, ElectionsKept
  <2>1. CASE p # n \/ u # t
    BY <2>1 DEF OneVoteBeforeElection
  <2>2. CASE p = n /\ u = t
    <3>1. ASSUME NEW d \in Node, Granted(n, d, t) PROVE d = c
      <4>1. current_term[n] = t
        BY <1>5, <3>1 DEF GrantsArePast
      <4>2. voted_for[n] = d
        BY <2>2, <3>1, <4>1 DEF OneVoteBeforeElection
      <4> QED BY <1>1, <4>1, <4>2, KvRaftAssumption
    <3> QED BY <1>3, <2>2, <3>1
  <2> QED BY <2>1, <2>2
<1> QED BY <1>4, <1>6, <1>7, <1>8, <1>10, <1>11

LEMMA HandleRequestVoteStep ==
  ASSUME VoteInv, TypeOK', NEW m \in msgs, HandleRequestVote(m)
  PROVE  VoteInv'
<1> USE DEF VoteInv
<1>1. PICK n \in Node, c \in Node, t \in Nat : c # n /\ m.to = n /\ m.from = c /\ m.term = t
  BY MessageFields DEF SentToOthers
<1> DEFINE vote == voteAt(n, t)
           granted == t >= current_term[n] /\ can_vote(vote, c) /\ log_ok(log[n], m)
           response == [type |-> "RequestVoteResponse", from |-> n, to |-> c,
                        term |-> most(current_term[n], t), vote_granted |-> granted]
<1>2. /\ current_term' = [current_term EXCEPT ![n] = most(@, t)]
      /\ state' = [state EXCEPT ![n] = IF t > current_term[n] THEN "follower" ELSE @]
      /\ voted_for' = [voted_for EXCEPT ![n] = IF granted THEN c ELSE vote]
      /\ msgs' = msgs \union {response}
      /\ UNCHANGED peer_states
  BY <1>1 DEF HandleRequestVote, grants
<1>3. \A r \in {response} :
        /\ r.type = "RequestVoteResponse" /\ r.from = n /\ r.to = c
        /\ r.term = most(current_term[n], t) /\ r.vote_granted = granted
  OBVIOUS
<1>4. granted => t >= current_term[n] /\ can_vote(vote, c)
  OBVIOUS
<1> HIDE DEF granted, response
<1>5. current_term[n] \in Nat
  BY DEF TypeOK
<1>6. ElectionsKept
  BY <1>2, <1>3 DEF ElectionsKept, Elected
<1>7. SentToOthers'
  BY <1>1, <1>2, <1>3 DEF SentToOthers
<1>8. CASE granted
  <2>1. /\ t > current_term[n] \/ (t = current_term[n] /\ voted_for[n] \in {Nil, c})
        /\ most(current_term[n], t) = t
    BY <1>4, <1>5, <1>8 DEF can_vote, voteAt, most
  <2>2. /\ current_term'[n] = t /\ voted_for'[n] = c /\ state'[n] \in {"follower", state[n]}
        /\ t > current_term[n] => state'[n] = "follower"
        /\ \A p \in Node \ {n} : /\ current_term'[p] = current_term[p] /\ state'[p] = state[p]
                                 /\ voted_for'[p] = voted_for[p]
    BY <1>2, <1>8, <2>1 DEF TypeOK
  <2>3. \A p, d \in Node, u \in Nat :
          Granted(p, d, u)' <=> Granted(p, d, u) \/ (p = n /\ d = c /\ u = t)
    BY <1>2, <1>3, <1>8, <2>1 DEF Granted
  <2> QED BY <1>1, <1>2, <1>6, <1>7, <2>1, <2>2, <2>3, VoteStep
<1>9. CASE ~granted
  <2>1. GrantsKept
    BY <1>2, <1>3, <1>9 DEF GrantsKept, Granted
  <2>2. CASE t > current_term[n]
    <3>1. most(current_term[n], t) = t /\ vote = Nil
      BY <1>5, <2>2 DEF most, voteAt
    <3>2. stepDown(n, t)
      BY <1>2, <1>9, <2>2, <3>1 DEF stepDown
    <3> QED BY <1>2, <1>6, <1>7, <2>1, <2>2, <3>2, StepDownStep
  <2>3. CASE ~(t > current_term[n])
    <3>1. most(current_term[n], t) = current_term[n] /\ vote = voted_for[n]
      BY <1>5, <2>3 DEF most, voteAt
    <3>2. UNCHANGED <<current_term, voted_for, state>>
      BY <1>2, <1>9, <2>3, <3>1 DEF TypeOK
    <3> QED BY <1>2, <1>6, <1>7, <2>1, <3>2, QuietStep
  <2> QED BY <2>2, <2>3
<1> QED BY <1>8, <1>9

LEMMA HandleRequestVoteResponseStep ==
  ASSUME VoteInv, TypeOK', NEW m \in msgs, HandleRequestVoteResponse(m)
  PROVE  VoteInv'
<1> USE DEF VoteInv
<1>1. PICK n \in Node, q \in Node, t \in Nat : q # n /\ m.to = n /\ m.from = q /\ m.term = t
  BY MessageFields DEF SentToOthers
<1> DEFINE current == state[n] = "candidate" /\ t = current_term[n]
           peers == [peer_states[n] EXCEPT ![q] =
                       IF @.known THEN [@ EXCEPT !.vote_granted = TRUE]
                       ELSE [known |-> TRUE, next_index |-> 1, match_index |-> 0,
                             vote_granted |-> TRUE]]
<1>2. \/ t > current_term[n] /\ stepDown(n, t) /\ UNCHANGED <<peer_states, msgs>>
      \/ /\ current /\ m.vote_granted
         /\ peer_states' = [peer_states EXCEPT ![n] = peers]
         /\ UNCHANGED <<current_term, voted_for, state, msgs>>
      \/ /\ current /\ m.vote_granted /\ Cardinality(votes(peers)) >= quorumSize
         /\ becomeLeader(n, current_term[n]) /\ UNCHANGED <<current_term, voted_for>>
  BY <1>1, Zenon DEF HandleRequestVoteResponse
<1>3. \A v \in votes(peers) : v = q \/ v \in votes(peer_states[n])
  BY DEF votes, TypeOK
<1> HIDE DEF peers
<1>4. m.type = "RequestVoteResponse"
  BY DEF HandleRequestVoteResponse, reaches
<1>5. CASE t > current_term[n] /\ stepDown(n, t) /\ UNCHANGED <<peer_states, msgs>>
  BY <1>5, NothingSent, StepDownStep
<1>6. ASSUME current, m.vote_granted
      PROVE  \A v \in votes(peers) :
               (v \in votes(peer_states[n]) \/ Granted(v, n, current_term[n]))
                 /\ (v = n \/ Granted(v, n, current_term[n]))
  <2>1. Granted(q, n, current_term[n])
    BY <1>1, <1>4, <1>6 DEF Granted
  <2> QED BY <1>3, <1>6, <2>1 DEF CandidateInv
<1>7. CASE /\ current /\ m.vote_granted
           /\ peer_states' = [peer_states EXCEPT ![n] = peers]
           /\ UNCHANGED <<current_term, voted_for, state, msgs>>
  <2>1. /\ peer_states'[n] = peers
        /\ \A p \in Node \ {n} : peer_states'[p] = peer_states[p]
    BY <1>7 DEF TypeOK
  <2>2. \A p \in Node : \A v \in votes(peer_states'[p]) :
          v \in votes(peer_states[p]) \/ Granted(v, p, current_term[p])
    BY <1>6, <1>7, <2>1
  <2> QED BY <1>7, <2>2, NothingSent, QuietStep
<1>8. CASE /\ current /\ m.vote_granted /\ Cardinality(votes(peers)) >= quorumSize
           /\ becomeLeader(n, current_term[n]) /\ UNCHANGED <<current_term, voted_for>>
  <2>1. \A v \in votes(peers) : v = n \/ Granted(v, n, current_term[n])
    BY <1>6, <1>8
  <2>2. q \in Node \ {n} /\ state[n] = "candidate"
    BY <1>1, <1>8
  <2> QED BY <1>8, <2>1, <2>2, ElectedStep
<1> QED BY <1>2, <1>5, <1>7, <1>8

-----------------------------------------------------------------------------
(* The steps that elect nobody and send no vote. *)

LEMMA HandleAppendEntriesStep ==
  ASSUME VoteInv, TypeOK', NEW m \in msgs, HandleAppendEntries(m)
  PROVE  VoteInv'
<1> USE DEF VoteInv
<1>1. PICK n \in Node, l \in Node, t \in Nat : l # n /\ m.to = n /\ m.from = l /\ m.term = t
  BY MessageFields DEF SentToOthers
<1>2. PICK r : /\ r.type = "AppendEntriesResponse" /\ r.from = n /\ r.to = l
              /\ msgs' = msgs \union {r}
  BY <1>1, Zenon DEF HandleAppendEntries
<1>3. GrantsKept /\ ElectionsKept
  BY <1>2 DEF GrantsKept, Granted, ElectionsKept, Elected
<1>4. SentToOthers'
  BY <1>1, <1>2 DEF SentToOthers
<1>5. UNCHANGED peer_states
  BY DEF HandleAppendEntries, nodeVars
<1>6. \/ UNCHANGED <<current_term, state, voted_for>>
      \/ t >= current_term[n] /\ mustStepDown(n, t) /\ stepDown(n, t)
  BY <1>1 DEF HandleAppendEntries, nodeVars
<1>7. CASE UNCHANGED <<current_term, state, voted_for>>
  BY <1>3, <1>4, <1>5, <1>7, QuietStep
<1>8. CASE t >= current_term[n] /\ mustStepDown(n, t) /\ stepDown(n, t)
  <2>1. Elected(l, t)
    BY <1>1 DEF HandleAppendEntries, reaches, Elected
  <2>2. \/ t > current_term[n]
        \/ t = current_term[n] /\ state[n] # "follower" /\ \E y \in Node \ {n} : Elected(y, t)
    BY <1>1, <1>8, <2>1 DEF mustStepDown, TypeOK
  <2> QED BY <1>3, <1>4, <1>5, <1>8, <2>2, StepDownStep
<1> QED BY <1>6, <1>7, <1>8

LEMMA HandleAppendEntriesResponseStep ==
  ASSUME VoteInv, TypeOK', NEW m \in msgs, HandleAppendEntriesResponse(m)
  PROVE  VoteInv'
<1> USE DEF VoteInv
<1>1. PICK n \in Node, t \in Nat : m.to = n /\ m.term = t
  BY MessageFields
<1>2. GrantsKept /\ ElectionsKept /\ SentToOthers'
  BY NothingSent DEF HandleAppendEntriesResponse
<1>3. \/ t > current_term[n] /\ stepDown(n, t) /\ UNCHANGED peer_states
      \/ /\ state[n] = "leader" /\ UNCHANGED <<current_term, state, voted_for>>
         /\ \E peers : peer_states' = [peer_states EXCEPT ![n] = peers]
  BY <1>1, Zenon DEF HandleAppendEntriesResponse
<1>4. CASE t > current_term[n] /\ stepDown(n, t) /\ UNCHANGED peer_states
  BY <1>2, <1>4, StepDownStep
<1>5. CASE /\ state[n] = "leader" /\ UNCHANGED <<current_term, state, voted_for>>
           /\ \E peers : peer_states' = [peer_states EXCEPT ![n] = peers]
  <2>1. \A p \in Node : state[p] = "candidate" => peer_states'[p] = peer_states[p]
    BY <1>5 DEF TypeOK
  <2> QED BY <1>2, <1>5, <2>1, QuietStep
<1> QED BY <1>3, <1>4, <1>5

LEMMA SendHeartbeatsStep ==
  ASSUME VoteInv, TypeOK', NEW n \in Node, sendHeartbeats(n)
  PROVE  VoteInv'
<1> USE DEF VoteInv
<1>1. PICK t \in Nat : t = current_term[n]
  BY DEF TypeOK
<1> DEFINE sent == heartbeats(n, t, log[n], peer_states[n])
<1>2. /\ state[n] = "leader" /\ msgs' = msgs \union sent
      /\ UNCHANGED <<current_term, voted_for, state, peer_states>>
  BY <1>1 DEF sendHeartbeats, nodeVars
<1>3. \A m \in sent : /\ m.type = "AppendEntries" /\ m.from = n /\ m.to \in Node \ {n}
                      /\ m.term = t
  BY HeartbeatFields
<1> HIDE DEF sent
<1>4. GrantsKept
  BY <1>2, <1>3, NoGrantSent
<1>5. SentToOthers'
  BY <1>2, <1>3 DEF SentToOthers
<1>6. (\E m \in sent : TRUE) => Elected(n, t)
  BY <1>1, <1>2, <1>3 DEF LeaderInv
<1>7. ElectionsKept
  BY <1>2, <1>3, <1>6 DEF ElectionsKept, Elected
<1> QED BY <1>2, <1>4, <1>5, <1>7, QuietStep

LEMMA TickStep == ASSUME VoteInv, TypeOK', NEW n \in Node, Tick(n) PROVE VoteInv'
<1>1. CASE startElection(n)
  BY <1>1, StartElectionStep
<1>2. CASE sendHeartbeats(n)
  BY <1>2, SendHeartbeatsStep
<1>3. CASE noTimeout(n)
  BY <1>3, NothingSent, QuietStep DEF VoteInv, noTimeout, nodeVars
<1> QED BY <1>1, <1>2, <1>3 DEF Tick

-----------------------------------------------------------------------------

LEMMA VoteInvInit == Init => VoteInv
<1> SUFFICES ASSUME Init PROVE VoteInv
  OBVIOUS
<1>1. \A p, c \in Node, t \in Nat : ~Granted(p, c, t) /\ ~Elected(p, t)
  BY DEF Init, Granted, Elected
<1>2. \A n \in Node : state[n] = "follower"
  BY DEF Init
<1>3. SentToOthers
  BY DEF Init, SentToOthers
<1>4. TypeOK
  BY TypeOKInit
<1> QED BY <1>1, <1>2, <1>3, <1>4 DEF VoteInv, OwnVote, GrantsArePast, CandidateInv, LeaderInv,
                                      ElectedInv, OneVoteBeforeElection

LEMMA VoteInvStep == VoteInv /\ [Next]_vars => VoteInv'
<1> SUFFICES ASSUME VoteInv, [Next]_vars PROVE VoteInv'
  OBVIOUS
<1>1. TypeOK'
  BY TypeOKStep DEF VoteInv
<1>2. ASSUME NEW n \in Node, Tick(n) PROVE VoteInv'
  BY <1>1, <1>2, TickStep
<1>3. ASSUME NEW n \in Node, NEW command \in Command, Submit(n, command) PROVE VoteInv'
  BY <1>1, <1>3, NothingSent, QuietStep DEF VoteInv, Submit
<1>4. ASSUME NEW m \in msgs, HandleRequestVote(m) PROVE VoteInv'
  BY <1>1, <1>4, HandleRequestVoteStep
<1>5. ASSUME NEW m \in msgs, HandleRequestVoteResponse(m) PROVE VoteInv'
  BY <1>1, <1>5, HandleRequestVoteResponseStep
<1>6. ASSUME NEW m \in msgs, HandleAppendEntries(m) PROVE VoteInv'
  BY <1>1, <1>6, HandleAppendEntriesStep
<1>7. ASSUME NEW m \in msgs, HandleAppendEntriesResponse(m) PROVE VoteInv'
  BY <1>1, <1>7, HandleAppendEntriesResponseStep
<1>8. CASE UNCHANGED vars
  BY <1>1, <1>8, NothingSent, QuietStep DEF VoteInv, vars, nodeVars
<1> QED BY <1>2, <1>3, <1>4, <1>5, <1>6, <1>7, <1>8 DEF Next

\* A term has at most one leader, in any cluster and whatever messages are
\* lost, late or repeated: the vote a candidate forgets when it meets a leader
\* of its term cannot elect a second one.
THEOREM OneLeaderPerTerm == Spec => []ElectionSafety
<1>1. Spec => []VoteInv
  BY VoteInvInit, VoteInvStep, PTL DEF Spec
<1> QED BY <1>1, VoteInvElectsOne, PTL

LEMMA LateSecondVote == VoteInv => DoubleVoteOnlyAfterElection
<1> SUFFICES ASSUME VoteInv, NEW m1 \in msgs, NEW m2 \in msgs,
                    m1.type = "RequestVoteResponse", m1.vote_granted,
                    m2.type = "RequestVoteResponse", m2.vote_granted,
                    m1.from = m2.from, m1.term = m2.term, m1.to # m2.to
             PROVE  \E m \in msgs : m.type = "AppendEntries" /\ m.term = m1.term
  BY DEF DoubleVoteOnlyAfterElection
<1>1. PICK p \in Node, c \in Node, d \in Node, t \in Nat :
        m1.from = p /\ m1.to = c /\ m2.to = d /\ m1.term = t
  BY MessageFields DEF VoteInv
<1>2. Granted(p, c, t) /\ Granted(p, d, t) /\ c # d
  BY <1>1 DEF Granted
<1>3. PICK x \in Node : Elected(x, t)
  BY <1>2 DEF VoteInv, OneVoteBeforeElection
<1> QED BY <1>1, <1>3 DEF Elected

\* Two votes of one node in a term for two candidates are only ever seen once
\* somebody leads the term: the second vote comes too late to elect.
THEOREM SecondVoteAfterElection == Spec => []DoubleVoteOnlyAfterElection
<1>1. Spec => []VoteInv
  BY VoteInvInit, VoteInvStep, PTL DEF Spec
<1> QED BY <1>1, LateSecondVote, PTL

LEMMA FollowerKeepsVoteStep ==
  ASSUME TypeOK, [Next]_vars, NEW n \in Node, state[n] = "follower", voted_for[n] # Nil,
         current_term'[n] = current_term[n]
  PROVE  voted_for'[n] = voted_for[n]
<1>1. /\ \A p \in Node : current_term[p] \in Nat
      /\ \A p \in Node, t \in Nat : stepDown(p, t) /\ p = n => t = current_term[n]
      /\ \A p \in Node, t \in Nat : stepDown(p, t) /\ p # n => voted_for'[n] = voted_for[n]
  BY DEF TypeOK, stepDown
<1>2. ASSUME NEW p \in Node, Tick(p) PROVE voted_for'[n] = voted_for[n]
  <2>1. CASE startElection(p)
    <3>1. p # n
      BY <1>1, <2>1 DEF startElection, TypeOK
    <3> QED BY <2>1, <3>1 DEF startElection, TypeOK
  <2>2. CASE sendHeartbeats(p) \/ noTimeout(p)
    BY <2>2 DEF sendHeartbeats, noTimeout, nodeVars
  <2> QED BY <1>2, <2>1, <2>2 DEF Tick
<1>3. ASSUME NEW p \in Node, NEW command \in Command, Submit(p, command)
      PROVE  voted_for'[n] = voted_for[n]
  BY <1>3 DEF Submit
<1>4. ASSUME NEW m \in msgs, HandleRequestVote(m) PROVE voted_for'[n] = voted_for[n]
  <2>1. CASE m.to # n
    BY <1>4, <2>1 DEF HandleRequestVote, grants, TypeOK
  <2>2. CASE m.to = n
    <3>1. m.term \in Nat
      BY MessageFields
    <3>2. voteAt(n, m.term) = voted_for[n]
      BY <1>1, <1>4, <2>2, <3>1 DEF HandleRequestVote, grants, TypeOK, voteAt, most
    <3>3. \/ voted_for'[n] = voteAt(n, m.term)
          \/ voted_for'[n] = m.from /\ can_vote(voteAt(n, m.term), m.from)
      BY <1>4, <2>2, Zenon DEF HandleRequestVote, grants, TypeOK
    <3> QED BY <3>2, <3>3 DEF can_vote
  <2> QED BY <2>1, <2>2
<1>5. ASSUME NEW m \in msgs, HandleRequestVoteResponse(m) PROVE voted_for'[n] = voted_for[n]
  <2>1. \/ m.term > current_term[m.to] /\ stepDown(m.to, m.term)
        \/ voted_for' = voted_for
    BY <1>5, Zenon DEF HandleRequestVoteResponse
  <2> QED BY <1>1, <2>1, MessageFields
<1>6. ASSUME NEW m \in msgs, HandleAppendEntries(m) PROVE voted_for'[n] = voted_for[n]
  <2>1. \/ mustStepDown(m.to, m.term) /\ stepDown(m.to, m.term)
        \/ voted_for' = voted_for
    BY <1>6, Zenon DEF HandleAppendEntries, nodeVars
  <2> QED BY <1>1, <2>1, MessageFields DEF mustStepDown
<1>7. ASSUME NEW m \in msgs, HandleAppendEntriesResponse(m) PROVE voted_for'[n] = voted_for[n]
  <2>1. \/ m.term > current_term[m.to] /\ stepDown(m.to, m.term)
        \/ voted_for' = voted_for
    BY <1>7, Zenon DEF HandleAppendEntriesResponse
  <2> QED BY <1>1, <2>1, MessageFields
<1>8. CASE UNCHANGED vars
  BY <1>8 DEF vars, nodeVars
<1> QED BY <1>2, <1>3, <1>4, <1>5, <1>6, <1>7, <1>8 DEF Next

\* No request, response or heartbeat makes a follower change its vote while
\* its term lasts: only a candidate or a leader that steps down loses one.
THEOREM VoteKeptByFollower == Spec => FollowerKeepsVote
<1>1. TypeOK /\ [Next]_vars =>
        [\A n \in Node :
           ( /\ state[n] = "follower" /\ voted_for[n] # Nil
             /\ current_term'[n] = current_term[n])
             => voted_for'[n] = voted_for[n]]_vars
  BY FollowerKeepsVoteStep
<1> QED BY <1>1, TypeCorrect, PTL DEF Spec, FollowerKeepsVote

-----------------------------------------------------------------------------
(***************************************************************************)
(* Logs.  A node's log and the entries of a request are both stretches of  *)
(* a log.  Two stretches that have the same term at a position are the     *)
(* same up to there, as far as both reach: this is kept when a leader      *)
(* appends, when it sends a part of its log, and when a follower continues *)
(* its own log with such a part at a position where they have the same     *)
(* term.                                                                   *)
(***************************************************************************)

-----------------------------------------------------------------------------
(* Stretches of logs. *)

\* A stretch of a log: the position before it, the term there, and entries.
Fragment == [prev : Nat, prev_term : Nat, entries : Seq(LogEntry)]

Whole(l) == [prev |-> 0, prev_term |-> 0, entries |-> l]
LogOf(n) == Whole(log[n])
SentBy(m) == [prev |-> m.prev_log_index, prev_term |-> m.prev_log_term, entries |-> m.entries]

Requests == {m \in msgs : m.type = "AppendEntries"}
Fragments == {LogOf(n) : n \in Node} \union {SentBy(m) : m \in Requests}

Lo(F) == F.prev
Hi(F) == F.prev + Len(F.entries)
Within(F, k) == Lo(F) <= k /\ k <= Hi(F)
TermAt(F, k) == IF k = F.prev THEN F.prev_term ELSE F.entries[k - F.prev].term
EntryAt(F, k) == F.entries[k - F.prev]

\* Where the two say the same of position j.
Same(F, G, j) ==
  /\ TermAt(F, j) = TermAt(G, j)
  /\ Lo(F) < j /\ Lo(G) < j => EntryAt(F, j) = EntryAt(G, j)

Agree(F, G) ==
  \A k, j \in Nat :
    ( /\ Within(F, k) /\ Within(G, k) /\ TermAt(F, k) = TermAt(G, k)
      /\ Within(F, j) /\ Within(G, j) /\ j <= k) => Same(F, G, j)

\* F is a part of L; L continues F by one entry; L is F up to M and then M.
PartOf(F, L) ==
  /\ Lo(L) <= Lo(F) /\ Hi(F) <= Hi(L)
  /\ \A k \in Nat : Within(F, k) => Same(F, L, k)

Continues(L, F) ==
  /\ Lo(L) = 0 /\ Lo(F) = 0 /\ Hi(L) = Hi(F) + 1
  /\ PartOf(F, L)

Spliced(L, F, M) ==
  /\ Lo(L) = 0 /\ Lo(F) = 0 /\ Lo(M) <= Hi(F) /\ Hi(L) = Hi(M)
  /\ \A k \in Nat : k <= Lo(M) => Same(L, F, k)
  /\ \A k \in Nat : Within(M, k) => Same(L, M, k)

LEMMA Bounds ==
  ASSUME NEW F \in Fragment
  PROVE  Lo(F) \in Nat /\ Hi(F) \in Nat /\ Lo(F) <= Hi(F)
<1>1. F.prev \in Nat /\ Len(F.entries) \in Nat
  BY LenProperties DEF Fragment
<1> QED BY <1>1 DEF Lo, Hi

LEMMA AgreeSelf == ASSUME NEW F \in Fragment PROVE Agree(F, F) /\ PartOf(F, F)
<1>1. \A k : Same(F, F, k)
  BY DEF Same
<1>2. Agree(F, F)
  BY <1>1 DEF Agree
<1> QED BY <1>1, <1>2, Bounds DEF PartOf

LEMMA AgreeSymmetric == ASSUME NEW F, NEW G, Agree(F, G) PROVE Agree(G, F)
<1>1. \A k : Same(F, G, k) => Same(G, F, k)
  BY DEF Same
<1> QED BY <1>1 DEF Agree

\* A part agrees with whatever the whole agrees with.
LEMMA PartAgrees ==
  ASSUME NEW F \in Fragment, NEW L \in Fragment, NEW G \in Fragment, PartOf(F, L), Agree(L, G)
  PROVE  Agree(F, G)
<1> SUFFICES ASSUME NEW k \in Nat, NEW j \in Nat, Within(F, k), Within(G, k),
                    TermAt(F, k) = TermAt(G, k), Within(F, j), Within(G, j), j <= k
             PROVE  Same(F, G, j)
  BY DEF Agree
<1>1. /\ Lo(F) \in Nat /\ Hi(F) \in Nat /\ Lo(L) \in Nat /\ Hi(L) \in Nat
      /\ Lo(L) <= Lo(F) /\ Hi(F) <= Hi(L)
  BY Bounds DEF PartOf
<1>2. Within(L, k) /\ Within(L, j)
  BY <1>1 DEF Within
<1>3. Same(F, L, k) /\ Same(F, L, j)
  BY DEF PartOf
<1>4. TermAt(L, k) = TermAt(G, k)
  BY <1>3 DEF Same
<1>5. Same(L, G, j)
  BY <1>2, <1>4 DEF Agree
<1>6. Lo(F) < j => Lo(L) < j
  BY <1>1
<1> QED BY <1>3, <1>5, <1>6 DEF Same

\* An entry that is nowhere else does no harm.
LEMMA ContinuedAgrees ==
  ASSUME NEW L \in Fragment, NEW F \in Fragment, NEW G \in Fragment, Continues(L, F), Agree(F, G),
         Within(G, Hi(L)) => TermAt(G, Hi(L)) # TermAt(L, Hi(L))
  PROVE  Agree(L, G)
<1> SUFFICES ASSUME NEW k \in Nat, NEW j \in Nat, Within(L, k), Within(G, k),
                    TermAt(L, k) = TermAt(G, k), Within(L, j), Within(G, j), j <= k
             PROVE  Same(L, G, j)
  BY DEF Agree
<1>1. /\ Lo(F) \in Nat /\ Hi(F) \in Nat /\ Lo(L) \in Nat /\ Hi(L) \in Nat
      /\ Lo(L) = 0 /\ Lo(F) = 0 /\ Hi(L) = Hi(F) + 1
  BY Bounds DEF Continues
<1>2. k # Hi(L)
  OBVIOUS
<1>3. Within(F, k) /\ Within(F, j)
  BY <1>1, <1>2 DEF Within
<1>4. Same(F, L, k) /\ Same(F, L, j)
  BY <1>3 DEF Continues, PartOf
<1>5. TermAt(F, k) = TermAt(G, k)
  BY <1>4 DEF Same
<1>6. Same(F, G, j)
  BY <1>3, <1>5 DEF Agree
<1> QED BY <1>1, <1>4, <1>6 DEF Same

LEMMA SplicedAgrees ==
  ASSUME NEW L \in Fragment, NEW F \in Fragment, NEW M \in Fragment, NEW G \in Fragment,
         Spliced(L, F, M), Agree(F, G), Agree(M, G)
  PROVE  Agree(L, G)
<1> SUFFICES ASSUME NEW k \in Nat, NEW j \in Nat, Within(L, k), Within(G, k),
                    TermAt(L, k) = TermAt(G, k), Within(L, j), Within(G, j), j <= k
             PROVE  Same(L, G, j)
  BY DEF Agree
<1>1. /\ Lo(F) = 0 /\ Hi(F) \in Nat /\ Lo(L) = 0 /\ Hi(L) \in Nat /\ Lo(M) \in Nat
      /\ Lo(G) \in Nat /\ Hi(G) \in Nat /\ Lo(M) <= Hi(F) /\ Lo(M) <= Hi(L) /\ Hi(L) = Hi(M)
  BY Bounds DEF Spliced
<1>2. \A i \in Nat : /\ i <= Lo(M) => Same(L, F, i) /\ Within(F, i)
                     /\ Lo(M) <= i /\ Within(L, i) => Same(L, M, i) /\ Within(M, i)
  BY <1>1 DEF Spliced, Within
<1>3. CASE k <= Lo(M)
  <2>1. TermAt(F, k) = TermAt(G, k) /\ Within(F, k) /\ Within(F, j) /\ Same(L, F, j)
    BY <1>1, <1>2, <1>3 DEF Same
  <2>2. Same(F, G, j)
    BY <2>1 DEF Agree
  <2> QED BY <1>1, <2>1, <2>2 DEF Same
<1>4. CASE Lo(M) < k
  <2>1. TermAt(M, k) = TermAt(G, k) /\ Within(M, k)
    BY <1>1, <1>2, <1>4 DEF Same
  <2>2. CASE Lo(M) < j
    <3>1. Same(L, M, j) /\ Within(M, j)
      BY <1>1, <1>2, <2>2
    <3>2. Same(M, G, j)
      BY <2>1, <3>1 DEF Agree
    <3> QED BY <1>1, <2>2, <3>1, <3>2 DEF Same
  <2>3. CASE j <= Lo(M)
    <3>1. Within(G, Lo(M)) /\ Within(M, Lo(M)) /\ Lo(M) <= k /\ Within(L, Lo(M))
      BY <1>1, <1>4, <2>3 DEF Within
    <3>2. Same(M, G, Lo(M))
      BY <1>1, <2>1, <3>1 DEF Agree
    <3>3. TermAt(F, Lo(M)) = TermAt(G, Lo(M)) /\ Within(F, Lo(M))
      BY <1>1, <1>2, <3>1, <3>2 DEF Same
    <3>4. Same(L, F, j) /\ Within(F, j)
      BY <1>2, <2>3
    <3>5. Same(F, G, j)
      BY <1>1, <2>3, <3>1, <3>3, <3>4 DEF Agree
    <3> QED BY <1>1, <3>4, <3>5 DEF Same
  <2> QED BY <1>1, <2>2, <2>3
<1> QED BY <1>1, <1>3, <1>4

-----------------------------------------------------------------------------
(* What the operators of KvRaft make of stretches. *)

LEMMA WholeType ==
  ASSUME NEW l \in Seq(LogEntry)
  PROVE  /\ Whole(l) \in Fragment /\ Lo(Whole(l)) = 0 /\ Hi(Whole(l)) = Len(l)
         /\ TermAt(Whole(l), 0) = 0 /\ Len(l) \in Nat
         /\ \A k \in 1..Len(l) : TermAt(Whole(l), k) = l[k].term /\ EntryAt(Whole(l), k) = l[k]
         /\ \A k \in Nat : Within(Whole(l), k) <=> k = 0 \/ k \in 1..Len(l)
<1>1. Len(l) \in Nat
  BY LenProperties
<1>2. Whole(l).prev = 0 /\ Whole(l).prev_term = 0 /\ Whole(l).entries = l /\ Whole(l) \in Fragment
  BY DEF Whole, Fragment
<1>3. Lo(Whole(l)) = 0 /\ Hi(Whole(l)) = Len(l) /\ TermAt(Whole(l), 0) = 0
  BY <1>1, <1>2 DEF Lo, Hi, TermAt
<1>4. ASSUME NEW k \in 1..Len(l)
      PROVE  TermAt(Whole(l), k) = l[k].term /\ EntryAt(Whole(l), k) = l[k]
  <2>1. k # 0 /\ k - 0 = k
    BY <1>1
  <2> QED BY <1>2, <2>1 DEF TermAt, EntryAt
<1>5. \A k \in Nat : Within(Whole(l), k) <=> k = 0 \/ k \in 1..Len(l)
  BY <1>1, <1>3 DEF Within
<1> QED BY <1>1, <1>2, <1>3, <1>4, <1>5

LEMMA AppendContinues ==
  ASSUME NEW l \in Seq(LogEntry), NEW t \in Nat, NEW c \in Command \union {Noop},
         NEW longer, longer = appendEntry(l, t, c)
  PROVE  /\ longer \in Seq(LogEntry) /\ Continues(Whole(longer), Whole(l))
         /\ TermAt(Whole(longer), Hi(Whole(longer))) = t
<1>1. longer \in Seq(LogEntry)
  BY AppendEntryType
<1>2. PICK e : /\ longer = Append(l, e)
               /\ e = [term |-> t, index |-> Len(l) + 1, command |-> c] /\ e.term = t
  BY DEF appendEntry
<1>3. /\ Len(l) \in Nat /\ Len(longer) = Len(l) + 1 /\ longer[Len(l) + 1] = e
      /\ \A k \in 1..Len(l) : longer[k] = l[k]
  <2>1. e \in LogEntry
    <3>1. Len(l) + 1 \in Nat
      BY LenProperties
    <3>2. c \in Payload
      BY KvRaftAssumption
    <3> QED BY <1>2, <3>1, <3>2 DEF LogEntry
  <2> QED BY <1>2, <2>1, AppendProperties, LenProperties
<1>4. /\ Lo(Whole(l)) = 0 /\ Lo(Whole(longer)) = 0 /\ Hi(Whole(l)) = Len(l)
      /\ Hi(Whole(longer)) = Len(l) + 1
  BY <1>1, <1>3, WholeType
<1>5. TermAt(Whole(longer), Len(l) + 1) = t
  <2>1. Len(l) + 1 \in 1..Len(longer)
    BY <1>3
  <2> QED BY <1>1, <1>2, <1>3, <2>1, WholeType
<1>6. ASSUME NEW k \in Nat, Within(Whole(l), k) PROVE Same(Whole(l), Whole(longer), k)
  <2>1. CASE k = 0
    BY <1>1, <1>4, <2>1, WholeType DEF Same
  <2>2. CASE k \in 1..Len(l)
    <3>1. k \in 1..Len(longer)
      BY <1>3, <2>2
    <3> QED BY <1>1, <1>3, <2>2, <3>1, WholeType DEF Same
  <2> QED BY <1>6, <2>1, <2>2, WholeType
<1>7. Continues(Whole(longer), Whole(l))
  BY <1>3, <1>4, <1>6 DEF Continues, PartOf
<1> QED BY <1>1, <1>4, <1>5, <1>7

\* What a heartbeat carries of a log.
LEMMA SliceIsPart ==
  ASSUME NEW l \in Seq(LogEntry), NEW next \in 1..(Len(l) + 1), NEW F \in Fragment,
         F.prev = next - 1, F.prev_term = getTermAt(l, next - 1), F.entries = entriesFrom(l, next)
  PROVE  PartOf(F, Whole(l)) /\ Lo(F) <= Len(l)
<1>1. Len(l) \in Nat /\ next \in Nat \ {0} /\ MaxEntriesPerRpc \in Nat \ {0}
  BY LenProperties, KvRaftAssumption
<1>2. F.prev_term = TermAt(Whole(l), next - 1) /\ Within(Whole(l), next - 1)
  <2>1. CASE next = 1
    BY <1>1, <2>1, WholeType DEF getTermAt
  <2>2. CASE next # 1
    <3>1. next - 1 \in 1..Len(l)
      BY <1>1, <2>2
    <3> QED BY <1>1, <3>1, WholeType DEF getTermAt
  <2> QED BY <2>1, <2>2
<1>3. PICK len \in Nat : /\ Len(F.entries) = len /\ next - 1 + len <= Len(l)
                        /\ \A i \in 1..len : F.entries[i] = l[next - 1 + i]
  <2>1. CASE next \in 1..Len(l)
    <3> DEFINE last == least(next + MaxEntriesPerRpc - 1, Len(l))
    <3>1. last \in Nat /\ last <= Len(l) /\ next <= last
      BY <1>1, <2>1 DEF least
    <3>2. \A i \in next..last : l[i] \in LogEntry
      BY <1>1, <3>1, ElementOfSeq
    <3>3. F.entries = SubSeq(l, next, last)
      BY <2>1 DEF entriesFrom
    <3> HIDE DEF last
    <3>4. /\ Len(F.entries) = IF next <= last THEN last - next + 1 ELSE 0
          /\ \A i \in 1..(last - next + 1) : F.entries[i] = l[next + i - 1]
      BY <1>1, <3>1, <3>2, <3>3, SubSeqProperties
    <3>5. last - next + 1 \in Nat /\ next - 1 + (last - next + 1) <= Len(l)
      BY <1>1, <3>1
    <3>6. Len(F.entries) = last - next + 1
      BY <3>1, <3>4
    <3>7. \A i \in 1..(last - next + 1) : F.entries[i] = l[next - 1 + i]
      <4>1. \A i \in 1..(last - next + 1) : next + i - 1 = next - 1 + i
        BY <1>1
      <4> QED BY <3>4, <4>1
    <3> QED BY <3>5, <3>6, <3>7
  <2>2. CASE next \notin 1..Len(l)
    <3>1. F.entries = <<>> /\ Len(F.entries) = 0
      BY <2>2 DEF entriesFrom
    <3>2. next - 1 + 0 <= Len(l)
      BY <1>1
    <3> QED BY <3>1, <3>2
  <2> QED BY <2>1, <2>2
<1>4. Lo(F) = next - 1 /\ Hi(F) = next - 1 + len
  BY <1>3 DEF Lo, Hi
<1>5. ASSUME NEW k \in Nat, Within(F, k) PROVE Same(F, Whole(l), k)
  <2>1. CASE k = next - 1
    BY <1>1, <1>2, <1>4, <2>1 DEF Same, TermAt
  <2>2. CASE k # next - 1
    <3>1. /\ k - (next - 1) \in 1..len /\ next - 1 + (k - (next - 1)) = k /\ k \in 1..Len(l)
      BY <1>1, <1>3, <1>4, <1>5, <2>2 DEF Within
    <3>2. F.entries[k - F.prev] = l[k]
      BY <1>3, <3>1
    <3> QED BY <2>2, <3>1, <3>2, WholeType DEF Same, TermAt, EntryAt
  <2> QED BY <2>1, <2>2
<1>6. Lo(Whole(l)) <= Lo(F) /\ Hi(F) <= Hi(Whole(l))
  BY <1>1, <1>3, <1>4, WholeType
<1> QED BY <1>1, <1>4, <1>5, <1>6 DEF PartOf

\* A follower's log after an accepted request.
LEMMA MergeSplices ==
  ASSUME NEW l \in Seq(LogEntry), NEW M \in Fragment, Lo(M) <= Len(l),
         TermAt(M, Lo(M)) = TermAt(Whole(l), Lo(M)), Agree(Whole(l), M),
         NEW merged, merged = merge(l, Lo(M), M.entries)
  PROVE  merged \in Seq(LogEntry) /\ (merged = l \/ Spliced(Whole(merged), Whole(l), M))
<1> DEFINE prev == Lo(M)
           last == prev + Len(M.entries)
           agreeTo(j) == \A i \in (prev + 1)..j : i <= Len(l) /\ l[i].term = M.entries[i - prev].term
<1>1. /\ Len(l) \in Nat /\ prev \in Nat /\ prev \in 0..Len(l) /\ Len(M.entries) \in Nat
      /\ M.entries \in Seq(LogEntry)
  BY Bounds, LenProperties DEF Fragment
<1>2. merged \in Seq(LogEntry)
  BY <1>1, MergeType
<1>3. merged = IF agreeTo(last) THEN l
               ELSE [j \in 1..last |-> IF agreeTo(j) THEN l[j] ELSE M.entries[j - prev]]
  BY DEF merge
<1>4. ASSUME ~agreeTo(last) PROVE Spliced(Whole(merged), Whole(l), M)
  <2>1. /\ DOMAIN merged = 1..last
        /\ \A j \in 1..last : merged[j] = IF agreeTo(j) THEN l[j] ELSE M.entries[j - prev]
    BY <1>3, <1>4
  <2>2. prev = M.prev /\ Hi(M) = last /\ last \in Nat
    BY <1>1 DEF Lo, Hi
  <2>3. Len(merged) = last
    <3>1. DOMAIN merged = 1..Len(merged) /\ Len(merged) \in Nat
      BY <1>2, LenProperties
    <3> QED BY <2>1, <2>2, <3>1
  <2>4. \A j \in 1..prev : agreeTo(j)
    BY <1>1
  <2>5. \A j \in (prev + 1)..last : agreeTo(j) => j \in 1..Len(l) /\ l[j].term = M.entries[j - prev].term
    <3>1. \A j \in (prev + 1)..last : j \in (prev + 1)..j
      BY <1>1
    <3> QED BY <1>1, <3>1
  <2> HIDE DEF agreeTo, last, prev
  <2>6. ASSUME NEW k \in Nat, k <= prev PROVE Same(Whole(merged), Whole(l), k)
    <3>1. CASE k = 0
      BY <1>2, <3>1, WholeType DEF Same
    <3>2. CASE k # 0
      <4>1. k \in 1..prev /\ k \in 1..Len(l) /\ k \in 1..last
        BY <1>1, <2>6, <3>2 DEF last
      <4>2. merged[k] = l[k]
        BY <2>1, <2>4, <4>1
      <4> QED BY <1>2, <2>3, <4>1, <4>2, WholeType DEF Same
    <3> QED BY <3>1, <3>2
  <2>7. ASSUME NEW k \in Nat, Within(M, k) PROVE Same(Whole(merged), M, k)
    <3>1. CASE k = prev
      BY <1>1, <2>6, <3>1 DEF Same, prev
    <3>2. CASE k # prev
      <4>1. k \in (prev + 1)..last /\ k \in 1..last
        BY <1>1, <2>2, <2>7, <3>2 DEF Within, prev
      <4>2. TermAt(M, k) = M.entries[k - prev].term /\ EntryAt(M, k) = M.entries[k - prev]
        BY <2>2, <3>2 DEF TermAt, EntryAt
      <4>3. TermAt(Whole(merged), k) = merged[k].term /\ EntryAt(Whole(merged), k) = merged[k]
        BY <1>2, <2>3, <4>1, WholeType
      <4>4. CASE agreeTo(k)
        <5>1. k \in 1..Len(l) /\ l[k].term = TermAt(M, k) /\ merged[k] = l[k]
          BY <2>1, <2>5, <4>1, <4>2, <4>4
        <5>2. /\ TermAt(Whole(l), k) = TermAt(M, k) /\ Within(Whole(l), k)
              /\ EntryAt(Whole(l), k) = l[k] /\ Lo(Whole(l)) < k
          BY <5>1, WholeType
        <5>3. Same(Whole(l), M, k)
          BY <2>7, <5>2 DEF Agree
        <5> QED BY <1>2, <4>3, <5>1, <5>2, <5>3, WholeType DEF Same
      <4>5. CASE ~agreeTo(k)
        <5>1. merged[k] = M.entries[k - prev]
          BY <2>1, <4>1, <4>5
        <5> QED BY <4>2, <4>3, <5>1 DEF Same
      <4> QED BY <4>4, <4>5
    <3> QED BY <3>1, <3>2
  <2> QED BY <1>1, <1>2, <2>2, <2>3, <2>6, <2>7, WholeType DEF Spliced, prev
<1> QED BY <1>2, <1>3, <1>4

-----------------------------------------------------------------------------
(* The inductive invariant. *)

Agreement == \A F, G \in Fragments : Agree(F, G)

ZeroStart == \A F \in Fragments : Lo(F) = 0 => F.prev_term = 0

\* Every term in a log is one in which a node was elected,
TermsLed ==
  \A F \in Fragments : \A k \in Nat \ {0} :
    Within(F, k) => \E x \in Node : Elected(x, TermAt(F, k))

\* and while that node leads, its log has the term there too.
AtLeader ==
  \A x \in Node : state[x] = "leader" => \A F \in Fragments : \A k \in Nat \ {0} :
    Within(F, k) /\ TermAt(F, k) = current_term[x] =>
      Within(LogOf(x), k) /\ TermAt(LogOf(x), k) = current_term[x]

LogInv == Agreement /\ ZeroStart /\ TermsLed /\ AtLeader

\* What a leader is asked to look up is in its log.
RequestsInLog ==
  \A m \in msgs :
    ( /\ m.type = "AppendEntries"
      /\ state[m.from] = "leader" /\ current_term[m.from] = m.term)
      => m.prev_log_index <= Len(log[m.from])

RepliesInLog ==
  \A m \in msgs :
    m.type = "AppendEntriesResponse" /\ m.conflict_index > 0 =>
      /\ Elected(m.to, m.term)
      /\ (state[m.to] = "leader" /\ current_term[m.to] = m.term)
           => m.conflict_index <= Len(log[m.to]) + 1

IndexInv == ReplicationIndicesInLog /\ RequestsInLog /\ RepliesInLog

\* Alone, a node leads without a heartbeat, and has no other log to match.
Several == \A x \in Node : Node # {x}

-----------------------------------------------------------------------------
(* Steps: one log changes, and what is sent is part of it. *)

LEMMA FragmentsType == TypeOK => Fragments \subseteq Fragment
<1> SUFFICES ASSUME TypeOK PROVE Fragments \subseteq Fragment
  OBVIOUS
<1>1. \A n \in Node : LogOf(n) \in Fragment
  BY WholeType DEF TypeOK, LogOf
<1>2. ASSUME NEW m \in Requests PROVE SentBy(m) \in Fragment
  <2>1. m \in AppendEntriesRequest
    BY MessageFields DEF Requests
  <2> QED BY <2>1 DEF AppendEntriesRequest, SentBy, Fragment
<1> QED BY <1>1, <1>2 DEF Fragments

LEMMA LeaderElected ==
  ASSUME VoteInv, Several, NEW n \in Node, state[n] = "leader"
  PROVE  Elected(n, current_term[n]) /\ current_term[n] \in Nat
BY DEF VoteInv, LeaderInv, TypeOK, Several

LEMMA LogStep ==
  ASSUME VoteInv, VoteInv', Several, LogInv, NEW n \in Node, NEW L, L = Whole(log'[n]),
         \A p \in Node \ {n} : log'[p] = log[p],
         msgs \subseteq msgs',
         \A m \in msgs' : m.type = "AppendEntries" => m \in msgs \/ PartOf(SentBy(m), L),
         \A G \in Fragments : Agree(L, G),
         \A k \in Nat \ {0} : Within(L, k) =>
           \/ \E G \in Fragments : Within(G, k) /\ TermAt(G, k) = TermAt(L, k)
           \/ state'[n] = "leader" /\ TermAt(L, k) = current_term'[n],
         \A x \in Node : state'[x] = "leader" =>
           \/ /\ state[x] = "leader" /\ current_term'[x] = current_term[x]
              /\ x = n => PartOf(LogOf(n), L)
           \/ /\ x = n
              /\ \A F \in Fragments, k \in Nat \ {0} : Within(F, k) => TermAt(F, k) # current_term'[n]
  PROVE  LogInv'
<1>1. Fragments \subseteq Fragment /\ Fragments' \subseteq Fragment
  <2>1. TypeOK /\ TypeOK'
    BY DEF VoteInv
  <2>2. (Fragments \subseteq Fragment)'
    BY <2>1, FragmentsType, PTL
  <2> QED BY <2>1, <2>2, FragmentsType DEF Fragment, LogEntry
<1>2. L \in Fragment /\ Lo(L) = 0 /\ TermAt(L, 0) = 0
  BY WholeType DEF VoteInv, TypeOK
<1>3. ASSUME NEW F \in Fragments' PROVE F \in Fragments \/ PartOf(F, L)
  <2>1. CASE \E p \in Node : F = Whole(log'[p])
    <3>1. PICK p \in Node : F = Whole(log'[p])
      BY <2>1
    <3>2. CASE p = n
      BY <1>2, <3>1, <3>2, AgreeSelf
    <3>3. CASE p # n
      BY <3>1, <3>3 DEF Fragments, LogOf
    <3> QED BY <3>2, <3>3
  <2>2. CASE \E m \in msgs' : m.type = "AppendEntries" /\ F = SentBy(m)
    BY <2>2 DEF Fragments, Requests
  <2> QED BY <2>1, <2>2 DEF Fragments, Requests, LogOf
<1>4. Agreement'
  <2> SUFFICES ASSUME NEW F \in Fragments', NEW G \in Fragments' PROVE Agree(F, G)
    BY DEF Agreement
  <2>1. Agree(L, L)
    BY <1>2, AgreeSelf
  <2>2. F \in Fragment /\ G \in Fragment
    BY <1>1
  <2>3. Agree(L, F) /\ Agree(L, G)
    <3>1. ASSUME NEW H \in Fragments' PROVE Agree(L, H)
      <4>1. CASE H \in Fragments
        BY <4>1
      <4>2. CASE PartOf(H, L)
        BY <1>1, <1>2, <2>1, <4>2, PartAgrees, AgreeSymmetric
      <4> QED BY <1>3, <4>1, <4>2
    <3> QED BY <3>1
  <2>4. CASE F \in Fragments /\ G \in Fragments
    BY <2>4 DEF LogInv, Agreement
  <2>5. CASE PartOf(F, L)
    BY <1>2, <2>2, <2>3, <2>5, PartAgrees
  <2>6. CASE PartOf(G, L)
    BY <1>2, <2>2, <2>3, <2>6, PartAgrees, AgreeSymmetric
  <2> QED BY <1>3, <2>4, <2>5, <2>6
<1>5. ZeroStart'
  <2> SUFFICES ASSUME NEW F \in Fragments', Lo(F) = 0 PROVE F.prev_term = 0
    BY DEF ZeroStart
  <2>1. CASE F \in Fragments
    BY <2>1 DEF LogInv, ZeroStart
  <2>2. CASE PartOf(F, L)
    <3>1. Within(F, 0)
      BY <1>1, Bounds DEF Within
    <3>2. TermAt(F, 0) = 0
      BY <1>2, <2>2, <3>1 DEF PartOf, Same
    <3> QED BY <3>2 DEF TermAt, Lo
  <2> QED BY <1>3, <2>1, <2>2
<1>6. \A x, t : Elected(x, t) => Elected(x, t)'
  BY DEF Elected
<1>7. ASSUME NEW F \in Fragments', NEW k \in Nat \ {0}, Within(F, k)
      PROVE  \/ \E G \in Fragments : Within(G, k) /\ TermAt(G, k) = TermAt(F, k)
             \/ state'[n] = "leader" /\ TermAt(F, k) = current_term'[n]
  <2>1. CASE F \in Fragments
    BY <1>7, <2>1
  <2>2. CASE PartOf(F, L)
    <3>1. Within(L, k) /\ TermAt(F, k) = TermAt(L, k)
      <4>1. Same(F, L, k)
        BY <1>7, <2>2 DEF PartOf
      <4>2. /\ Lo(F) \in Nat /\ Hi(F) \in Nat /\ Lo(L) \in Nat /\ Hi(L) \in Nat
            /\ Lo(L) <= Lo(F) /\ Hi(F) <= Hi(L)
        BY <1>1, <1>2, <2>2, Bounds DEF PartOf
      <4> QED BY <1>7, <4>1, <4>2 DEF Within, Same
    <3> QED BY <3>1
  <2> QED BY <1>3, <2>1, <2>2
<1>8. TermsLed'
  <2> SUFFICES ASSUME NEW F \in Fragments', NEW k \in Nat \ {0}, Within(F, k)
               PROVE  \E x \in Node : Elected(x, TermAt(F, k))'
    BY DEF TermsLed
  <2>1. CASE \E G \in Fragments : Within(G, k) /\ TermAt(G, k) = TermAt(F, k)
    <3>1. PICK G \in Fragments : Within(G, k) /\ TermAt(G, k) = TermAt(F, k)
      BY <2>1
    <3>2. PICK x \in Node : Elected(x, TermAt(G, k))
      BY <3>1 DEF LogInv, TermsLed
    <3> QED BY <1>6, <3>1, <3>2
  <2>2. CASE state'[n] = "leader" /\ TermAt(F, k) = current_term'[n]
    <3>1. Elected(n, current_term[n])'
      BY <2>2 DEF VoteInv, LeaderInv, Several
    <3> QED BY <2>2, <3>1
  <2> QED BY <1>7, <2>1, <2>2
<1>9. AtLeader'
  <2> SUFFICES ASSUME NEW x \in Node, state'[x] = "leader", NEW F \in Fragments',
                      NEW k \in Nat \ {0}, Within(F, k), TermAt(F, k) = current_term'[x]
               PROVE  Within(Whole(log'[x]), k) /\ TermAt(Whole(log'[x]), k) = current_term'[x]
    BY DEF AtLeader, LogOf
  <2>1. CASE \E G \in Fragments : Within(G, k) /\ TermAt(G, k) = TermAt(F, k)
    <3>1. PICK G \in Fragments : Within(G, k) /\ TermAt(G, k) = current_term'[x]
      BY <2>1
    <3>2. /\ state[x] = "leader" /\ current_term'[x] = current_term[x]
          /\ x = n => PartOf(LogOf(n), L)
      BY <3>1
    <3>3. Within(LogOf(x), k) /\ TermAt(LogOf(x), k) = current_term'[x]
      BY <3>1, <3>2 DEF LogInv, AtLeader
    <3>4. CASE x # n
      BY <3>3, <3>4 DEF LogOf
    <3>5. CASE x = n
      <4>1. Same(LogOf(n), L, k)
        BY <3>2, <3>3, <3>5 DEF PartOf
      <4>2. LogOf(n) \in Fragment
        BY <1>1 DEF Fragments
      <4>3. /\ Lo(LogOf(n)) \in Nat /\ Hi(LogOf(n)) \in Nat /\ Lo(L) \in Nat /\ Hi(L) \in Nat
            /\ Lo(L) <= Lo(LogOf(n)) /\ Hi(LogOf(n)) <= Hi(L)
        BY <1>2, <3>2, <3>5, <4>2, Bounds DEF PartOf
      <4>4. Within(L, k)
        BY <3>3, <3>5, <4>3 DEF Within
      <4> QED BY <3>3, <3>5, <4>1, <4>4 DEF Same
    <3> QED BY <3>4, <3>5
  <2>2. CASE ~(\E G \in Fragments : Within(G, k) /\ TermAt(G, k) = TermAt(F, k))
    <3>1. state'[n] = "leader" /\ current_term'[n] = current_term'[x]
      BY <1>7, <2>2
    <3>2. x = n
      <4>1. ElectionSafety'
        BY VoteInvElectsOne, PTL
      <4> QED BY <3>1, <4>1 DEF ElectionSafety
    <3>3. PartOf(F, L)
      BY <1>3, <2>2
    <3>4. Same(F, L, k) /\ Lo(L) <= Lo(F) /\ Hi(F) <= Hi(L)
      BY <3>3 DEF PartOf
    <3>5. Lo(F) \in Nat /\ Hi(F) \in Nat /\ Lo(L) \in Nat /\ Hi(L) \in Nat
      BY <1>1, <1>2, Bounds
    <3>6. Within(L, k)
      BY <3>4, <3>5 DEF Within
    <3> QED BY <3>2, <3>4, <3>6 DEF Same
  <2> QED BY <2>1, <2>2
<1> QED BY <1>4, <1>5, <1>8, <1>9 DEF LogInv

\* What heartbeats carry of the log of their sender.
LEMMA HeartbeatsArePart ==
  ASSUME TypeOK, NEW n \in Node, NEW t \in Nat, NEW l \in Seq(LogEntry),
         NEW peers \in [Node -> PeerState],
         \A p \in Node \ {n} : peers[p].next_index \in 1..(Len(l) + 1),
         NEW m \in heartbeats(n, t, l, peers)
  PROVE  /\ PartOf(SentBy(m), Whole(l)) /\ m.prev_log_index <= Len(l)
         /\ m.type = "AppendEntries" /\ m.from = n /\ m.term = t
<1>1. PICK p \in Node \ {n}, next \in 1..(Len(l) + 1) :
        /\ next = peers[p].next_index
        /\ m.prev_log_index = most(next, 1) - 1
        /\ m.prev_log_term = getTermAt(l, most(next, 1) - 1)
        /\ m.entries = entriesFrom(l, next)
        /\ m.type = "AppendEntries" /\ m.from = n /\ m.term = t
  BY DEF heartbeats
<1>2. most(next, 1) = next
  BY LenProperties DEF most
<1>3. m \in AppendEntriesRequest
  BY HeartbeatsType
<1>4. SentBy(m) \in Fragment
  BY <1>3 DEF AppendEntriesRequest, SentBy, Fragment
<1>5. PartOf(SentBy(m), Whole(l)) /\ Lo(SentBy(m)) <= Len(l)
  BY <1>1, <1>2, <1>4, SliceIsPart DEF SentBy
<1> QED BY <1>1, <1>5 DEF Lo, SentBy

LEMMA SameLogsStep ==
  ASSUME VoteInv, VoteInv', Several, LogInv, NEW n \in Node, log' = log, msgs \subseteq msgs',
         \A m \in msgs' : m.type = "AppendEntries" => m \in msgs \/ PartOf(SentBy(m), LogOf(n)),
         \A x \in Node : state'[x] = "leader" =>
           state[x] = "leader" /\ current_term'[x] = current_term[x]
  PROVE  LogInv'
<1> DEFINE L == Whole(log[n])
<1>1. L = LogOf(n) /\ L \in Fragments /\ L \in Fragment
  BY FragmentsType DEF LogOf, Fragments, VoteInv
<1>2. L = Whole(log'[n])
  OBVIOUS
<1>3. \A G \in Fragments : Agree(L, G)
  BY <1>1 DEF LogInv, Agreement
<1>4. PartOf(LogOf(n), L)
  BY <1>1, AgreeSelf
<1> HIDE DEF L
<1> QED BY <1>1, <1>2, <1>3, <1>4, LogStep

OneElected == \A x, y \in Node, t \in Nat : Elected(x, t) /\ Elected(y, t) => x = y

LEMMA ElectedAtMostOnce == ElectedInv => OneElected
BY ElectedOnce DEF OneElected

\* A leader appends: its term is at no later position of any log.
LEMMA LeaderAppendsStep ==
  ASSUME VoteInv, VoteInv', Several, LogInv, NEW n \in Node, NEW c \in Command \union {Noop},
         NEW longer, longer = appendEntry(log[n], current_term[n], c),
         log' = [log EXCEPT ![n] = longer], current_term' = current_term,
         state[n] \in {"leader", "candidate"}, state'[n] = "leader",
         \A x \in Node \ {n} : state'[x] = state[x],
         msgs \subseteq msgs',
         \A m \in msgs' : m.type = "AppendEntries" => m \in msgs \/ PartOf(SentBy(m), Whole(longer))
  PROVE  LogInv'
<1> DEFINE L == Whole(longer)
<1>1. /\ log[n] \in Seq(LogEntry) /\ current_term[n] \in Nat
      /\ LogOf(n) \in Fragments /\ Fragments \subseteq Fragment
  BY FragmentsType DEF VoteInv, TypeOK, Fragments
<1>2. PICK t \in Nat : t = current_term[n]
  BY <1>1
<1>3. longer \in Seq(LogEntry) /\ Continues(L, LogOf(n)) /\ TermAt(L, Hi(L)) = t /\ L \in Fragment
  <2>1. PICK l \in Seq(LogEntry) : l = log[n]
    BY <1>1
  <2>2. /\ longer \in Seq(LogEntry) /\ Continues(Whole(longer), Whole(l))
        /\ TermAt(Whole(longer), Hi(Whole(longer))) = t
    BY <1>2, <2>1, AppendContinues
  <2> QED BY <2>1, <2>2, WholeType DEF LogOf
<1>4. L = Whole(log'[n]) /\ \A p \in Node \ {n} : log'[p] = log[p]
  BY DEF VoteInv, TypeOK
<1> HIDE DEF L
<1>5. /\ Hi(LogOf(n)) \in Nat /\ Hi(L) = Hi(LogOf(n)) + 1 /\ Lo(L) = 0 /\ Lo(LogOf(n)) = 0
      /\ PartOf(LogOf(n), L)
  BY <1>1, <1>3, Bounds DEF Continues
<1>6. \/ state[n] = "leader"
      \/ \A F \in Fragments, k \in Nat \ {0} : Within(F, k) => TermAt(F, k) # t
  <2> SUFFICES ASSUME state[n] # "leader", NEW F \in Fragments, NEW k \in Nat \ {0},
                      Within(F, k), TermAt(F, k) = t
               PROVE  FALSE
    OBVIOUS
  <2>1. PICK x \in Node : Elected(x, t)
    BY DEF LogInv, TermsLed
  <2>2. Elected(n, t)' /\ Elected(x, t)'
    BY <1>2, <2>1 DEF VoteInv, LeaderInv, Several, Elected
  <2>3. OneElected'
    <3>1. ElectedInv'
      BY DEF VoteInv
    <3> QED BY <3>1, ElectedAtMostOnce, PTL
  <2>4. x = n
    BY <2>2, <2>3 DEF OneElected
  <2> QED BY <1>2, <2>1, <2>4 DEF VoteInv, ElectedInv, HasLed
<1>7. ASSUME NEW G \in Fragments, Within(G, Hi(L)) PROVE TermAt(G, Hi(L)) # t
  <2>1. Hi(L) \in Nat \ {0}
    BY <1>5
  <2>2. CASE state[n] = "leader"
    <3>1. ~Within(LogOf(n), Hi(L))
      BY <1>5 DEF Within
    <3> QED BY <1>2, <1>7, <2>1, <2>2, <3>1 DEF LogInv, AtLeader
  <2> QED BY <1>6, <1>7, <2>1, <2>2
<1>8. \A G \in Fragments : Agree(L, G)
  <2>1. \A G \in Fragments : Agree(LogOf(n), G)
    BY <1>1 DEF LogInv, Agreement
  <2> QED BY <1>1, <1>3, <1>7, <2>1, ContinuedAgrees
<1>9. ASSUME NEW k \in Nat \ {0}, Within(L, k)
      PROVE  \/ \E G \in Fragments : Within(G, k) /\ TermAt(G, k) = TermAt(L, k)
             \/ state'[n] = "leader" /\ TermAt(L, k) = current_term'[n]
  <2>1. CASE k = Hi(L)
    BY <1>2, <1>3, <2>1
  <2>2. CASE k # Hi(L)
    <3>1. Within(LogOf(n), k)
      BY <1>5, <1>9, <2>2 DEF Within
    <3>2. TermAt(LogOf(n), k) = TermAt(L, k)
      BY <1>5, <3>1 DEF PartOf, Same
    <3> QED BY <1>1, <3>1, <3>2
  <2> QED BY <2>1, <2>2
<1>10. ASSUME NEW x \in Node, state'[x] = "leader"
       PROVE  \/ /\ state[x] = "leader" /\ current_term'[x] = current_term[x]
                 /\ x = n => PartOf(LogOf(n), L)
              \/ /\ x = n
                 /\ \A F \in Fragments, k \in Nat \ {0} :
                      Within(F, k) => TermAt(F, k) # current_term'[n]
  BY <1>2, <1>5, <1>6, <1>10
<1>11. \A m \in msgs' : m.type = "AppendEntries" => m \in msgs \/ PartOf(SentBy(m), L)
  BY DEF L
<1> QED BY <1>4, <1>8, <1>9, <1>10, <1>11, LogStep

\* A follower continues its log with part of another.
LEMMA SplicedStep ==
  ASSUME VoteInv, VoteInv', Several, LogInv, NEW n \in Node, NEW M \in Fragments,
         NEW L, L = Whole(log'[n]), Spliced(L, LogOf(n), M),
         \A p \in Node \ {n} : log'[p] = log[p] /\ state'[p] = state[p]
                               /\ current_term'[p] = current_term[p],
         state'[n] # "leader", msgs \subseteq msgs',
         \A m \in msgs' : m.type = "AppendEntries" => m \in msgs
  PROVE  LogInv'
<1>1. LogOf(n) \in Fragments /\ Fragments \subseteq Fragment /\ L \in Fragment
  BY FragmentsType, WholeType DEF VoteInv, TypeOK, Fragments
<1>2. \A G \in Fragments : Agree(L, G)
  <2>1. \A G \in Fragments : Agree(LogOf(n), G) /\ Agree(M, G)
    BY <1>1 DEF LogInv, Agreement
  <2> QED BY <1>1, <2>1, SplicedAgrees
<1>3. /\ Lo(M) \in Nat /\ Lo(L) = 0 /\ Lo(LogOf(n)) = 0 /\ Hi(LogOf(n)) \in Nat
      /\ Lo(M) <= Hi(LogOf(n)) /\ Hi(L) = Hi(M)
  BY <1>1, Bounds DEF Spliced
<1>4. ASSUME NEW k \in Nat \ {0}, Within(L, k)
      PROVE  \E G \in Fragments : Within(G, k) /\ TermAt(G, k) = TermAt(L, k)
  <2>1. CASE k <= Lo(M)
    <3>1. Within(LogOf(n), k) /\ Same(L, LogOf(n), k)
      BY <1>3, <2>1 DEF Within, Spliced
    <3> QED BY <1>1, <3>1 DEF Same
  <2>2. CASE ~(k <= Lo(M))
    <3>1. Within(M, k)
      BY <1>3, <1>4, <2>2 DEF Within
    <3>2. Same(L, M, k)
      BY <3>1 DEF Spliced
    <3> QED BY <3>1, <3>2 DEF Same
  <2> QED BY <2>1, <2>2
<1> QED BY <1>2, <1>4, LogStep

-----------------------------------------------------------------------------
(* Steps: the positions that requests and replies name. *)

LEMMA IndexStep ==
  ASSUME VoteInv, IndexInv, msgs \subseteq msgs', ReplicationIndicesInLog',
         \A x \in Node : /\ Len(log[x]) \in Nat /\ Len(log'[x]) \in Nat
                         /\ state'[x] = "leader" =>
                              \/ /\ state[x] = "leader" /\ current_term'[x] = current_term[x]
                                 /\ Len(log[x]) <= Len(log'[x])
                              \/ ~Elected(x, current_term'[x]),
         \A m \in msgs' : m.type = "AppendEntries" =>
           m \in msgs \/ m.prev_log_index <= Len(log'[m.from]),
         \A m \in msgs' : m.type = "AppendEntriesResponse" /\ m.conflict_index > 0 =>
           \/ m \in msgs
           \/ /\ Elected(m.to, m.term)
              /\ state'[m.to] = "leader" /\ current_term'[m.to] = m.term
                   => m.conflict_index <= Len(log'[m.to]) + 1
  PROVE  IndexInv'
<1>1. RequestsInLog'
  <2> SUFFICES ASSUME NEW m \in msgs', m.type = "AppendEntries",
                      state'[m.from] = "leader", current_term'[m.from] = m.term
               PROVE  m.prev_log_index <= Len(log'[m.from])
    BY DEF RequestsInLog
  <2>1. CASE m \in msgs
    <3>1. m.from \in Node /\ m.prev_log_index \in Nat
      BY <2>1, MessageFields DEF VoteInv, AppendEntriesRequest
    <3>2. Elected(m.from, m.term)
      BY <2>1 DEF Elected
    <3>3. /\ state[m.from] = "leader" /\ current_term[m.from] = m.term
          /\ Len(log[m.from]) <= Len(log'[m.from])
      BY <3>1, <3>2
    <3>4. m.prev_log_index <= Len(log[m.from])
      BY <2>1, <3>3 DEF IndexInv, RequestsInLog
    <3> QED BY <3>1, <3>3, <3>4
  <2> QED BY <2>1
<1>2. RepliesInLog'
  <2> SUFFICES ASSUME NEW m \in msgs', m.type = "AppendEntriesResponse", m.conflict_index > 0
               PROVE  /\ Elected(m.to, m.term)'
                      /\ state'[m.to] = "leader" /\ current_term'[m.to] = m.term
                           => m.conflict_index <= Len(log'[m.to]) + 1
    BY DEF RepliesInLog
  <2>1. \A x, t : Elected(x, t) => Elected(x, t)'
    BY DEF Elected
  <2>2. CASE m \in msgs
    <3>1. m.to \in Node /\ m.conflict_index \in Nat
      BY <2>2, MessageFields DEF VoteInv, AppendEntriesResponse
    <3>2. Elected(m.to, m.term)
      BY <2>2 DEF IndexInv, RepliesInLog
    <3>3. ASSUME state'[m.to] = "leader", current_term'[m.to] = m.term
          PROVE  m.conflict_index <= Len(log'[m.to]) + 1
      <4>1. /\ state[m.to] = "leader" /\ current_term[m.to] = m.term
            /\ Len(log[m.to]) <= Len(log'[m.to])
        BY <3>1, <3>2, <3>3
      <4>2. m.conflict_index <= Len(log[m.to]) + 1
        BY <2>2, <4>1 DEF IndexInv, RepliesInLog
      <4> QED BY <3>1, <4>1, <4>2
    <3> QED BY <2>1, <3>2, <3>3
  <2> QED BY <2>1, <2>2
<1> QED BY <1>1, <1>2 DEF IndexInv

LEMMA ReplicationKept ==
  ASSUME TypeOK, TypeOK', ReplicationIndicesInLog, UNCHANGED peer_states,
         \A x \in Node : state'[x] = "leader" =>
           state[x] = "leader" /\ Len(log[x]) <= Len(log'[x])
  PROVE  ReplicationIndicesInLog'
<1> SUFFICES ASSUME NEW n \in Node, NEW p \in Node, state'[n] = "leader", p # n
             PROVE  /\ peer_states'[n][p].next_index \in 1..(Len(log'[n]) + 1)
                    /\ peer_states'[n][p].match_index \in 0..Len(log'[n])
  BY DEF ReplicationIndicesInLog
<1>1. Len(log[n]) \in Nat /\ Len(log'[n]) \in Nat /\ Len(log[n]) <= Len(log'[n])
  BY LenProperties DEF TypeOK
<1>2. /\ peer_states[n][p].next_index \in 1..(Len(log[n]) + 1)
      /\ peer_states[n][p].match_index \in 0..Len(log[n])
  BY DEF ReplicationIndicesInLog
<1> QED BY <1>1, <1>2

LEMMA FirstOfRunInLog ==
  ASSUME NEW l \in Seq(LogEntry), NEW i \in 1..Len(l)
  PROVE  firstOfRun(l, i) \in Nat /\ firstOfRun(l, i) <= i
<1> DEFINE run == {k \in 1..i : \A j \in k..i : getTermAt(l, j) = getTermAt(l, i)}
<1>1. i \in Nat \ {0}
  BY LenProperties
<1>2. run \subseteq 1..i /\ IsFiniteSet(1..i) /\ i \in run
  BY <1>1, FS_Interval
<1>3. IsFiniteSet(run) /\ Cardinality(run) \in Nat
  BY <1>2, FS_Subset, FS_CardinalityType
<1>4. Cardinality(run) # 0
  BY <1>2, <1>3, FS_EmptySet
<1>5. firstOfRun(l, i) = i + 1 - Cardinality(run)
  BY DEF firstOfRun
<1> HIDE DEF run
<1>6. firstOfRun(l, i) <= i
  BY <1>1, <1>3, <1>4, <1>5
<1> QED BY <1>6, FirstOfRunType

LEMMA BacktrackInLog ==
  ASSUME NEW l \in Seq(LogEntry), NEW i \in Nat, NEW t \in Nat, i <= Len(l) + 1
  PROVE  backtrack(l, i, t) <= Len(l) + 1 /\ backtrack(l, i, t) \in Nat
<1> DEFINE last == {k \in 1..Len(l) :
                      /\ getTermAt(l, k) = t
                      /\ \A j \in (k + 1)..Len(l) : getTermAt(l, j) > t}
<1>1. last # {} => (CHOOSE k \in last : TRUE) \in last
  OBVIOUS
<1>2. backtrack(l, i, t) = IF t > 0 /\ last # {} THEN (CHOOSE k \in last : TRUE) + 1 ELSE i
  BY DEF backtrack
<1>3. last \subseteq 1..Len(l) /\ Len(l) \in Nat
  BY LenProperties
<1> HIDE DEF last
<1>4. backtrack(l, i, t) = i \/ \E k \in 1..Len(l) : backtrack(l, i, t) = k + 1
  BY <1>1, <1>2, <1>3
<1>5. backtrack(l, i, t) <= Len(l) + 1
  BY <1>3, <1>4
<1> QED BY <1>5, BacktrackType

-----------------------------------------------------------------------------
(* One lemma for each handler. *)

LogsInv == LogInv /\ IndexInv

\* Nothing sent but votes, no log changed, no leader made.
LEMMA QuietLogs ==
  ASSUME VoteInv, VoteInv', Several, LogsInv, log' = log, msgs \subseteq msgs',
         \A m \in msgs' : m.type \in {"AppendEntries", "AppendEntriesResponse"} => m \in msgs,
         \A x \in Node : state'[x] = "leader" =>
           /\ state[x] = "leader" /\ current_term'[x] = current_term[x]
           /\ peer_states'[x] = peer_states[x]
  PROVE  LogsInv'
<1>1. \A x \in Node : Len(log[x]) \in Nat
  BY LenProperties DEF VoteInv, TypeOK
<1>2. ReplicationIndicesInLog'
  BY DEF LogsInv, IndexInv, ReplicationIndicesInLog
<1>3. IndexInv'
  BY <1>1, <1>2, IndexStep DEF LogsInv
<1>4. PICK n : n \in Node
  BY KvRaftAssumption
<1>5. LogInv'
  BY <1>4, SameLogsStep DEF LogsInv
<1> QED BY <1>3, <1>5 DEF LogsInv

LEMMA StepDownLogs ==
  ASSUME VoteInv, VoteInv', Several, LogsInv, NEW n \in Node, NEW t \in Nat, stepDown(n, t),
         UNCHANGED <<log, peer_states, msgs>>
  PROVE  LogsInv'
<1>1. /\ state'[n] = "follower"
      /\ \A p \in Node \ {n} : current_term'[p] = current_term[p] /\ state'[p] = state[p]
  BY DEF stepDown, VoteInv, TypeOK
<1> QED BY <1>1, QuietLogs

LEMMA BecomeLeaderLogs ==
  ASSUME VoteInv, VoteInv', Several, LogsInv, NEW n \in Node, state[n] = "candidate",
         becomeLeader(n, current_term[n]), UNCHANGED current_term
  PROVE  LogsInv'
<1>1. PICK t \in Nat, l \in Seq(LogEntry) : t = current_term[n] /\ l = log[n]
  BY DEF VoteInv, TypeOK
<1>2. PICK longer : longer = appendEntry(l, t, Noop)
  OBVIOUS
<1> DEFINE sent == heartbeats(n, t, longer, freshPeers(l))
<1>3. /\ state'[n] = "leader" /\ peer_states'[n] = freshPeers(l)
      /\ log' = [log EXCEPT ![n] = longer] /\ log'[n] = longer
      /\ msgs' = msgs \union sent
      /\ \A x \in Node \ {n} : /\ state'[x] = state[x] /\ peer_states'[x] = peer_states[x]
                               /\ log'[x] = log[x]
  BY <1>1, <1>2 DEF becomeLeader, VoteInv, TypeOK
<1>4. longer \in Seq(LogEntry) /\ Len(longer) = Len(l) + 1 /\ Len(l) \in Nat
  <2>1. longer \in Seq(LogEntry) /\ Hi(Whole(longer)) = Hi(Whole(l)) + 1
    BY <1>2, AppendContinues DEF Continues
  <2> QED BY <2>1, WholeType
<1>5. \A p \in Node : freshPeers(l)[p].next_index = Len(l) + 1 /\ freshPeers(l)[p].match_index = 0
  BY DEF freshPeers
<1>6. \A m \in sent : /\ PartOf(SentBy(m), Whole(longer)) /\ m.prev_log_index <= Len(longer)
                      /\ m.type = "AppendEntries" /\ m.from = n
  <2>1. freshPeers(l) \in [Node -> PeerState]
    BY FreshPeersType
  <2>2. \A p \in Node \ {n} : freshPeers(l)[p].next_index \in 1..(Len(longer) + 1)
    BY <1>4, <1>5
  <2>3. TypeOK
    BY DEF VoteInv
  <2> QED BY <1>4, <2>1, <2>2, <2>3, HeartbeatsArePart
<1> HIDE DEF sent
<1>7. LogInv'
  BY <1>1, <1>2, <1>3, <1>6, LeaderAppendsStep DEF LogsInv
<1>8. ReplicationIndicesInLog'
  <2> SUFFICES ASSUME NEW x \in Node, NEW p \in Node, state'[x] = "leader", p # x
               PROVE  /\ peer_states'[x][p].next_index \in 1..(Len(log'[x]) + 1)
                      /\ peer_states'[x][p].match_index \in 0..Len(log'[x])
    BY DEF ReplicationIndicesInLog
  <2>1. CASE x = n
    BY <1>3, <1>4, <1>5, <2>1
  <2>2. CASE x # n
    BY <1>3, <2>2 DEF LogsInv, IndexInv, ReplicationIndicesInLog
  <2> QED BY <2>1, <2>2
<1>9. \A x \in Node : Len(log[x]) \in Nat /\ Len(log'[x]) \in Nat
  BY LenProperties DEF VoteInv, TypeOK
<1>10. ~Elected(n, current_term'[n])
  BY <1>1 DEF VoteInv, ElectedInv, HasLed
<1>11. IndexInv'
  BY <1>3, <1>6, <1>8, <1>9, <1>10, IndexStep DEF LogsInv
<1> QED BY <1>7, <1>11 DEF LogsInv

LEMMA SendHeartbeatsLogs ==
  ASSUME VoteInv, VoteInv', Several, LogsInv, NEW n \in Node, sendHeartbeats(n)
  PROVE  LogsInv'
<1>1. PICK t \in Nat, l \in Seq(LogEntry), peers \in [Node -> PeerState] :
        t = current_term[n] /\ l = log[n] /\ peers = peer_states[n]
  BY DEF VoteInv, TypeOK
<1> DEFINE sent == heartbeats(n, t, l, peers)
<1>2. /\ state[n] = "leader" /\ msgs' = msgs \union sent
      /\ UNCHANGED <<current_term, state, log, peer_states>>
  BY <1>1 DEF sendHeartbeats, nodeVars
<1>3. \A p \in Node \ {n} : peers[p].next_index \in 1..(Len(l) + 1)
  BY <1>1, <1>2 DEF LogsInv, IndexInv, ReplicationIndicesInLog
<1>4. \A m \in sent : /\ PartOf(SentBy(m), LogOf(n)) /\ m.prev_log_index <= Len(log[n])
                      /\ m.type = "AppendEntries" /\ m.from = n
  <2>1. TypeOK /\ LogOf(n) = Whole(l) /\ log[n] = l
    BY <1>1 DEF VoteInv, LogOf
  <2>2. \A m \in sent : /\ PartOf(SentBy(m), Whole(l)) /\ m.prev_log_index <= Len(l)
                        /\ m.type = "AppendEntries" /\ m.from = n
    <3>1. TypeOK
      BY <2>1
    <3> QED BY <1>3, <3>1, HeartbeatsArePart
  <2> HIDE DEF sent
  <2> QED BY <2>1, <2>2
<1> HIDE DEF sent
<1>5. LogInv'
  BY <1>2, <1>4, SameLogsStep DEF LogsInv
<1>6. \A x \in Node : Len(log[x]) \in Nat
  BY LenProperties DEF VoteInv, TypeOK
<1>7. ReplicationIndicesInLog'
  BY <1>2 DEF LogsInv, IndexInv, ReplicationIndicesInLog
<1>8. IndexInv'
  BY <1>2, <1>4, <1>6, <1>7, IndexStep DEF LogsInv
<1> QED BY <1>5, <1>8 DEF LogsInv

LEMMA SubmitLogs ==
  ASSUME VoteInv, VoteInv', Several, LogsInv, NEW n \in Node, NEW c \in Command, Submit(n, c)
  PROVE  LogsInv'
<1>1. PICK t \in Nat, l \in Seq(LogEntry) : t = current_term[n] /\ l = log[n]
  BY DEF VoteInv, TypeOK
<1>2. PICK longer : longer = appendEntry(l, t, c)
  OBVIOUS
<1>3. /\ state[n] = "leader" /\ log' = [log EXCEPT ![n] = longer] /\ log'[n] = longer
      /\ \A x \in Node \ {n} : log'[x] = log[x]
      /\ UNCHANGED <<current_term, state, peer_states, msgs>>
  BY <1>1, <1>2 DEF Submit, VoteInv, TypeOK
<1>4. Len(longer) = Len(l) + 1 /\ Len(l) \in Nat
  <2>1. longer \in Seq(LogEntry) /\ Hi(Whole(longer)) = Hi(Whole(l)) + 1
    BY <1>2, AppendContinues DEF Continues
  <2> QED BY <2>1, WholeType
<1>5. LogInv'
  BY <1>1, <1>2, <1>3, LeaderAppendsStep DEF LogsInv
<1>6. \A x \in Node : /\ Len(log[x]) \in Nat /\ Len(log'[x]) \in Nat
                      /\ Len(log[x]) <= Len(log'[x])
  <2>1. \A x \in Node : Len(log[x]) \in Nat
    BY LenProperties DEF VoteInv, TypeOK
  <2> QED BY <1>1, <1>3, <1>4, <2>1
<1>7. ReplicationIndicesInLog'
  BY <1>3, <1>6, ReplicationKept DEF LogsInv, IndexInv, VoteInv
<1>8. IndexInv'
  BY <1>3, <1>6, <1>7, IndexStep DEF LogsInv
<1> QED BY <1>5, <1>8 DEF LogsInv

LEMMA HandleRequestVoteLogs ==
  ASSUME VoteInv, VoteInv', Several, LogsInv, NEW m \in msgs, HandleRequestVote(m)
  PROVE  LogsInv'
<1>1. PICK n \in Node, t \in Nat : m.to = n /\ m.term = t
  BY MessageFields DEF VoteInv
<1>2. PICK r : r.type = "RequestVoteResponse" /\ msgs' = msgs \union {r}
  <2> DEFINE granted == m.term >= current_term[n] /\ can_vote(voteAt(n, m.term), m.from)
                          /\ log_ok(log[n], m)
             answer == [type |-> "RequestVoteResponse", from |-> n, to |-> m.from,
                        term |-> most(current_term[n], m.term), vote_granted |-> granted]
  <2>1. msgs' = msgs \union {answer}
    BY <1>1 DEF HandleRequestVote, grants
  <2>2. answer.type = "RequestVoteResponse"
    OBVIOUS
  <2> HIDE DEF answer
  <2> QED BY <2>1, <2>2
<1>3. /\ current_term' = [current_term EXCEPT ![n] = most(@, t)]
      /\ state' = [state EXCEPT ![n] = IF t > current_term[n] THEN "follower" ELSE @]
      /\ UNCHANGED <<log, peer_states>>
  BY <1>1 DEF HandleRequestVote, grants
<1>4. \A x \in Node : state'[x] = "leader" =>
        state[x] = "leader" /\ current_term'[x] = current_term[x]
  <2>1. \A x \in Node \ {n} : state'[x] = state[x] /\ current_term'[x] = current_term[x]
    BY <1>3 DEF VoteInv, TypeOK
  <2>2. state'[n] = "leader" => state[n] = "leader" /\ current_term'[n] = current_term[n]
    BY <1>3 DEF VoteInv, TypeOK, most
  <2> QED BY <2>1, <2>2
<1> QED BY <1>2, <1>3, <1>4, QuietLogs

LEMMA HandleRequestVoteResponseLogs ==
  ASSUME VoteInv, VoteInv', Several, LogsInv, NEW m \in msgs, HandleRequestVoteResponse(m)
  PROVE  LogsInv'
<1>1. PICK n \in Node, t \in Nat : m.to = n /\ m.term = t
  BY MessageFields DEF VoteInv
<1>2. \/ stepDown(n, t) /\ UNCHANGED <<log, peer_states, msgs>>
      \/ /\ state[n] = "candidate" /\ UNCHANGED <<current_term, log, state, msgs>>
         /\ \E peers : peer_states' = [peer_states EXCEPT ![n] = peers]
      \/ /\ state[n] = "candidate" /\ becomeLeader(n, current_term[n])
         /\ UNCHANGED current_term
  BY <1>1, Zenon DEF HandleRequestVoteResponse
<1>3. CASE stepDown(n, t) /\ UNCHANGED <<log, peer_states, msgs>>
  BY <1>3, StepDownLogs
<1>4. CASE /\ state[n] = "candidate" /\ UNCHANGED <<current_term, log, state, msgs>>
           /\ \E peers : peer_states' = [peer_states EXCEPT ![n] = peers]
  <2>1. \A x \in Node : state[x] = "leader" => peer_states'[x] = peer_states[x]
    BY <1>4 DEF VoteInv, TypeOK
  <2> QED BY <1>4, <2>1, QuietLogs
<1>5. CASE /\ state[n] = "candidate" /\ becomeLeader(n, current_term[n])
           /\ UNCHANGED current_term
  BY <1>5, BecomeLeaderLogs
<1> QED BY <1>2, <1>3, <1>4, <1>5

\* A log that already holds the batch stays, any other is spliced with it.
LEMMA AcceptedLog ==
  ASSUME VoteInv, LogInv, NEW m \in msgs, m.type = "AppendEntries", NEW l \in Seq(LogEntry),
         Whole(l) \in Fragments, m.prev_log_index <= Len(l), ~mismatch(l, m),
         NEW merged, merged = merge(l, m.prev_log_index, m.entries)
  PROVE  /\ merged \in Seq(LogEntry)
         /\ merged = l \/ Spliced(Whole(merged), Whole(l), SentBy(m))
<1> DEFINE M == SentBy(m)
<1>1. M \in Fragments /\ M \in Fragment
  BY FragmentsType DEF VoteInv, Fragments, Requests
<1>2. /\ Lo(M) = m.prev_log_index /\ M.prev = m.prev_log_index /\ M.entries = m.entries
      /\ M.prev_term = m.prev_log_term /\ TermAt(M, Lo(M)) = m.prev_log_term
  BY DEF SentBy, Lo, TermAt
<1>3. Lo(M) \in Nat /\ Len(l) \in Nat
  BY <1>1, Bounds, LenProperties
<1>4. Agree(Whole(l), M)
  BY <1>1 DEF LogInv, Agreement
<1>5. Lo(M) = 0 => m.prev_log_term = 0
  BY <1>1, <1>2 DEF LogInv, ZeroStart
<1> HIDE DEF M
<1>6. TermAt(M, Lo(M)) = TermAt(Whole(l), Lo(M))
  <2>1. CASE Lo(M) = 0
    BY <1>2, <1>5, <2>1, WholeType
  <2>2. CASE Lo(M) # 0
    <3>1. m.prev_log_index \in 1..Len(l)
      BY <1>2, <1>3, <2>2
    <3>2. l[m.prev_log_index].term = m.prev_log_term
      BY <3>1 DEF mismatch, getTermAt
    <3> QED BY <1>2, <3>1, <3>2, WholeType
  <2> QED BY <2>1, <2>2
<1>7. merged = merge(l, Lo(M), M.entries) /\ Lo(M) <= Len(l)
  BY <1>2
<1>8. merged \in Seq(LogEntry) /\ (merged = l \/ Spliced(Whole(merged), Whole(l), M))
  BY <1>1, <1>4, <1>6, <1>7, MergeSplices
<1> QED BY <1>8 DEF M

LEMMA HandleAppendEntriesLogs ==
  ASSUME VoteInv, VoteInv', Several, LogsInv, NEW m \in msgs, HandleAppendEntries(m)
  PROVE  LogsInv'
<1>1. PICK n \in Node, q \in Node, t \in Nat, l \in Seq(LogEntry), prev \in Nat :
        /\ q # n /\ m.to = n /\ m.from = q /\ m.term = t /\ l = log[n]
        /\ prev = m.prev_log_index /\ m.type = "AppendEntries"
  <2>1. m.type = "AppendEntries" /\ m.prev_log_index \in Nat
    BY MessageFields DEF VoteInv, HandleAppendEntries, reaches, AppendEntriesRequest
  <2>2. m.to \in Node /\ m.from \in Node /\ m.term \in Nat /\ m.from # m.to
    BY MessageFields DEF VoteInv, SentToOthers
  <2>3. log[m.to] \in Seq(LogEntry)
    BY <2>2 DEF VoteInv, TypeOK
  <2> QED BY <2>1, <2>2, <2>3
<1>2. PICK r : /\ r.type = "AppendEntriesResponse" /\ msgs' = msgs \union {r}
              /\ \/ r.conflict_index = 0
                 \/ /\ r.to = q /\ r.term = t
                    /\ \/ prev > Len(l) /\ r.conflict_index = Len(l) + 1
                       \/ mismatch(l, m) /\ r.conflict_index = firstOfRun(l, prev)
  <2> DEFINE sent(conflict_index, term, success, conflict_term) ==
        [type |-> "AppendEntriesResponse", from |-> n, to |-> q, term |-> term,
         success |-> success, conflict_index |-> conflict_index, conflict_term |-> conflict_term]
  <2>1. \A i, u, s, c : /\ sent(i, u, s, c).type = "AppendEntriesResponse"
                        /\ sent(i, u, s, c).to = q /\ sent(i, u, s, c).term = u
                        /\ sent(i, u, s, c).conflict_index = i
    OBVIOUS
  <2>2. \/ \E u, s : msgs' = msgs \union {sent(0, u, s, 0)}
        \/ prev > Len(l) /\ \E s, c : msgs' = msgs \union {sent(Len(l) + 1, t, s, c)}
        \/ mismatch(l, m) /\ \E s, c : msgs' = msgs \union {sent(firstOfRun(l, prev), t, s, c)}
    BY <1>1, Zenon DEF HandleAppendEntries
  <2> HIDE DEF sent
  <2>3. CASE \E u, s : msgs' = msgs \union {sent(0, u, s, 0)}
    <3>1. PICK u, s : msgs' = msgs \union {sent(0, u, s, 0)}
      BY <2>3
    <3>2. PICK r : r = sent(0, u, s, 0)
      OBVIOUS
    <3> QED BY <2>1, <3>1, <3>2
  <2>4. CASE prev > Len(l) /\ \E s, c : msgs' = msgs \union {sent(Len(l) + 1, t, s, c)}
    <3>1. PICK s, c : msgs' = msgs \union {sent(Len(l) + 1, t, s, c)}
      BY <2>4
    <3>2. PICK r : r = sent(Len(l) + 1, t, s, c)
      OBVIOUS
    <3> QED BY <2>1, <2>4, <3>1, <3>2
  <2>5. CASE mismatch(l, m) /\ \E s, c : msgs' = msgs \union {sent(firstOfRun(l, prev), t, s, c)}
    <3>1. PICK s, c : msgs' = msgs \union {sent(firstOfRun(l, prev), t, s, c)}
      BY <2>5
    <3>2. PICK r : r = sent(firstOfRun(l, prev), t, s, c)
      OBVIOUS
    <3> QED BY <2>1, <2>5, <3>1, <3>2
  <2> QED BY <2>2, <2>3, <2>4, <2>5
<1>3. \/ log' = log
      \/ /\ prev <= Len(l) /\ ~mismatch(l, m) /\ state'[n] # "leader"
         /\ log' = [log EXCEPT ![n] = merge(l, prev, m.entries)]
  <2>1. \/ log' = log
        \/ /\ ~(prev > Len(l)) /\ ~mismatch(l, m)
           /\ log' = [log EXCEPT ![n] = merge(l, prev, m.entries)]
           /\ stepDown(n, t) \/ (~mustStepDown(n, t) /\ UNCHANGED state)
    BY <1>1 DEF HandleAppendEntries, nodeVars
  <2>2. stepDown(n, t) \/ (~mustStepDown(n, t) /\ UNCHANGED state) => state'[n] # "leader"
    BY DEF stepDown, mustStepDown, VoteInv, TypeOK
  <2>3. ~(prev > Len(l)) => prev <= Len(l)
    BY LenProperties
  <2> QED BY <2>1, <2>2, <2>3
<1>4. /\ UNCHANGED peer_states
      /\ \A x \in Node \ {n} : state'[x] = state[x] /\ current_term'[x] = current_term[x]
      /\ \/ UNCHANGED <<state, current_term>>
         \/ state'[n] = "follower"
  <2>1. stepDown(n, t) \/ UNCHANGED <<state, current_term>>
    BY <1>1 DEF HandleAppendEntries, nodeVars
  <2>2. UNCHANGED peer_states
    BY DEF HandleAppendEntries, nodeVars
  <2> QED BY <2>1, <2>2 DEF stepDown, VoteInv, TypeOK
<1>5. \A x \in Node : state'[x] = "leader" =>
        /\ state[x] = "leader" /\ current_term'[x] = current_term[x] /\ log'[x] = log[x]
  BY <1>3, <1>4 DEF VoteInv, TypeOK
<1>6. \A x \in Node : Len(log[x]) \in Nat /\ Len(log'[x]) \in Nat
  BY LenProperties DEF VoteInv, TypeOK
<1>7. ReplicationIndicesInLog'
  BY <1>4, <1>5, <1>6, ReplicationKept DEF LogsInv, IndexInv, VoteInv
<1>8. ASSUME r.conflict_index > 0
      PROVE  /\ Elected(r.to, r.term)
             /\ state'[r.to] = "leader" /\ current_term'[r.to] = r.term
                  => r.conflict_index <= Len(log'[r.to]) + 1
  <2>1. r.to = q /\ r.term = t
    BY <1>2, <1>8
  <2>2. Elected(q, t)
    BY <1>1 DEF Elected
  <2>3. ASSUME state'[q] = "leader", current_term'[q] = t
        PROVE  r.conflict_index <= Len(log'[q]) + 1
    <3>1. state[q] = "leader" /\ current_term[q] = t /\ log'[q] = log[q]
      BY <1>5, <2>3
    <3>2. prev <= Len(log[q])
      BY <1>1, <3>1 DEF LogsInv, IndexInv, RequestsInLog
    <3>3. r.conflict_index <= prev
      <4>1. Len(l) \in Nat
        BY LenProperties
      <4>2. CASE prev > Len(l) /\ r.conflict_index = Len(l) + 1
        BY <4>1, <4>2
      <4>3. CASE mismatch(l, m) /\ r.conflict_index = firstOfRun(l, prev)
        <5>1. prev \in 1..Len(l)
          BY <1>1, <4>3 DEF mismatch
        <5> QED BY <4>3, <5>1, FirstOfRunInLog
      <4> QED BY <1>2, <1>8, <4>2, <4>3
    <3>4. r.conflict_index \in Nat
      <4>1. CASE prev > Len(l) /\ r.conflict_index = Len(l) + 1
        BY <4>1, LenProperties
      <4>2. CASE mismatch(l, m) /\ r.conflict_index = firstOfRun(l, prev)
        <5>1. prev \in 1..Len(l)
          BY <1>1, <4>2 DEF mismatch
        <5> QED BY <4>2, <5>1, FirstOfRunInLog
      <4> QED BY <1>2, <1>8, <4>1, <4>2
    <3> QED BY <1>6, <3>1, <3>2, <3>3, <3>4
  <2> QED BY <2>1, <2>2, <2>3
<1>9. IndexInv'
  BY <1>2, <1>5, <1>6, <1>7, <1>8, IndexStep DEF LogsInv
<1>10. LogInv'
  <2>1. CASE log' = log
    BY <1>2, <1>5, <2>1, SameLogsStep DEF LogsInv
  <2>2. CASE /\ prev <= Len(l) /\ ~mismatch(l, m) /\ state'[n] # "leader"
             /\ log' = [log EXCEPT ![n] = merge(l, prev, m.entries)]
    <3>1. PICK merged : merged = merge(l, prev, m.entries)
      OBVIOUS
    <3>2. /\ Whole(l) = LogOf(n) /\ LogOf(n) \in Fragments /\ SentBy(m) \in Fragments
          /\ log'[n] = merged /\ \A p \in Node \ {n} : log'[p] = log[p]
      BY <1>1, <2>2, <3>1 DEF LogOf, Fragments, Requests, VoteInv, TypeOK
    <3>3. merged = l \/ Spliced(Whole(merged), Whole(l), SentBy(m))
      BY <1>1, <2>2, <3>1, <3>2, AcceptedLog DEF LogsInv
    <3>4. CASE merged = l
      <4>1. log' = log
        BY <1>1, <2>2, <3>1, <3>4 DEF VoteInv, TypeOK
      <4> QED BY <1>2, <1>5, <4>1, SameLogsStep DEF LogsInv
    <3>5. CASE Spliced(Whole(merged), Whole(l), SentBy(m))
      BY <1>2, <1>4, <2>2, <3>2, <3>5, SplicedStep DEF LogsInv
    <3> QED BY <3>3, <3>4, <3>5
  <2> QED BY <1>3, <2>1, <2>2
<1> QED BY <1>9, <1>10 DEF LogsInv

LEMMA HandleAppendEntriesResponseLogs ==
  ASSUME VoteInv, VoteInv', Several, LogsInv, NEW m \in msgs, HandleAppendEntriesResponse(m)
  PROVE  LogsInv'
<1>1. PICK n \in Node, q \in Node, t \in Nat, l \in Seq(LogEntry), peer \in PeerState,
           last \in Nat :
        /\ q # n /\ m.to = n /\ m.from = q /\ m.term = t /\ l = log[n] /\ last = Len(l)
        /\ peer = peer_states[n][q]
  <2>1. m.to \in Node /\ m.from \in Node /\ m.term \in Nat /\ m.from # m.to
    BY MessageFields DEF VoteInv, SentToOthers
  <2>2. log[m.to] \in Seq(LogEntry) /\ peer_states[m.to][m.from] \in PeerState
    BY <2>1 DEF VoteInv, TypeOK
  <2> QED BY <2>1, <2>2, LenProperties
<1>2. m \in AppendEntriesResponse /\ m.type = "AppendEntriesResponse" /\ state[n] = "leader"
  BY <1>1, MessageFields DEF VoteInv, HandleAppendEntriesResponse, reaches
<1>3. PICK match : match = new_match(peer, last)
  OBVIOUS
<1>4. PICK next : next = most(1, backtrack(l, m.conflict_index, m.conflict_term))
  OBVIOUS
<1> DEFINE credited == [peer_states[n] EXCEPT ![q].match_index = match,
                                              ![q].next_index = match + 1]
<1>5. UNCHANGED <<log, msgs>>
  BY DEF HandleAppendEntriesResponse
<1>6. \/ stepDown(n, t) /\ UNCHANGED peer_states
      \/ /\ t = current_term[n] /\ UNCHANGED <<current_term, state>>
         /\ peer_states' = [peer_states EXCEPT ![n] = credited]
      \/ /\ t = current_term[n] /\ UNCHANGED <<current_term, state>>
         /\ peer_states' = [peer_states EXCEPT ![n][q].next_index = next]
  BY <1>1, <1>3, <1>4, Zenon DEF HandleAppendEntriesResponse
<1>7. peer.next_index \in 1..(last + 1) /\ peer.match_index \in 0..last
  BY <1>1, <1>2 DEF LogsInv, IndexInv, ReplicationIndicesInLog
<1>8. match \in 0..last
  <2>1. MaxEntriesPerRpc \in Nat \ {0}
    BY KvRaftAssumption
  <2> QED BY <1>3, <1>7, <2>1 DEF new_match, most, least
<1>9. t = current_term[n] => next \in 1..(last + 1)
  <2> SUFFICES ASSUME t = current_term[n] PROVE next \in 1..(last + 1)
    OBVIOUS
  <2>1. m.conflict_index \in Nat /\ m.conflict_term \in Nat
    BY <1>2 DEF AppendEntriesResponse
  <2>2. m.conflict_index <= last + 1
    BY <1>1, <1>2, <2>1 DEF LogsInv, IndexInv, RepliesInLog
  <2>3. PICK b \in Nat : b = backtrack(l, m.conflict_index, m.conflict_term) /\ b <= last + 1
    BY <1>1, <2>1, <2>2, BacktrackInLog
  <2> QED BY <1>4, <2>3 DEF most
<1>10. CASE stepDown(n, t) /\ UNCHANGED peer_states
  BY <1>5, <1>10, StepDownLogs
<1>11. ASSUME t = current_term[n], UNCHANGED <<current_term, state>>,
              \A x \in Node, p \in Node : x # n \/ p # q => peer_states'[x][p] = peer_states[x][p],
              peer_states'[n][q].next_index \in 1..(last + 1),
              peer_states'[n][q].match_index \in 0..last
       PROVE  LogsInv'
  <2>1. ReplicationIndicesInLog'
    <3> SUFFICES ASSUME NEW x \in Node, NEW p \in Node, state[x] = "leader", p # x
                 PROVE  /\ peer_states'[x][p].next_index \in 1..(Len(log[x]) + 1)
                        /\ peer_states'[x][p].match_index \in 0..Len(log[x])
      BY <1>5, <1>11 DEF ReplicationIndicesInLog
    <3>1. CASE x # n \/ p # q
      BY <1>11, <3>1 DEF LogsInv, IndexInv, ReplicationIndicesInLog
    <3>2. CASE x = n /\ p = q
      BY <1>1, <1>11, <3>2
    <3> QED BY <3>1, <3>2
  <2>2. \A x \in Node : Len(log[x]) \in Nat
    BY LenProperties DEF VoteInv, TypeOK
  <2>3. IndexInv'
    BY <1>5, <1>11, <2>1, <2>2, IndexStep DEF LogsInv
  <2>4. LogInv'
    BY <1>5, <1>11, SameLogsStep DEF LogsInv
  <2> QED BY <2>3, <2>4 DEF LogsInv
<1>12. CASE /\ t = current_term[n] /\ UNCHANGED <<current_term, state>>
            /\ peer_states' = [peer_states EXCEPT ![n] = credited]
  <2>1. /\ credited[q] = [peer EXCEPT !.match_index = match, !.next_index = match + 1]
        /\ \A p \in Node \ {q} : credited[p] = peer_states[n][p]
    BY <1>1 DEF VoteInv, TypeOK
  <2>2. credited[q].next_index = match + 1 /\ credited[q].match_index = match
    BY <2>1 DEF PeerState
  <2> HIDE DEF credited
  <2>3. peer_states'[n] = credited /\ \A x \in Node \ {n} : peer_states'[x] = peer_states[x]
    BY <1>12 DEF VoteInv, TypeOK
  <2>4. match + 1 \in 1..(last + 1)
    BY <1>8
  <2>5. \A x \in Node, p \in Node : x # n \/ p # q => peer_states'[x][p] = peer_states[x][p]
    BY <2>1, <2>3
  <2>6. /\ peer_states'[n][q].next_index \in 1..(last + 1)
        /\ peer_states'[n][q].match_index \in 0..last
    BY <1>8, <2>2, <2>3, <2>4
  <2> QED BY <1>11, <1>12, <2>5, <2>6
<1>13. CASE /\ t = current_term[n] /\ UNCHANGED <<current_term, state>>
            /\ peer_states' = [peer_states EXCEPT ![n][q].next_index = next]
  <2>1. /\ peer_states'[n][q] = [peer EXCEPT !.next_index = next]
        /\ \A x \in Node, p \in Node : x # n \/ p # q => peer_states'[x][p] = peer_states[x][p]
    BY <1>1, <1>13 DEF VoteInv, TypeOK
  <2>2. /\ peer_states'[n][q].next_index = next
        /\ peer_states'[n][q].match_index = peer.match_index
    BY <2>1 DEF PeerState
  <2> QED BY <1>7, <1>9, <1>11, <1>13, <2>1, <2>2
<1> QED BY <1>6, <1>10, <1>12, <1>13

LEMMA StartElectionLogs ==
  ASSUME VoteInv, VoteInv', Several, LogsInv, NEW n \in Node, startElection(n)
  PROVE  LogsInv'
<1>1. Cardinality(Node) # 1
  BY KvRaftAssumption, FS_Singleton, Zenon DEF Several
<1>2. /\ state' = [state EXCEPT ![n] = "candidate"] /\ UNCHANGED log
      /\ \E peers : peer_states' = [peer_states EXCEPT ![n] = peers]
      /\ \E t : current_term' = [current_term EXCEPT ![n] = t]
      /\ \E t : msgs' = msgs \union requestVotes(n, t)
  BY <1>1, Zenon DEF startElection
<1>3. msgs \subseteq msgs' /\ \A m \in msgs' : m \in msgs \/ m.type = "RequestVote"
  BY <1>2 DEF requestVotes
<1>4. /\ state'[n] = "candidate"
      /\ \A x \in Node \ {n} : /\ state'[x] = state[x] /\ current_term'[x] = current_term[x]
                               /\ peer_states'[x] = peer_states[x]
  BY <1>2 DEF VoteInv, TypeOK
<1> QED BY <1>2, <1>3, <1>4, QuietLogs

-----------------------------------------------------------------------------

LogsIInv == VoteInv /\ (Several => LogsInv)

LEMMA LogsInit == Init => LogsIInv
<1> SUFFICES ASSUME Init PROVE LogsIInv
  OBVIOUS
<1>1. VoteInv
  BY VoteInvInit
<1>2. msgs = {} /\ \A n \in Node : state[n] = "follower"
  BY DEF Init
<1>3. \A F \in Fragments : F = Whole(<<>>)
  BY <1>2 DEF Fragments, LogOf, Requests, Init
<1>4. /\ Whole(<<>>) \in Fragment /\ Whole(<<>>).prev_term = 0
      /\ \A k \in Nat : Within(Whole(<<>>), k) <=> k = 0
  <2>1. PICK l \in Seq(LogEntry) : l = <<>> /\ Len(l) = 0
    BY EmptySeq
  <2>2. Whole(l).prev_term = 0
    BY DEF Whole
  <2>3. Whole(l) \in Fragment /\ \A k \in Nat : Within(Whole(l), k) <=> k = 0 \/ k \in 1..0
    BY <2>1, WholeType
  <2> QED BY <2>1, <2>2, <2>3
<1>5. Agreement
  BY <1>3, <1>4, AgreeSelf DEF Agreement
<1>6. ZeroStart /\ TermsLed /\ AtLeader
  BY <1>2, <1>3, <1>4 DEF ZeroStart, TermsLed, AtLeader
<1>7. IndexInv
  BY <1>2 DEF IndexInv, ReplicationIndicesInLog, RequestsInLog, RepliesInLog
<1> QED BY <1>1, <1>5, <1>6, <1>7 DEF LogsIInv, LogsInv, LogInv

LEMMA LogsStep == LogsIInv /\ [Next]_vars => LogsIInv'
<1> SUFFICES ASSUME VoteInv, Several => LogsInv, [Next]_vars PROVE VoteInv' /\ (Several => LogsInv')
  BY DEF LogsIInv, Several
<1>1. VoteInv'
  BY VoteInvStep, PTL
<1> SUFFICES ASSUME Several, LogsInv PROVE LogsInv'
  BY <1>1
<1>2. ASSUME NEW n \in Node, Tick(n) PROVE LogsInv'
  <2>1. CASE startElection(n)
    BY <1>1, <2>1, StartElectionLogs
  <2>2. CASE sendHeartbeats(n)
    BY <1>1, <2>2, SendHeartbeatsLogs
  <2>3. CASE noTimeout(n)
    BY <1>1, <2>3, QuietLogs DEF noTimeout, nodeVars
  <2> QED BY <1>2, <2>1, <2>2, <2>3 DEF Tick
<1>3. ASSUME NEW n \in Node, NEW command \in Command, Submit(n, command) PROVE LogsInv'
  BY <1>1, <1>3, SubmitLogs
<1>4. ASSUME NEW m \in msgs, HandleRequestVote(m) PROVE LogsInv'
  BY <1>1, <1>4, HandleRequestVoteLogs
<1>5. ASSUME NEW m \in msgs, HandleRequestVoteResponse(m) PROVE LogsInv'
  BY <1>1, <1>5, HandleRequestVoteResponseLogs
<1>6. ASSUME NEW m \in msgs, HandleAppendEntries(m) PROVE LogsInv'
  BY <1>1, <1>6, HandleAppendEntriesLogs
<1>7. ASSUME NEW m \in msgs, HandleAppendEntriesResponse(m) PROVE LogsInv'
  BY <1>1, <1>7, HandleAppendEntriesResponseLogs
<1>8. CASE UNCHANGED vars
  BY <1>1, <1>8, QuietLogs DEF vars, nodeVars
<1> QED BY <1>2, <1>3, <1>4, <1>5, <1>6, <1>7, <1>8 DEF Next

LEMMA LogsAlways == Spec => []LogsIInv
BY LogsInit, LogsStep, PTL DEF Spec

\* Two entries of one term at one position are the same, and so are all before.
LEMMA EntriesAgree ==
  ASSUME LogsIInv, NEW a \in Node, NEW b \in Node,
         NEW i \in 1..Len(log[a]), i <= Len(log[b]), log[a][i].term = log[b][i].term
  PROVE  \A j \in 1..i : log[a][j] = log[b][j]
<1>1. CASE a = b
  BY <1>1
<1>2. CASE a # b
  <2>1. Agree(LogOf(a), LogOf(b))
    BY <1>2 DEF LogsIInv, Several, LogsInv, LogInv, Agreement, Fragments
  <2>2. PICK k \in Seq(LogEntry), l \in Seq(LogEntry) : k = log[a] /\ l = log[b]
    BY DEF LogsIInv, VoteInv, TypeOK
  <2>3. /\ Len(k) \in Nat /\ Len(l) \in Nat /\ i \in 1..Len(k) /\ i \in 1..Len(l)
    BY <2>2, LenProperties
  <2>4. /\ i \in Nat /\ Within(Whole(k), i) /\ Within(Whole(l), i)
        /\ TermAt(Whole(k), i) = TermAt(Whole(l), i)
    BY <2>2, <2>3, WholeType
  <2>5. ASSUME NEW j \in 1..i PROVE k[j] = l[j]
    <3>1. j \in Nat /\ j <= i /\ 0 < j /\ j \in 1..Len(k) /\ j \in 1..Len(l)
      BY <2>3
    <3>2. Within(Whole(k), j) /\ Within(Whole(l), j)
      BY <3>1, WholeType
    <3>3. Same(Whole(k), Whole(l), j)
      BY <2>1, <2>2, <2>4, <3>1, <3>2 DEF Agree, LogOf
    <3> QED BY <3>1, <3>3, WholeType DEF Same
  <2> QED BY <2>2, <2>5
<1> QED BY <1>1, <1>2

\* Two logs with the same term at a position are the same up to there, in any
\* cluster, whatever batches are lost, late, repeated or out of order.
THEOREM LogsMatch == Spec => []LogMatching
<1>1. LogsIInv => LogMatching
  <2> SUFFICES ASSUME LogsIInv, NEW a \in Node, NEW b \in Node,
                      NEW i \in 1..least(Len(log[a]), Len(log[b])), log[a][i].term = log[b][i].term
               PROVE  SubSeq(log[a], 1, i) = SubSeq(log[b], 1, i)
    BY DEF LogMatching
  <2>1. PICK k \in Seq(LogEntry), l \in Seq(LogEntry) : k = log[a] /\ l = log[b]
    BY DEF LogsIInv, VoteInv, TypeOK
  <2>2. /\ i \in 1..Len(k) /\ i <= Len(l) /\ i \in Nat /\ Len(k) \in Nat /\ Len(l) \in Nat
    BY <2>1, LenProperties DEF least
  <2>3. \A j \in 1..i : k[j] = l[j]
    BY <2>1, <2>2, EntriesAgree
  <2>4. \A j \in 1..i : k[j] \in LogEntry /\ l[j] \in LogEntry
    <3>1. \A j \in 1..i : j \in 1..Len(k) /\ j \in 1..Len(l)
      BY <2>2
    <3> QED BY <3>1, ElementOfSeq
  <2>5. /\ SubSeq(k, 1, i) \in Seq(LogEntry) /\ SubSeq(l, 1, i) \in Seq(LogEntry)
        /\ Len(SubSeq(k, 1, i)) = i /\ Len(SubSeq(l, 1, i)) = i
        /\ \A j \in 1..i : SubSeq(k, 1, i)[j] = k[j] /\ SubSeq(l, 1, i)[j] = l[j]
    <3>1. i - 1 + 1 = i /\ 1 <= i /\ 1 \in Int /\ i \in Int /\ \A j \in 1..i : 1 + j - 1 = j
      BY <2>2
    <3>2. /\ SubSeq(k, 1, i) \in Seq(LogEntry)
          /\ Len(SubSeq(k, 1, i)) = IF 1 <= i THEN i - 1 + 1 ELSE 0
          /\ \A j \in 1..(i - 1 + 1) : SubSeq(k, 1, i)[j] = k[1 + j - 1]
      BY <2>4, <3>1, SubSeqProperties
    <3>3. /\ SubSeq(l, 1, i) \in Seq(LogEntry)
          /\ Len(SubSeq(l, 1, i)) = IF 1 <= i THEN i - 1 + 1 ELSE 0
          /\ \A j \in 1..(i - 1 + 1) : SubSeq(l, 1, i)[j] = l[1 + j - 1]
      BY <2>4, <3>1, SubSeqProperties
    <3> QED BY <3>1, <3>2, <3>3
  <2> QED BY <2>1, <2>3, <2>5, SeqEqual
<1> QED BY <1>1, LogsAlways, PTL

\* While a node leads, no log holds an entry of its term that it lacks itself.
THEOREM LeaderHoldsItsTerm == Spec => []EntriesOfTermAtLeader
<1>1. LogsIInv => EntriesOfTermAtLeader
  <2> SUFFICES ASSUME LogsIInv, NEW x \in Node, NEW n \in Node, NEW i \in 1..Len(log[n]),
                      state[x] = "leader", log[n][i].term = current_term[x]
               PROVE  i <= Len(log[x]) /\ log[x][i] = log[n][i]
    BY DEF EntriesOfTermAtLeader
  <2>1. PICK k \in Seq(LogEntry), l \in Seq(LogEntry) : k = log[x] /\ l = log[n]
    BY DEF LogsIInv, VoteInv, TypeOK
  <2>2. Len(k) \in Nat /\ Len(l) \in Nat /\ i \in 1..Len(l) /\ i \in Nat \ {0}
    BY <2>1, LenProperties
  <2>3. CASE x = n
    BY <2>1, <2>2, <2>3
  <2>4. CASE x # n
    <3>1. AtLeader
      BY <2>4 DEF LogsIInv, Several, LogsInv, LogInv
    <3>2. Within(Whole(l), i) /\ TermAt(Whole(l), i) = current_term[x]
      BY <2>1, <2>2, WholeType
    <3>3. Within(Whole(k), i) /\ TermAt(Whole(k), i) = current_term[x]
      BY <2>1, <2>2, <3>1, <3>2 DEF AtLeader, Fragments, LogOf
    <3>4. i \in 1..Len(k) /\ k[i].term = current_term[x]
      BY <2>2, <3>3, WholeType
    <3> QED BY <2>1, <2>2, <3>4, EntriesAgree
  <2> QED BY <2>3, <2>4
<1> QED BY <1>1, LogsAlways, PTL

\* The positions a leader keeps for its peers stay within its log whatever
\* replies arrive, however late or often: what a heartbeat reads is there.
THEOREM IndicesStayInLog == Spec => []ReplicationIndicesInLog
<1>1. LogsIInv => ReplicationIndicesInLog
  <2>1. CASE Several
    BY <2>1 DEF LogsIInv, LogsInv, IndexInv
  <2>2. CASE ~Several
    BY <2>2 DEF Several, ReplicationIndicesInLog
  <2> QED BY <2>1, <2>2
<1> QED BY <1>1, LogsAlways, PTL

-----------------------------------------------------------------------------
(***************************************************************************)
(* Crashes and restarts (KvDurable).  A restart may take a node back to an *)
(* earlier term, in which it was the leader or had voted.  The records     *)
(* reach far enough: every vote a node asked to be counted, its own        *)
(* included, is on record, so the node that comes back is bound by it.     *)
(***************************************************************************)

-----------------------------------------------------------------------------
(* The inductive invariant, beside VoteInv. *)

Record == [term : Nat, voted_for : Node \union {Nil}, entries : Seq(LogEntry)]

WalTypeOK == wal \in [Node -> Record]

NoNewerRecord == \A n \in Node : wal[n].term <= current_term[n]

\* A vote a node holds is its last record.
VoteOnRecord ==
  \A n \in Node : voted_for[n] # Nil =>
    wal[n].term = current_term[n] /\ wal[n].voted_for = voted_for[n]

\* A vote sent is on record, unless a newer one is, or one sent in the same term.
GrantOnRecord ==
  \A p, c \in Node, t \in Nat : Granted(p, c, t) =>
    /\ wal[p].term >= t
    /\ wal[p].term = t => \E v \in Node : wal[p].voted_for = v /\ Granted(p, v, t)

\* A node that sent a vote follows while the term lasts, and holds a vote it sent.
GrantorFollows ==
  \A p, c \in Node, t \in Nat : (Granted(p, c, t) /\ current_term[p] = t) =>
    state[p] = "follower" /\ \E v \in Node : voted_for[p] = v /\ Granted(p, v, t)

\* The vote of a node that has led a term, for itself, is on record.
ElectionOnRecord ==
  \A x \in Node, t \in Nat : Elected(x, t) =>
    /\ wal[x].term >= t
    /\ wal[x].term = t => wal[x].voted_for = x

RecordInv ==
  /\ WalTypeOK /\ NoNewerRecord /\ VoteOnRecord /\ GrantOnRecord /\ GrantorFollows
  /\ ElectionOnRecord

DurableInv == VoteInv /\ RecordInv

-----------------------------------------------------------------------------
(* What a step of node n may do to terms, roles and messages. *)

Others(n) ==
  \A p \in Node \ {n} : /\ current_term'[p] = current_term[p] /\ state'[p] = state[p]
                        /\ voted_for'[p] = voted_for[p] /\ log'[p] = log[p]

\* A step never goes back a term, and makes no follower a leader within one.
TermMove(n) ==
  /\ current_term'[n] >= current_term[n]
  /\ (state[n] = "follower" /\ current_term'[n] = current_term[n]) => state'[n] = "follower"

\* A vote sent is the one the node now holds, and it is a follower.
GrantMove(n) ==
  \A p, c \in Node, t \in Nat :
    /\ Granted(p, c, t) => Granted(p, c, t)'
    /\ Granted(p, c, t)' => \/ Granted(p, c, t)
                            \/ /\ p = n /\ c = voted_for'[n] /\ t = current_term'[n]
                               /\ state'[n] = "follower"

\* Heartbeats are those of the node's current leadership.
ElectionMove(n) ==
  \A x \in Node, t \in Nat : Elected(x, t)' =>
    Elected(x, t) \/ (x = n /\ t = current_term'[n] /\ state'[n] = "leader")

StepOf(n) == Others(n) /\ TermMove(n) /\ GrantMove(n) /\ ElectionMove(n)

LEMMA KeptMoves ==
  ASSUME NEW n \in Node
  PROVE  (GrantsKept => GrantMove(n)) /\ (ElectionsKept => ElectionMove(n))
BY DEF GrantsKept, GrantMove, ElectionsKept, ElectionMove

LEMMA NothingSentMoves ==
  ASSUME NEW n \in Node, msgs' = msgs
  PROVE  GrantMove(n) /\ ElectionMove(n)
BY NothingSent, KeptMoves

LEMMA HeartbeatsMove ==
  ASSUME NEW n \in Node, NEW t \in Nat, NEW l, NEW peers, state'[n] = "leader", current_term'[n] = t,
         msgs' = msgs \union heartbeats(n, t, l, peers)
  PROVE  GrantMove(n) /\ ElectionMove(n)
<1> DEFINE sent == heartbeats(n, t, l, peers)
<1>1. \A m \in sent : m.type = "AppendEntries" /\ m.from = n /\ m.term = t
  BY HeartbeatFields
<1> HIDE DEF sent
<1>2. GrantsKept
  BY <1>1, NoGrantSent DEF sent
<1>3. ElectionMove(n)
  BY <1>1 DEF ElectionMove, Elected, sent
<1> QED BY <1>2, <1>3, KeptMoves

LEMMA StepDownMove ==
  ASSUME TypeOK, NEW n \in Node, NEW t \in Nat, stepDown(n, t), t >= current_term[n],
         UNCHANGED <<log, msgs>>
  PROVE  StepOf(n)
BY NothingSentMoves DEF stepDown, TypeOK, StepOf, Others, TermMove

LEMMA TickMove ==
  ASSUME TypeOK, NEW n \in Node, Tick(n)
  PROVE  StepOf(n)
<1>1. PICK t \in Nat : t = current_term[n]
  BY DEF TypeOK
<1>2. CASE startElection(n)
  <2>1. /\ current_term'[n] = t + 1
        /\ \A p \in Node \ {n} : current_term'[p] = current_term[p] /\ voted_for'[p] = voted_for[p]
    BY <1>1, <1>2 DEF startElection, TypeOK
  <2>2. TermMove(n)
    BY <1>1, <2>1 DEF TermMove
  <2>3. CASE becomeLeader(n, t + 1)
    <3>1. /\ state'[n] = "leader"
          /\ \A p \in Node \ {n} : state'[p] = state[p] /\ log'[p] = log[p]
          /\ msgs' = msgs \union heartbeats(n, t + 1, appendEntry(log[n], t + 1, Noop), freshPeers(log[n]))
      BY <2>3 DEF becomeLeader, TypeOK
    <3>2. t + 1 \in Nat
      OBVIOUS
    <3>3. GrantMove(n) /\ ElectionMove(n)
      BY <2>1, <3>1, <3>2, HeartbeatsMove
    <3> QED BY <2>1, <2>2, <3>1, <3>3 DEF StepOf, Others
  <2>4. CASE /\ state' = [state EXCEPT ![n] = "candidate"]
             /\ msgs' = msgs \union requestVotes(n, t + 1)
             /\ UNCHANGED log
    <3>1. \A m \in requestVotes(n, t + 1) : m.type = "RequestVote"
      BY DEF requestVotes
    <3>2. GrantsKept /\ ElectionsKept
      BY <2>4, <3>1, NoGrantSent, NoHeartbeatSent
    <3> QED BY <2>1, <2>2, <2>4, <3>2, KeptMoves DEF StepOf, Others, TypeOK
  <2> QED BY <1>1, <1>2, <2>3, <2>4 DEF startElection
<1>3. CASE sendHeartbeats(n)
  <2>1. /\ state[n] = "leader"
        /\ msgs' = msgs \union heartbeats(n, t, log[n], peer_states[n])
        /\ UNCHANGED nodeVars
    BY <1>1, <1>3 DEF sendHeartbeats
  <2>2. GrantMove(n) /\ ElectionMove(n)
    BY <1>1, <2>1, HeartbeatsMove DEF nodeVars
  <2> QED BY <1>1, <2>1, <2>2 DEF StepOf, Others, TermMove, nodeVars
<1>4. CASE noTimeout(n)
  BY <1>1, <1>4, NothingSentMoves DEF noTimeout, StepOf, Others, TermMove, nodeVars
<1> QED BY <1>2, <1>3, <1>4 DEF Tick

LEMMA SubmitMove ==
  ASSUME TypeOK, NEW n \in Node, NEW c \in Command, Submit(n, c)
  PROVE  StepOf(n)
BY NothingSentMoves DEF Submit, TypeOK, StepOf, Others, TermMove

LEMMA HandleRequestVoteMove ==
  ASSUME VoteInv, NEW m \in msgs, HandleRequestVote(m)
  PROVE  StepOf(m.to)
<1> USE DEF VoteInv
<1>1. PICK n \in Node, c \in Node, t \in Nat : c # n /\ m.to = n /\ m.from = c /\ m.term = t
  BY MessageFields DEF SentToOthers
<1> DEFINE vote == voteAt(n, t)
           granted == t >= current_term[n] /\ can_vote(vote, c) /\ log_ok(log[n], m)
           response == [type |-> "RequestVoteResponse", from |-> n, to |-> c,
                        term |-> most(current_term[n], t), vote_granted |-> granted]
<1>2. /\ current_term' = [current_term EXCEPT ![n] = most(@, t)]
      /\ state' = [state EXCEPT ![n] = IF t > current_term[n] THEN "follower" ELSE @]
      /\ voted_for' = [voted_for EXCEPT ![n] = IF granted THEN c ELSE vote]
      /\ msgs' = msgs \union {response}
      /\ UNCHANGED log
  BY <1>1 DEF HandleRequestVote, grants
<1>3. \A r \in {response} :
        /\ r.type = "RequestVoteResponse" /\ r.from = n /\ r.to = c
        /\ r.term = most(current_term[n], t) /\ r.vote_granted = granted
  OBVIOUS
<1>4. granted => t >= current_term[n] /\ can_vote(vote, c)
  OBVIOUS
<1> HIDE DEF granted, response
<1>5. current_term[n] \in Nat
  BY DEF TypeOK
<1>6. ElectionMove(n)
  BY <1>2, <1>3 DEF ElectionMove, Elected
<1>7. Others(n) /\ TermMove(n)
  BY <1>2, <1>5 DEF Others, TermMove, TypeOK, most
<1>8. granted => voted_for'[n] = c /\ current_term'[n] = most(current_term[n], t)
                   /\ state'[n] = "follower"
  <2>1. ASSUME granted, t = current_term[n] PROVE state[n] = "follower"
    BY <1>1, <1>4, <1>5, <2>1, KvRaftAssumption DEF can_vote, voteAt, OwnVote
  <2> QED BY <1>2, <1>4, <1>5, <2>1 DEF TypeOK
<1>9. GrantMove(n)
  BY <1>2, <1>3, <1>8 DEF GrantMove, Granted
<1> QED BY <1>1, <1>6, <1>7, <1>9 DEF StepOf

LEMMA HandleRequestVoteResponseMove ==
  ASSUME TypeOK, NEW m \in msgs, HandleRequestVoteResponse(m)
  PROVE  StepOf(m.to)
<1>1. PICK n \in Node, t \in Nat : m.to = n /\ m.term = t
  BY MessageFields
<1>2. PICK u \in Nat : u = current_term[n]
  BY DEF TypeOK
<1>3. \/ t > u /\ stepDown(n, t) /\ UNCHANGED <<log, msgs>>
      \/ UNCHANGED <<current_term, voted_for, log, state, msgs>>
      \/ state[n] = "candidate" /\ becomeLeader(n, u) /\ UNCHANGED <<current_term, voted_for>>
  BY <1>1, <1>2, Zenon DEF HandleRequestVoteResponse
<1>4. CASE t > u /\ stepDown(n, t) /\ UNCHANGED <<log, msgs>>
  BY <1>1, <1>2, <1>4, StepDownMove
<1>5. CASE UNCHANGED <<current_term, voted_for, log, state, msgs>>
  BY <1>1, <1>2, <1>5, NothingSentMoves DEF StepOf, Others, TermMove
<1>6. CASE state[n] = "candidate" /\ becomeLeader(n, u) /\ UNCHANGED <<current_term, voted_for>>
  <2>1. /\ state'[n] = "leader"
        /\ \A p \in Node \ {n} : state'[p] = state[p] /\ log'[p] = log[p]
        /\ msgs' = msgs \union heartbeats(n, u, appendEntry(log[n], u, Noop), freshPeers(log[n]))
    BY <1>6 DEF becomeLeader, TypeOK
  <2>2. GrantMove(n) /\ ElectionMove(n)
    BY <1>2, <1>6, <2>1, HeartbeatsMove
  <2> QED BY <1>1, <1>2, <1>6, <2>1, <2>2 DEF StepOf, Others, TermMove
<1> QED BY <1>3, <1>4, <1>5, <1>6

LEMMA HandleAppendEntriesMove ==
  ASSUME TypeOK, NEW m \in msgs, HandleAppendEntries(m)
  PROVE  StepOf(m.to)
<1>1. PICK n \in Node, l \in Node, t \in Nat : m.to = n /\ m.from = l /\ m.term = t
  BY MessageFields
<1>2. PICK u \in Nat : u = current_term[n]
  BY DEF TypeOK
<1>3. PICK r : r.type = "AppendEntriesResponse" /\ msgs' = msgs \union {r}
  BY <1>1, Zenon DEF HandleAppendEntries
<1>4. GrantsKept /\ ElectionsKept
  BY <1>3 DEF GrantsKept, Granted, ElectionsKept, Elected
<1>5. \/ UNCHANGED <<current_term, state, voted_for>>
      \/ t >= u /\ stepDown(n, t)
  BY <1>1, <1>2 DEF HandleAppendEntries, nodeVars
<1>6. \A p \in Node \ {n} : log'[p] = log[p]
  BY <1>1 DEF HandleAppendEntries, nodeVars, TypeOK
<1>7. Others(n) /\ TermMove(n)
  BY <1>2, <1>5, <1>6 DEF Others, TermMove, stepDown, TypeOK
<1> QED BY <1>1, <1>4, <1>7, KeptMoves DEF StepOf

LEMMA HandleAppendEntriesResponseMove ==
  ASSUME TypeOK, NEW m \in msgs, HandleAppendEntriesResponse(m)
  PROVE  StepOf(m.to)
<1>1. PICK n \in Node, t \in Nat : m.to = n /\ m.term = t
  BY MessageFields
<1>2. PICK u \in Nat : u = current_term[n]
  BY DEF TypeOK
<1>3. /\ UNCHANGED <<log, msgs>>
      /\ (t > u /\ stepDown(n, t)) \/ UNCHANGED <<current_term, state, voted_for>>
  BY <1>1, <1>2, Zenon DEF HandleAppendEntriesResponse
<1>4. CASE t > u /\ stepDown(n, t)
  BY <1>1, <1>2, <1>3, <1>4, StepDownMove
<1>5. CASE UNCHANGED <<current_term, state, voted_for>>
  BY <1>1, <1>2, <1>3, <1>5, NothingSentMoves DEF StepOf, Others, TermMove
<1> QED BY <1>3, <1>4, <1>5

-----------------------------------------------------------------------------
(* The vote on record after each handler. *)

\* It is the one the node now holds, or, if it holds none, the last one.
VoteWritten(n) ==
  IF voted_for'[n] = Nil
  THEN wal'[n].term = wal[n].term /\ wal'[n].voted_for = wal[n].voted_for
  ELSE wal'[n].term = current_term'[n] /\ wal'[n].voted_for = voted_for'[n]

WalStep(n) == WalTypeOK' /\ VoteWritten(n) /\ \A p \in Node \ {n} : wal'[p] = wal[p]

\* The node forgets its vote, or keeps it with its term.
VoteLeft(n) ==
  voted_for'[n] = Nil \/ (voted_for'[n] = voted_for[n] /\ current_term'[n] = current_term[n])

LEMMA RecordWritten ==
  ASSUME RecordInv, NEW n \in Node, NEW r \in Record, wal' = [wal EXCEPT ![n] = r],
         \/ VoteLeft(n) /\ r.term = wal[n].term /\ r.voted_for = wal[n].voted_for
         \/ r.term = current_term'[n] /\ r.voted_for = voted_for'[n] /\ voted_for'[n] # Nil
  PROVE  WalStep(n)
<1>1. wal'[n] = r /\ \A p \in Node \ {n} : wal'[p] = wal[p]
  BY DEF RecordInv, WalTypeOK
<1>2. WalTypeOK'
  BY DEF RecordInv, WalTypeOK
<1>3. VoteWritten(n)
  BY <1>1 DEF VoteWritten, VoteLeft, RecordInv, VoteOnRecord
<1> QED BY <1>1, <1>2, <1>3 DEF WalStep

LEMMA NothingWritten ==
  ASSUME RecordInv, NEW n \in Node, wal' = wal, VoteLeft(n)
  PROVE  WalStep(n)
BY DEF RecordInv, WalTypeOK, WalStep, VoteWritten, VoteLeft, VoteOnRecord

LEMMA EntriesAdded ==
  ASSUME NEW r \in Record, NEW s \in Seq(LogEntry)
  PROVE  /\ writeEntries(r, s) \in Record /\ writeEntries(r, s).entries = r.entries \o s
         /\ writeEntries(r, s).term = r.term /\ writeEntries(r, s).voted_for = r.voted_for
<1>1. r.entries \o s \in Seq(LogEntry)
  BY ConcatProperties DEF Record
<1> QED BY <1>1 DEF writeEntries, Record

LEMMA EntriesWritten ==
  ASSUME RecordInv, NEW n \in Node, NEW s \in Seq(LogEntry),
         wal' = [wal EXCEPT ![n] = writeEntries(wal[n], s)], VoteLeft(n)
  PROVE  WalStep(n)
<1>1. wal[n] \in Record
  BY DEF RecordInv, WalTypeOK
<1> QED BY <1>1, EntriesAdded, RecordWritten

LEMMA VoteAdded ==
  ASSUME NEW r \in Record, NEW t \in Nat, NEW c \in Node
  PROVE  /\ writeVote(r, t, c) \in Record /\ writeVote(r, t, c).entries = r.entries
         /\ writeVote(r, t, c).term = t /\ writeVote(r, t, c).voted_for = c
BY DEF writeVote, Record

LEMMA EntryRecordType ==
  ASSUME TypeOK, NEW n \in Node, NEW t \in Nat, NEW c \in Command \union {Noop}
  PROVE  entryRecord(n, t, c) \in Seq(LogEntry)
<1>1. Len(log[n]) + 1 \in Nat
  BY LenProperties DEF TypeOK
<1>2. [term |-> t, index |-> Len(log[n]) + 1, command |-> c] \in LogEntry
  BY <1>1, KvRaftAssumption DEF LogEntry
<1> QED BY <1>2 DEF entryRecord

LEMMA TickWal ==
  ASSUME DurableInv, NEW n \in Node, DurableTick(n)
  PROVE  Tick(n) /\ WalStep(n)
<1> USE DEF DurableInv, VoteInv
<1>1. Tick(n)
  BY DEF DurableTick, Tick
<1>2. CASE startElection(n) /\ Writes(n, electionRecords(n), {})
  <2>1. PICK t \in Nat : t = current_term[n]
    BY DEF TypeOK
  <2>2. current_term'[n] = t + 1 /\ voted_for'[n] = n /\ t + 1 \in Nat
    BY <1>2, <2>1 DEF startElection, TypeOK
  <2>3. PICK w \in Record : w = wal[n]
    BY DEF RecordInv, WalTypeOK
  <2>4. PICK v \in Record : v = writeVote(w, t + 1, n) /\ v.term = t + 1 /\ v.voted_for = n
    BY <2>2, VoteAdded
  <2>5. entryRecord(n, t + 1, Noop) \in Seq(LogEntry)
    BY <2>2, EntryRecordType
  <2>6. PICK r \in Record : r = electionRecords(n) /\ r.term = t + 1 /\ r.voted_for = n
    <3>1. electionRecords(n) \in {v, writeEntries(v, entryRecord(n, t + 1, Noop))}
      BY <2>1, <2>3, <2>4 DEF electionRecords
    <3> QED BY <2>4, <2>5, <3>1, EntriesAdded
  <2>7. wal' = [wal EXCEPT ![n] = r]
    BY <1>2, <2>6 DEF Writes
  <2> QED BY <1>1, <2>2, <2>6, <2>7, RecordWritten, KvRaftAssumption
<1>3. CASE (sendHeartbeats(n) \/ noTimeout(n)) /\ WritesNothing
  BY <1>1, <1>3, NothingWritten
     DEF sendHeartbeats, noTimeout, nodeVars, WritesNothing, walVars, VoteLeft
<1> QED BY <1>2, <1>3 DEF DurableTick

LEMMA SubmitWal ==
  ASSUME DurableInv, NEW n \in Node, NEW c \in Command, DurableSubmit(n, c)
  PROVE  WalStep(n)
<1> USE DEF DurableInv, VoteInv
<1>1. current_term[n] \in Nat
  BY DEF TypeOK
<1>2. entryRecord(n, current_term[n], c) \in Seq(LogEntry)
  BY <1>1, EntryRecordType
<1>3. VoteLeft(n)
  BY DEF DurableSubmit, Submit, VoteLeft
<1> QED BY <1>2, <1>3, EntriesWritten DEF DurableSubmit, Writes

LEMMA RequestVoteWal ==
  ASSUME DurableInv, NEW m \in msgs, DurableRequestVote(m)
  PROVE  WalStep(m.to)
<1> USE DEF DurableInv, VoteInv
<1>1. PICK n \in Node, c \in Node, t \in Nat : m.to = n /\ m.from = c /\ m.term = t
  BY MessageFields
<1>2. current_term[n] \in Nat
  BY DEF TypeOK
<1>3. /\ current_term'[n] = most(current_term[n], t)
      /\ voted_for'[n] = IF grants(m) THEN c ELSE voteAt(n, t)
  BY <1>1 DEF DurableRequestVote, HandleRequestVote, TypeOK
<1>4. CASE grants(m)
  <2>1. current_term'[n] = t /\ voted_for'[n] = c
    BY <1>1, <1>2, <1>3, <1>4 DEF grants, most
  <2>2. PICK w \in Record : w = wal[n]
    BY DEF RecordInv, WalTypeOK
  <2>3. PICK r \in Record : r = grantRecords(m) /\ r.term = t /\ r.voted_for = c
    BY <1>1, <1>4, <2>2, VoteAdded DEF grantRecords
  <2>4. wal' = [wal EXCEPT ![n] = r]
    BY <1>1, <2>3 DEF DurableRequestVote, Writes
  <2> QED BY <1>1, <2>1, <2>3, <2>4, RecordWritten, KvRaftAssumption
<1>5. CASE ~grants(m)
  <2>1. wal' = wal
    BY <1>1, <1>5 DEF DurableRequestVote, Writes, grantRecords, RecordInv, WalTypeOK
  <2>2. VoteLeft(n)
    BY <1>2, <1>3, <1>5 DEF VoteLeft, voteAt, most
  <2> QED BY <1>1, <2>1, <2>2, NothingWritten
<1> QED BY <1>4, <1>5

LEMMA RequestVoteResponseWal ==
  ASSUME DurableInv, NEW m \in msgs, DurableRequestVoteResponse(m)
  PROVE  WalStep(m.to)
<1> USE DEF DurableInv, VoteInv
<1>1. PICK n \in Node, t \in Nat : m.to = n /\ m.term = t
  BY MessageFields
<1>2. VoteLeft(n)
  BY <1>1 DEF DurableRequestVoteResponse, HandleRequestVoteResponse, stepDown, TypeOK, VoteLeft
<1>3. current_term[n] \in Nat
  BY DEF TypeOK
<1>4. entryRecord(n, current_term[n], Noop) \in Seq(LogEntry)
  BY <1>3, EntryRecordType
<1>5. CASE victoryRecords(m) = wal[n]
  <2>1. wal' = wal
    BY <1>1, <1>5 DEF DurableRequestVoteResponse, Writes, RecordInv, WalTypeOK
  <2> QED BY <1>1, <1>2, <2>1, NothingWritten
<1>6. CASE victoryRecords(m) = writeEntries(wal[n], entryRecord(n, current_term[n], Noop))
  <2>1. wal' = [wal EXCEPT ![n] = writeEntries(wal[n], entryRecord(n, current_term[n], Noop))]
    BY <1>1, <1>6 DEF DurableRequestVoteResponse, Writes
  <2> QED BY <1>1, <1>2, <1>4, <2>1, EntriesWritten
<1> QED BY <1>1, <1>5, <1>6 DEF victoryRecords

\* What a batch, or the beginning of one, adds to the records.
LEMMA AppendedType ==
  ASSUME NEW m \in AppendEntriesRequest
  PROVE  appended(m) \in Seq(LogEntry)
<1>1. PICK es \in Seq(LogEntry) : es = m.entries
  BY DEF AppendEntriesRequest
<1>2. present(log[m.to], m) \in Nat
  <2> DEFINE S == {j \in 1..Len(es) : \A i \in 1..j :
               /\ m.prev_log_index + i <= Len(log[m.to])
               /\ log[m.to][m.prev_log_index + i].term = es[i].term}
  <2>1. IsFiniteSet(1..Len(es)) /\ S \in SUBSET (1..Len(es))
    BY <1>1, LenProperties, FS_Interval
  <2>2. Cardinality(S) \in Nat
    BY <2>1, FS_Subset, FS_CardinalityType
  <2> QED BY <1>1, <2>2 DEF present
<1>3. PICK p \in Nat : p = present(log[m.to], m)
  BY <1>2
<1>4. Len(es) \in Nat /\ \A i \in (p + 1)..Len(es) : es[i] \in LogEntry
  BY <1>3, LenProperties, ElementOfSeq
<1>5. SubSeq(es, p + 1, Len(es)) \in Seq(LogEntry)
  BY <1>3, <1>4, SubSeqProperties
<1>6. appended(m) = IF accepts(m) THEN SubSeq(es, p + 1, Len(es)) ELSE <<>>
  BY <1>1, <1>3 DEF appended
<1> QED BY <1>5, <1>6, EmptySeq

LEMMA AppendEntriesWal ==
  ASSUME DurableInv, NEW m \in msgs, DurableAppendEntries(m)
  PROVE  WalStep(m.to)
<1> USE DEF DurableInv, VoteInv
<1>1. PICK n \in Node, t \in Nat : m.to = n /\ m.term = t
  BY MessageFields
<1>2. m \in AppendEntriesRequest
  BY MessageFields DEF DurableAppendEntries, HandleAppendEntries, reaches
<1>3. appended(m) \in Seq(LogEntry)
  BY <1>2, AppendedType
<1>4. \/ UNCHANGED <<current_term, state, voted_for>>
      \/ stepDown(n, t)
  BY <1>1 DEF DurableAppendEntries, HandleAppendEntries, nodeVars
<1>5. VoteLeft(n)
  BY <1>4 DEF stepDown, TypeOK, VoteLeft
<1>6. wal' = [wal EXCEPT ![n] = writeEntries(wal[n], appended(m))]
  BY <1>1 DEF DurableAppendEntries, Writes
<1> QED BY <1>1, <1>3, <1>5, <1>6, EntriesWritten

LEMMA AppendEntriesResponseWal ==
  ASSUME DurableInv, NEW m \in msgs, DurableAppendEntriesResponse(m)
  PROVE  WalStep(m.to)
<1> USE DEF DurableInv, VoteInv
<1>1. PICK n \in Node, t \in Nat : m.to = n /\ m.term = t
  BY MessageFields
<1>2. stepDown(n, t) \/ UNCHANGED <<current_term, state, voted_for>>
  BY <1>1, Zenon DEF DurableAppendEntriesResponse, HandleAppendEntriesResponse
<1>3. VoteLeft(n)
  BY <1>2 DEF stepDown, TypeOK, VoteLeft
<1>4. wal' = wal
  BY DEF DurableAppendEntriesResponse, WritesNothing, walVars
<1> QED BY <1>1, <1>3, <1>4, NothingWritten

Ends == (\E n \in Node : Crash(n)) \/ \E m \in msgs, k \in Nat : CrashAppending(m, k)

\* A handler with its records is a step of the node alone.
LEMMA WrittenStep ==
  ASSUME DurableInv, DurableNext, ~Ends, ~\E n \in Node : Restart(n)
  PROVE  Next /\ \E n \in Node : StepOf(n) /\ WalStep(n)
<1> USE DEF DurableInv, VoteInv
<1>1. ASSUME NEW n \in Node, DurableTick(n)
      PROVE  Next /\ \E p \in Node : StepOf(p) /\ WalStep(p)
  BY <1>1, TickWal, TickMove DEF Next
<1>2. ASSUME NEW n \in Node, NEW c \in Command, DurableSubmit(n, c)
      PROVE  Next /\ \E p \in Node : StepOf(p) /\ WalStep(p)
  BY <1>2, SubmitWal, SubmitMove DEF Next, DurableSubmit
<1>3. ASSUME NEW m \in msgs, DurableRequestVote(m)
      PROVE  Next /\ \E p \in Node : StepOf(p) /\ WalStep(p)
  BY <1>3, RequestVoteWal, HandleRequestVoteMove, MessageFields DEF Next, DurableRequestVote
<1>4. ASSUME NEW m \in msgs, DurableRequestVoteResponse(m)
      PROVE  Next /\ \E p \in Node : StepOf(p) /\ WalStep(p)
  BY <1>4, RequestVoteResponseWal, HandleRequestVoteResponseMove, MessageFields
     DEF Next, DurableRequestVoteResponse
<1>5. ASSUME NEW m \in msgs, DurableAppendEntries(m)
      PROVE  Next /\ \E p \in Node : StepOf(p) /\ WalStep(p)
  BY <1>5, AppendEntriesWal, HandleAppendEntriesMove, MessageFields DEF Next, DurableAppendEntries
<1>6. ASSUME NEW m \in msgs, DurableAppendEntriesResponse(m)
      PROVE  Next /\ \E p \in Node : StepOf(p) /\ WalStep(p)
  BY <1>6, AppendEntriesResponseWal, HandleAppendEntriesResponseMove, MessageFields
     DEF Next, DurableAppendEntriesResponse
<1>7. \A k \in 0..(MaxEntriesPerRpc - 1) : k \in Nat
  BY KvRaftAssumption
<1> QED BY <1>1, <1>2, <1>3, <1>4, <1>5, <1>6, <1>7 DEF DurableNext, Ends

-----------------------------------------------------------------------------
(* Every step keeps the invariant. *)

LEMMA RecordStep ==
  ASSUME DurableInv, VoteInv', Next, NEW n \in Node, StepOf(n), WalStep(n)
  PROVE  RecordInv'
<1> USE DEF DurableInv, RecordInv
<1>1. WalTypeOK' /\ VoteWritten(n) /\ \A p \in Node \ {n} : wal'[p] = wal[p]
  BY DEF WalStep
<1>2. /\ \A p \in Node : /\ current_term[p] \in Nat /\ current_term'[p] \in Nat
                         /\ wal[p].term \in Nat /\ wal'[p].term \in Nat
      /\ current_term'[n] >= current_term[n]
      /\ Others(n) /\ \A p \in Node \ {n} : wal'[p] = wal[p]
  BY <1>1 DEF VoteInv, TypeOK, WalTypeOK, Record, StepOf, TermMove
<1>3. \/ wal'[n].term = wal[n].term /\ wal'[n].voted_for = wal[n].voted_for
      \/ /\ voted_for'[n] # Nil
         /\ wal'[n].term = current_term'[n] /\ wal'[n].voted_for = voted_for'[n]
  BY <1>1 DEF VoteWritten
<1>4. NoNewerRecord'
  <2>1. wal[n].term <= current_term[n]
    BY DEF NoNewerRecord
  <2>2. wal'[n].term <= current_term'[n]
    BY <1>2, <1>3, <2>1
  <2> QED BY <1>2, <2>2 DEF NoNewerRecord, Others
<1>5. VoteOnRecord'
  BY <1>1, <1>2 DEF VoteOnRecord, Others, VoteWritten
<1>6. wal'[n].term >= wal[n].term
  BY <1>2, <1>3 DEF NoNewerRecord
<1>7. GrantorFollows'
  <2> SUFFICES ASSUME NEW p \in Node, NEW c \in Node, NEW t \in Nat,
                      Granted(p, c, t)', current_term'[p] = t
               PROVE  /\ state'[p] = "follower"
                      /\ \E v \in Node : voted_for'[p] = v /\ Granted(p, v, t)'
    BY DEF GrantorFollows
  <2>1. CASE ~Granted(p, c, t)
    BY <2>1 DEF StepOf, GrantMove
  <2>2. CASE Granted(p, c, t) /\ p # n
    <3>1. PICK v \in Node : state[p] = "follower" /\ voted_for[p] = v /\ Granted(p, v, t)
      BY <1>2, <2>2 DEF GrantorFollows, Others
    <3> QED BY <1>2, <2>2, <3>1 DEF StepOf, GrantMove, Others
  <2>3. CASE Granted(p, c, t) /\ p = n
    <3>1. current_term[n] >= t
      BY <2>3 DEF VoteInv, GrantsArePast
    <3>2. current_term[n] = t
      BY <1>2, <2>3, <3>1
    <3>3. PICK v \in Node : state[n] = "follower" /\ voted_for[n] = v /\ Granted(n, v, t)
      BY <2>3, <3>2 DEF GrantorFollows
    <3>4. voted_for'[n] = v
      BY <2>3, <3>2, <3>3, FollowerKeepsVoteStep, KvRaftAssumption DEF VoteInv
    <3>5. state'[n] = "follower"
      BY <2>3, <3>2, <3>3 DEF StepOf, TermMove
    <3> QED BY <2>3, <3>3, <3>4, <3>5 DEF StepOf, GrantMove
  <2> QED BY <2>1, <2>2, <2>3
<1>8. GrantOnRecord'
  <2> SUFFICES ASSUME NEW p \in Node, NEW c \in Node, NEW t \in Nat, Granted(p, c, t)'
               PROVE  /\ wal'[p].term >= t
                      /\ wal'[p].term = t =>
                           \E v \in Node : wal'[p].voted_for = v /\ Granted(p, v, t)'
    BY DEF GrantOnRecord
  <2>1. CASE ~Granted(p, c, t)
    <3>1. p = n /\ c = voted_for'[n] /\ t = current_term'[n]
      BY <2>1 DEF StepOf, GrantMove
    <3>2. wal'[n].term = t /\ wal'[n].voted_for = c
      BY <1>1, <3>1, KvRaftAssumption DEF VoteWritten
    <3> QED BY <1>2, <3>1, <3>2
  <2>2. CASE /\ Granted(p, c, t)
             /\ wal'[p].term = wal[p].term /\ wal'[p].voted_for = wal[p].voted_for
    BY <2>2 DEF GrantOnRecord, StepOf, GrantMove
  <2>3. CASE /\ Granted(p, c, t) /\ p = n /\ voted_for'[n] # Nil
             /\ wal'[n].term = current_term'[n] /\ wal'[n].voted_for = voted_for'[n]
    <3>1. wal[n].term >= t
      BY <2>3 DEF GrantOnRecord
    <3>2. wal'[n].term >= t
      BY <1>2, <1>6, <3>1
    <3>3. current_term'[n] = t => \E v \in Node : voted_for'[n] = v /\ Granted(n, v, t)'
      BY <1>7, <2>3 DEF GrantorFollows
    <3> QED BY <2>3, <3>2, <3>3
  <2> QED BY <1>2, <1>3, <2>1, <2>2, <2>3
<1>9. ElectionOnRecord'
  <2> SUFFICES ASSUME NEW x \in Node, NEW t \in Nat, Elected(x, t)'
               PROVE  wal'[x].term >= t /\ (wal'[x].term = t => wal'[x].voted_for = x)
    BY DEF ElectionOnRecord
  <2>1. CASE ~Elected(x, t)
    <3>1. x = n /\ t = current_term'[n] /\ state'[n] = "leader"
      BY <2>1 DEF StepOf, ElectionMove
    <3>2. voted_for'[n] = n
      BY <3>1 DEF VoteInv, OwnVote
    <3>3. wal'[n].term = t /\ wal'[n].voted_for = n
      BY <1>1, <3>1, <3>2, KvRaftAssumption DEF VoteWritten
    <3> QED BY <1>2, <3>1, <3>3
  <2>2. CASE /\ Elected(x, t)
             /\ wal'[x].term = wal[x].term /\ wal'[x].voted_for = wal[x].voted_for
    BY <2>2 DEF ElectionOnRecord
  <2>3. CASE /\ Elected(x, t) /\ x = n
             /\ wal'[n].term = current_term'[n] /\ wal'[n].voted_for = voted_for'[n]
    <3>1. wal[n].term >= t
      BY <2>3 DEF ElectionOnRecord
    <3>2. wal'[n].term >= t
      BY <1>2, <1>6, <3>1
    <3>3. HasLed(n, t)'
      BY <2>3 DEF VoteInv, ElectedInv
    <3> QED BY <1>2, <2>3, <3>2, <3>3 DEF HasLed
  <2> QED BY <1>2, <1>3, <2>1, <2>2, <2>3
<1> QED BY <1>1, <1>4, <1>5, <1>7, <1>8, <1>9

-----------------------------------------------------------------------------
(* A crash takes nothing from the state but the process, and what the append *)
(* loop had no time for.                                                      *)

VotesStand(w) ==
  \A p \in Node : w[p].term = wal[p].term /\ w[p].voted_for = wal[p].voted_for

\* What RecordInv says stands while terms, roles, votes, their records and messages do.
LEMMA RecordsStand ==
  ASSUME RecordInv, msgs' = msgs, WalTypeOK', VotesStand(wal'),
         UNCHANGED <<current_term, voted_for, state>>
  PROVE  RecordInv'
<1> USE DEF RecordInv, VotesStand
<1>1. GrantsKept /\ ElectionsKept
  BY NothingSent
<1>2. NoNewerRecord' /\ VoteOnRecord'
  BY DEF NoNewerRecord, VoteOnRecord
<1>3. GrantOnRecord' /\ GrantorFollows'
  BY <1>1 DEF GrantOnRecord, GrantorFollows, GrantsKept
<1>4. ElectionOnRecord'
  BY <1>1 DEF ElectionOnRecord, ElectionsKept
<1> QED BY <1>2, <1>3, <1>4

LEMMA EndStep ==
  ASSUME DurableInv, NEW n \in Node, ends(n), log' \in [Node -> Seq(LogEntry)], WalTypeOK',
         VotesStand(wal')
  PROVE  DurableInv'
<1>1. /\ UNCHANGED <<current_term, voted_for, state, commit_index, peer_states, last_applied,
                     applied, msgs>>
      /\ panicked' = panicked \union {n}
  BY DEF ends
<1>2. TypeOK'
  BY <1>1 DEF DurableInv, VoteInv, TypeOK
<1>3. VoteInv'
  BY <1>1, <1>2, NothingSent, QuietStep DEF DurableInv, VoteInv
<1>4. RecordInv'
  BY <1>1, RecordsStand DEF DurableInv
<1> QED BY <1>3, <1>4 DEF DurableInv

LEMMA CrashStep ==
  ASSUME DurableInv, NEW n \in Node, Crash(n)
  PROVE  DurableInv'
<1>1. log' = log /\ wal' = wal /\ ends(n)
  BY DEF Crash
<1>2. log' \in [Node -> Seq(LogEntry)] /\ WalTypeOK' /\ VotesStand(wal')
  BY <1>1 DEF DurableInv, VoteInv, TypeOK, RecordInv, WalTypeOK, VotesStand
<1> QED BY <1>1, <1>2, EndStep

\* The beginning of a batch is a batch the node accepts just as well.
LEMMA BatchBegun ==
  ASSUME NEW m \in AppendEntriesRequest, NEW k \in Nat, k <= Len(m.entries), accepts(m),
         NEW begun, begun = [m EXCEPT !.entries = SubSeq(@, 1, k)]
  PROVE  /\ begun \in AppendEntriesRequest /\ begun.to = m.to
         /\ begun.prev_log_index = m.prev_log_index /\ begun.entries = SubSeq(m.entries, 1, k)
         /\ Len(begun.entries) = k /\ \A i \in 1..k : begun.entries[i] = m.entries[i]
         /\ accepts(begun)
<1>1. PICK es \in Seq(LogEntry) : es = m.entries
  BY DEF AppendEntriesRequest
<1>2. Len(es) \in Nat /\ \A i \in 1..k : es[i] \in LogEntry
  BY <1>1, LenProperties, ElementOfSeq
<1>3. /\ SubSeq(es, 1, k) \in Seq(LogEntry) /\ Len(SubSeq(es, 1, k)) = k
      /\ \A i \in 1..k : SubSeq(es, 1, k)[i] = es[i]
  <2>1. /\ SubSeq(es, 1, k) \in Seq(LogEntry)
        /\ Len(SubSeq(es, 1, k)) = IF 1 <= k THEN k - 1 + 1 ELSE 0
        /\ \A i \in 1..(k - 1 + 1) : SubSeq(es, 1, k)[i] = es[1 + i - 1]
    BY <1>2, SubSeqProperties
  <2> QED BY <2>1
<1>4. /\ begun.entries = SubSeq(es, 1, k) /\ begun \in AppendEntriesRequest
      /\ begun.to = m.to /\ begun.term = m.term
      /\ begun.prev_log_index = m.prev_log_index /\ begun.prev_log_term = m.prev_log_term
  BY <1>1, <1>3 DEF AppendEntriesRequest
<1>5. accepts(begun)
  BY <1>4 DEF accepts, mismatch
<1> QED BY <1>1, <1>3, <1>4, <1>5

LEMMA CrashAppendingStep ==
  ASSUME DurableInv, NEW m \in msgs, NEW k \in Nat, CrashAppending(m, k)
  PROVE  DurableInv'
<1> USE DEF DurableInv, VoteInv
<1>1. PICK n \in Node : n = m.to
  BY MessageFields
<1>2. m \in AppendEntriesRequest /\ accepts(m) /\ k < Len(m.entries)
  BY MessageFields DEF CrashAppending
<1>3. Len(m.entries) \in Nat
  BY <1>2, LenProperties DEF AppendEntriesRequest
<1>4. PICK begun \in AppendEntriesRequest :
        /\ begun = [m EXCEPT !.entries = SubSeq(@, 1, k)]
        /\ begun.prev_log_index = m.prev_log_index
  <2>1. k <= Len(m.entries)
    BY <1>2, <1>3
  <2>2. PICK begun : begun = [m EXCEPT !.entries = SubSeq(@, 1, k)]
    OBVIOUS
  <2>3. begun \in AppendEntriesRequest /\ begun.prev_log_index = m.prev_log_index
    BY <1>2, <2>1, <2>2, BatchBegun
  <2> QED BY <2>2, <2>3
<1>5. appended(begun) \in Seq(LogEntry) /\ begun.entries \in Seq(LogEntry)
  BY AppendedType DEF AppendEntriesRequest
<1>6. /\ ends(n)
      /\ log' = [log EXCEPT ![n] = merge(log[n], m.prev_log_index, begun.entries)]
      /\ wal' = [wal EXCEPT ![n] = writeEntries(wal[n], appended(begun))]
  BY <1>1, <1>4 DEF CrashAppending
<1>7. log' \in [Node -> Seq(LogEntry)]
  <2>1. log[n] \in Seq(LogEntry) /\ m.prev_log_index \in 0..Len(log[n])
    BY <1>1, <1>2, LenProperties DEF accepts, AppendEntriesRequest, TypeOK
  <2>2. merge(log[n], m.prev_log_index, begun.entries) \in Seq(LogEntry)
    BY <1>5, <2>1, MergeType
  <2> QED BY <1>6, <2>2 DEF TypeOK
<1>8. wal[n] \in Record
  BY DEF RecordInv, WalTypeOK
<1>9. WalTypeOK' /\ VotesStand(wal')
  BY <1>5, <1>6, <1>8, EntriesAdded DEF RecordInv, WalTypeOK, VotesStand
<1> QED BY <1>6, <1>7, <1>9, EndStep

-----------------------------------------------------------------------------
(* A restart: the node goes back to the term and the vote on record. *)

LEMMA RecoveredType ==
  ASSUME NEW l \in Seq(LogEntry)
  PROVE  /\ [i \in 1..Len(l) |-> recovered(l[i])] \in Seq(LogEntry)
         /\ Len([i \in 1..Len(l) |-> recovered(l[i])]) = Len(l)
         /\ \A i \in 1..Len(l) : recovered(l[i]).term = l[i].term
<1> DEFINE again == [i \in 1..Len(l) |-> recovered(l[i])]
<1>1. Len(l) \in Nat
  BY LenProperties
<1>2. ASSUME NEW i \in 1..Len(l)
      PROVE  recovered(l[i]) \in LogEntry /\ recovered(l[i]).term = l[i].term
  <2>1. PICK e \in LogEntry : e = l[i]
    BY ElementOfSeq
  <2>2. Freed \in Payload
    BY DurableAssumption
  <2>3. [e EXCEPT !.command = Freed] \in LogEntry /\ [e EXCEPT !.command = Freed].term = e.term
    BY <2>2 DEF LogEntry
  <2> QED BY <2>1, <2>3 DEF recovered
<1>3. again \in [1..Len(l) -> LogEntry]
  BY <1>2
<1>4. again \in Seq(LogEntry)
  BY <1>1, <1>3, SeqDef
<1>5. Len(again) = Len(l)
  BY <1>1, <1>3, <1>4, LenProperties
<1> QED BY <1>2, <1>4, <1>5

LEMMA RestartType ==
  ASSUME TypeOK, WalTypeOK, NEW n \in Node, Restart(n)
  PROVE  TypeOK'
<1>1. PICK t \in Nat, v \in Node \union {Nil}, l \in Seq(LogEntry) :
        t = wal[n].term /\ v = wal[n].voted_for /\ l = wal[n].entries
  BY DEF WalTypeOK, Record
<1>2. PICK k \in Seq(LogEntry) : k = [i \in 1..Len(l) |-> recovered(l[i])]
  BY RecoveredType
<1>3. /\ current_term' = [current_term EXCEPT ![n] = t]
      /\ voted_for' = [voted_for EXCEPT ![n] = v]
      /\ log' = [log EXCEPT ![n] = k]
      /\ state' = [state EXCEPT ![n] = "follower"]
      /\ commit_index' = [commit_index EXCEPT ![n] = 0]
      /\ last_applied' = [last_applied EXCEPT ![n] = 0]
      /\ peer_states' = [peer_states EXCEPT ![n] = [p \in Node |-> NoPeer]]
      /\ panicked' = panicked \ {n}
      /\ applied' = [applied EXCEPT ![n] = {}]
      /\ msgs' = msgs
  BY <1>1, <1>2 DEF Restart, voteRecovered
<1>4. [p \in Node |-> NoPeer] \in [Node -> PeerState]
  BY DEF NoPeer, PeerState
<1> QED BY <1>3, <1>4 DEF TypeOK, State

LEMMA RestartStep ==
  ASSUME DurableInv, NEW n \in Node, Restart(n)
  PROVE  DurableInv'
<1> USE DEF DurableInv, VoteInv, RecordInv
<1>1. TypeOK'
  BY RestartType
<1>2. PICK t \in Nat : t = wal[n].term
  BY DEF WalTypeOK, Record
<1>3. /\ current_term'[n] = t /\ voted_for'[n] = wal[n].voted_for /\ state'[n] = "follower"
      /\ \A p \in Node \ {n} : /\ current_term'[p] = current_term[p] /\ state'[p] = state[p]
                               /\ voted_for'[p] = voted_for[p] /\ peer_states'[p] = peer_states[p]
      /\ msgs' = msgs /\ wal' = wal
  BY <1>2 DEF Restart, voteRecovered, TypeOK
<1>4. GrantsKept /\ ElectionsKept /\ SentToOthers'
  BY <1>3, NothingSent
<1>5. \A p \in Node : current_term[p] \in Nat /\ current_term'[p] \in Nat
  BY <1>1 DEF TypeOK
<1>6. OwnVote'
  BY <1>3 DEF OwnVote
<1>7. GrantsArePast'
  BY <1>2, <1>3, <1>4 DEF GrantsArePast, GrantOnRecord, GrantsKept
<1>8. CandidateInv'
  BY <1>3, <1>4, <1>5 DEF CandidateInv, GrantsKept, votes
<1>9. LeaderInv'
  BY <1>3, <1>4, <1>5 DEF LeaderInv, ElectionsKept
<1>10. ElectedInv'
  <2> SUFFICES ASSUME NEW x \in Node, NEW u \in Nat, Elected(x, u)
               PROVE  HasLed(x, u)' /\ HasLoyalMajority(x, u)'
    BY <1>4 DEF ElectedInv, ElectionsKept
  <2>1. HasLed(x, u)'
    <3>1. CASE x = n
      <4>1. t >= u /\ (t = u => voted_for'[n] = n)
        BY <1>2, <1>3, <3>1 DEF ElectionOnRecord
      <4> QED BY <1>3, <3>1, <4>1 DEF HasLed
    <3>2. CASE x # n
      BY <1>3, <3>2 DEF ElectedInv, HasLed
    <3> QED BY <3>1, <3>2
  <2>2. ASSUME NEW p \in Node, Loyal(p, x, u) PROVE Loyal(p, x, u)'
    <3>1. CASE p # n
      BY <1>3, <1>4, <2>2, <3>1 DEF Loyal, GrantsKept
    <3>2. CASE p = n /\ p = x
      BY <1>3, <1>4, <2>1, <2>2, <3>2 DEF Loyal, HasLed, GrantsKept
    <3>3. CASE p = n /\ p # x
      <4>1. /\ t >= u
            /\ t = u => \E v \in Node : wal[n].voted_for = v /\ Granted(n, v, u)
        BY <1>2, <2>2, <3>3 DEF Loyal, GrantOnRecord
      <4>2. t = u => voted_for'[n] = x
        BY <1>3, <2>2, <3>3, <4>1 DEF Loyal
      <4> QED BY <1>3, <1>4, <2>2, <3>3, <4>1, <4>2 DEF Loyal, GrantsKept
    <3> QED BY <3>1, <3>2, <3>3
  <2>3. HasLoyalMajority(x, u)
    BY DEF ElectedInv
  <2> QED BY <2>1, <2>2, <2>3, LoyalMajorityKept
<1>11. OneVoteBeforeElection'
  <2> SUFFICES ASSUME NEW p \in Node, NEW c \in Node, NEW u \in Nat,
                      Granted(p, c, u), \A x \in Node : ~Elected(x, u)
               PROVE  /\ \A d \in Node : Granted(p, d, u) => d = c
                      /\ current_term'[p] = u => voted_for'[p] = c /\ state'[p] = "follower"
    BY <1>4 DEF OneVoteBeforeElection, GrantsKept, ElectionsKept
  <2>1. \A d \in Node : Granted(p, d, u) => d = c
    BY DEF OneVoteBeforeElection
  <2>2. CASE p = n
    BY <1>2, <1>3, <2>1, <2>2 DEF GrantOnRecord
  <2>3. CASE p # n
    BY <1>3, <2>3 DEF OneVoteBeforeElection
  <2> QED BY <2>1, <2>2, <2>3
<1>12. WalTypeOK' /\ GrantOnRecord' /\ ElectionOnRecord'
  BY <1>3, <1>4 DEF WalTypeOK, GrantOnRecord, ElectionOnRecord, GrantsKept, ElectionsKept
<1>13. NoNewerRecord' /\ VoteOnRecord'
  BY <1>2, <1>3 DEF NoNewerRecord, VoteOnRecord
<1>14. GrantorFollows'
  <2> SUFFICES ASSUME NEW p \in Node, NEW c \in Node, NEW u \in Nat,
                      Granted(p, c, u), current_term'[p] = u
               PROVE  /\ state'[p] = "follower"
                      /\ \E v \in Node : voted_for'[p] = v /\ Granted(p, v, u)
    BY <1>4 DEF GrantorFollows, GrantsKept
  <2>1. CASE p = n
    BY <1>2, <1>3, <2>1 DEF GrantOnRecord
  <2>2. CASE p # n
    BY <1>3, <2>2 DEF GrantorFollows
  <2> QED BY <2>1, <2>2
<1> QED BY <1>1, <1>4, <1>6, <1>7, <1>8, <1>9, <1>10, <1>11, <1>12, <1>13, <1>14

-----------------------------------------------------------------------------

LEMMA DurableInvInit == DurableInit => DurableInv
<1> SUFFICES ASSUME DurableInit PROVE DurableInv
  OBVIOUS
<1>1. VoteInv
  BY VoteInvInit DEF DurableInit
<1>2. \A p, c \in Node, t \in Nat : ~Granted(p, c, t) /\ ~Elected(p, t)
  BY DEF DurableInit, Init, Granted, Elected
<1>3. WalTypeOK
  BY EmptySeq DEF DurableInit, WalTypeOK, Record
<1>4. NoNewerRecord /\ VoteOnRecord
  BY DEF DurableInit, Init, NoNewerRecord, VoteOnRecord
<1> QED BY <1>1, <1>2, <1>3, <1>4 DEF DurableInv, RecordInv, GrantOnRecord, GrantorFollows,
                                      ElectionOnRecord

LEMMA DurableInvStep == DurableInv /\ [DurableNext]_durableVars => DurableInv'
<1> SUFFICES ASSUME DurableInv, [DurableNext]_durableVars PROVE DurableInv'
  OBVIOUS
<1>1. CASE Ends
  BY <1>1, CrashStep, CrashAppendingStep DEF Ends
<1>2. ASSUME NEW n \in Node, Restart(n) PROVE DurableInv'
  BY <1>2, RestartStep
<1>3. ASSUME DurableNext, ~Ends, ~\E n \in Node : Restart(n) PROVE DurableInv'
  <2>1. Next
    BY <1>3, WrittenStep
  <2>2. VoteInv'
    BY <2>1, VoteInvStep DEF DurableInv
  <2>3. PICK n \in Node : StepOf(n) /\ WalStep(n)
    BY <1>3, WrittenStep
  <2> QED BY <2>1, <2>2, <2>3, RecordStep DEF DurableInv
<1>4. CASE UNCHANGED durableVars
  <2>1. UNCHANGED <<vars, wal>>
    BY <1>4 DEF durableVars, walVars
  <2>2. VoteInv'
    BY <2>1, VoteInvStep DEF DurableInv
  <2>3. WalTypeOK' /\ VotesStand(wal')
    BY <2>1 DEF DurableInv, RecordInv, WalTypeOK, VotesStand
  <2> QED BY <2>1, <2>2, <2>3, RecordsStand DEF DurableInv, vars, nodeVars
<1> QED BY <1>1, <1>2, <1>3, <1>4

LEMMA DurableAlways == DurableSpec => []DurableInv
BY DurableInvInit, DurableInvStep, PTL DEF DurableSpec

\* Every field and every record keeps its type, also through a restart: the freed
\* data of a recovered entry is the only thing in a log nobody submitted.
THEOREM DurableTypeCorrect == DurableSpec => [](TypeOK /\ WalTypeOK)
BY DurableAlways, PTL DEF DurableInv, VoteInv, RecordInv

\* A term has at most one leader although nodes crash and come back in an older
\* term: whoever voted or led there finds its vote in its records.
THEOREM OneLeaderAcrossCrashes == DurableSpec => []ElectionSafety
<1>1. DurableInv => ElectionSafety
  BY VoteInvElectsOne DEF DurableInv
<1> QED BY <1>1, DurableAlways, PTL

\* Two votes of one node in a term still need a leader of the term, also when the
\* node restarted between them.
THEOREM SecondVoteAcrossCrashes == DurableSpec => []DoubleVoteOnlyAfterElection
BY DurableAlways, LateSecondVote, PTL DEF DurableInv

\* A node that follows and holds a vote keeps it while the term lasts, through
\* crashes too: the vote start() takes over is the one that was held.
THEOREM VoteKeptAcrossCrashes == DurableSpec => FollowerKeepsVote
<1>1. ASSUME DurableInv, DurableNext, NEW n \in Node, state[n] = "follower", voted_for[n] # Nil,
             current_term'[n] = current_term[n]
      PROVE  voted_for'[n] = voted_for[n]
  <2>1. TypeOK
    BY <1>1 DEF DurableInv, VoteInv
  <2>2. CASE Ends
    BY <2>2 DEF Ends, Crash, CrashAppending, ends
  <2>3. ASSUME NEW p \in Node, Restart(p) PROVE voted_for'[n] = voted_for[n]
    BY <1>1, <2>1, <2>3 DEF Restart, voteRecovered, DurableInv, RecordInv, VoteOnRecord, TypeOK
  <2>4. CASE ~Ends /\ ~\E p \in Node : Restart(p)
    <3>1. Next
      BY <1>1, <2>4, WrittenStep
    <3> QED BY <1>1, <2>1, <3>1, FollowerKeepsVoteStep
  <2> QED BY <2>2, <2>3, <2>4
<1>2. DurableInv /\ [DurableNext]_durableVars =>
        [\A n \in Node :
           ( /\ state[n] = "follower" /\ voted_for[n] # Nil
             /\ current_term'[n] = current_term[n])
             => voted_for'[n] = voted_for[n]]_vars
  BY <1>1 DEF durableVars
<1> QED BY <1>2, DurableAlways, PTL DEF DurableSpec, FollowerKeepsVote

-----------------------------------------------------------------------------
(* The log and its records. *)

Indexed(l) == \A i \in 1..Len(l) : l[i].index = i

BatchIndexed(m) ==
  m.type = "AppendEntries" =>
    \A i \in 1..Len(m.entries) : m.entries[i].index = m.prev_log_index + i

\* k is the first c entries of l, and then s.
Rewrites(l, k, c, s) ==
  /\ c \in 0..Len(l) /\ Len(k) = c + Len(s)
  /\ \A i \in 1..c : k[i] = l[i]
  /\ \A i \in 1..Len(s) : k[c + i] = s[i] /\ s[i].index = c + i
  /\ Len(s) = 0 => c = Len(l)

\* A set of numbers from 1 on without a gap.
LEMMA Downward ==
  ASSUME NEW N \in Nat, NEW S \in SUBSET (1..N), \A j \in S : 1..j \subseteq S
  PROVE  Cardinality(S) \in 0..N /\ S = 1..Cardinality(S)
<1>1. /\ IsFiniteSet(1..N) /\ IsFiniteSet(S) /\ Cardinality(S) \in Nat
      /\ Cardinality(S) <= N
  <2>1. IsFiniteSet(1..N) /\ Cardinality(1..N) = N
    BY FS_Interval
  <2>2. IsFiniteSet(S) /\ Cardinality(S) <= Cardinality(1..N)
    BY <2>1, FS_Subset
  <2> QED BY <2>1, <2>2, FS_CardinalityType
<1>2. PICK c \in 0..N : c = Cardinality(S)
  BY <1>1
<1>3. ASSUME NEW j \in S PROVE j <= c
  <2>1. j \in Nat \ {0} /\ (1..j) \in SUBSET S
    OBVIOUS
  <2>2. Cardinality(1..j) = j
    BY <2>1, FS_Interval
  <2>3. Cardinality(1..j) <= Cardinality(S)
    BY <1>1, <2>1, FS_Subset
  <2> QED BY <1>2, <2>2, <2>3
<1>4. S \in SUBSET (1..c)
  BY <1>2, <1>3
<1>5. IsFiniteSet(1..c) /\ Cardinality(1..c) = c
  BY FS_Interval
<1>6. S = 1..c
  BY <1>2, <1>4, <1>5, FS_Subset
<1> QED BY <1>2, <1>6

\* The append loop rewrites the log with what it records.
LEMMA MergeRewrites ==
  ASSUME NEW m \in AppendEntriesRequest, accepts(m), BatchIndexed(m), m.type = "AppendEntries",
         NEW l \in Seq(LogEntry), l = log[m.to],
         NEW k \in Seq(LogEntry), k = merge(l, m.prev_log_index, m.entries),
         NEW s \in Seq(LogEntry), s = appended(m)
  PROVE  \E c \in 0..Len(l) : Rewrites(l, k, c, s) /\ (c < Len(l) => cuts(m) = {m.to})
<1>1. PICK prev \in Nat, es \in Seq(LogEntry) :
        prev = m.prev_log_index /\ es = m.entries /\ prev <= Len(l)
  BY DEF accepts, AppendEntriesRequest
<1>2. PICK N \in Nat, L \in Nat : N = Len(es) /\ L = Len(l)
  BY LenProperties
<1> DEFINE alike(i) == prev + i <= L /\ l[prev + i].term = es[i].term
           S == {j \in 1..N : \A i \in 1..j : alike(i)}
<1>3. PICK p \in 0..N : p = present(l, m) /\ S = 1..p
  <2>1. \A j \in S : 1..j \subseteq S
    OBVIOUS
  <2>2. Cardinality(S) \in 0..N /\ S = 1..Cardinality(S)
    <3> HIDE DEF S
    <3>1. S \in SUBSET (1..N)
      BY DEF S
    <3> QED BY <2>1, <3>1, Downward
  <2>3. present(l, m) = Cardinality(S)
    BY <1>1, <1>2 DEF present
  <2> QED BY <2>2, <2>3
<1> HIDE DEF S
<1>4. prev + p <= L /\ \A i \in 1..p : alike(i)
  <2>1. CASE p = 0
    BY <1>1, <1>2, <2>1
  <2>2. CASE p # 0
    <3>1. p \in S
      BY <1>3, <2>2
    <3>2. \A i \in 1..p : alike(i)
      BY <3>1 DEF S
    <3>3. p \in 1..p
      BY <2>2
    <3>4. alike(p)
      BY <3>2, <3>3
    <3> QED BY <3>2, <3>4
  <2> QED BY <2>1, <2>2
<1>5. p < N => ~alike(p + 1)
  <2>1. ASSUME p < N, alike(p + 1) PROVE p + 1 \in S
    <3>1. \A i \in 1..(p + 1) : i \in 1..p \/ i = p + 1
      OBVIOUS
    <3>2. \A i \in 1..(p + 1) : alike(i)
      BY <1>4, <2>1, <3>1
    <3>3. p + 1 \in 1..N
      BY <2>1
    <3> QED BY <3>2, <3>3 DEF S
  <2>2. p + 1 \notin 1..p
    OBVIOUS
  <2> QED BY <1>3, <2>1, <2>2
<1> DEFINE agreeTo(j) == \A i \in (prev + 1)..j : i <= Len(l) /\ l[i].term = es[i - prev].term
           c == prev + p
<1>6. ASSUME NEW j \in 0..(prev + N) PROVE agreeTo(j) <=> j <= c
  <2>1. ASSUME j <= c, NEW i \in (prev + 1)..j PROVE i <= Len(l) /\ l[i].term = es[i - prev].term
    <3>1. i - prev \in 1..p /\ prev + (i - prev) = i
      BY <2>1
    <3>2. alike(i - prev)
      BY <1>4, <3>1
    <3> QED BY <1>2, <3>1, <3>2
  <2>2. ASSUME ~(j <= c), agreeTo(j) PROVE FALSE
    <3>1. p < N /\ prev + (p + 1) \in (prev + 1)..j /\ (prev + (p + 1)) - prev = p + 1
      BY <2>2
    <3>2. alike(p + 1)
      BY <1>2, <2>2, <3>1
    <3> QED BY <1>5, <3>1, <3>2
  <2> QED BY <2>1, <2>2
<1>7. /\ Len(s) = N - p /\ \A i \in 1..(N - p) : s[i] = es[p + i]
  <2>1. s = SubSeq(es, p + 1, N)
    BY <1>1, <1>2, <1>3 DEF appended
  <2>2. \A i \in (p + 1)..N : es[i] \in LogEntry
    BY <1>2, ElementOfSeq
  <2>3. /\ Len(s) = IF p + 1 <= N THEN N - (p + 1) + 1 ELSE 0
        /\ \A i \in 1..(N - (p + 1) + 1) : s[i] = es[p + 1 + i - 1]
    BY <2>1, <2>2, SubSeqProperties
  <2>4. N - (p + 1) + 1 = N - p /\ (~(p + 1 <= N) => N - p = 0)
    OBVIOUS
  <2>5. \A i \in 1..(N - p) : p + 1 + i - 1 = p + i
    OBVIOUS
  <2> QED BY <2>3, <2>4, <2>5
<1>8. k = IF agreeTo(prev + N) THEN l
          ELSE [j \in 1..(prev + N) |-> IF agreeTo(j) THEN l[j] ELSE es[j - prev]]
  BY <1>1, <1>2 DEF merge
<1>9. \A i \in 1..N : es[i].index = prev + i
  BY <1>1, <1>2 DEF BatchIndexed
<1> HIDE DEF agreeTo
<1>10. CASE p = N
  <2>1. k = l /\ Len(s) = 0
    BY <1>6, <1>7, <1>8, <1>10
  <2>2. Rewrites(l, k, L, s)
    BY <1>2, <2>1 DEF Rewrites
  <2> QED BY <1>2, <2>2
<1>11. CASE p < N
  <2>1. k = [j \in 1..(prev + N) |-> IF agreeTo(j) THEN l[j] ELSE es[j - prev]]
    BY <1>6, <1>8, <1>11
  <2>2. Len(k) = prev + N
    <3>1. DOMAIN k = 1..(prev + N)
      BY <2>1
    <3> QED BY <3>1, LenProperties
  <2>3. \A i \in 1..c : k[i] = l[i]
    BY <1>6, <2>1
  <2>4. ASSUME NEW i \in 1..Len(s) PROVE k[c + i] = s[i] /\ s[i].index = c + i
    <3>1. i \in 1..(N - p) /\ c + i \in 1..(prev + N) /\ ~(c + i <= c)
      BY <1>7
    <3>2. k[c + i] = es[(c + i) - prev] /\ (c + i) - prev = p + i /\ p + i \in 1..N
      BY <1>6, <2>1, <3>1
    <3>3. es[p + i].index = prev + (p + i)
      BY <1>9, <3>2
    <3> QED BY <1>7, <3>1, <3>2, <3>3
  <2>5. Rewrites(l, k, c, s) /\ c \in 0..Len(l)
    BY <1>2, <1>4, <1>7, <1>11, <2>2, <2>3, <2>4 DEF Rewrites
  <2>6. c < Len(l) => cuts(m) = {m.to}
    <3>1. s # <<>>
      BY <1>7, <1>11
    <3> QED BY <1>1, <1>3, <3>1 DEF cuts
  <2> QED BY <2>5, <2>6
<1> QED BY <1>10, <1>11

\* A log that is only added to.
LEMMA AppendRewrites ==
  ASSUME NEW l \in Seq(LogEntry), NEW t \in Nat, NEW cmd \in Command \union {Noop},
         NEW e, e = [term |-> t, index |-> Len(l) + 1, command |-> cmd]
  PROVE  /\ <<e>> \in Seq(LogEntry)
         /\ Rewrites(l, appendEntry(l, t, cmd), Len(l), <<e>>)
<1>1. Len(l) \in Nat
  BY LenProperties
<1>2. e \in LogEntry
  BY <1>1, KvRaftAssumption DEF LogEntry
<1>3. /\ <<e>> \in Seq(LogEntry) /\ Len(<<e>>) = 1 /\ <<e>>[1] = e
  BY <1>2
<1>4. PICK k \in Seq(LogEntry) :
        /\ k = appendEntry(l, t, cmd) /\ Len(k) = Len(l) + 1 /\ k[Len(l) + 1] = e
        /\ \A i \in 1..Len(l) : k[i] = l[i]
  <2>1. appendEntry(l, t, cmd) = Append(l, e)
    BY DEF appendEntry
  <2> QED BY <1>2, <2>1, AppendProperties
<1>5. Rewrites(l, k, Len(l), <<e>>)
  BY <1>1, <1>3, <1>4 DEF Rewrites
<1> QED BY <1>3, <1>4, <1>5

\* What a log gets in place of what it loses, its records get at their end.
LEMMA RecordsRewritten ==
  ASSUME NEW w \in Seq(LogEntry), NEW l \in Seq(LogEntry), NEW k \in Seq(LogEntry),
         NEW s \in Seq(LogEntry), NEW c, Rewrites(l, k, c, s), Indexed(l)
  PROVE  /\ Indexed(k)
         /\ Replays(w, l) => Replays(w \o s, k)
         /\ c = Len(l) /\ ReadsInOrder(w, l) /\ Indexed(w)
              => ReadsInOrder(w \o s, k) /\ Indexed(w \o s)
<1>1. PICK W \in Nat, L \in Nat, K \in Nat, N \in Nat, d \in 0..Len(l) :
        W = Len(w) /\ L = Len(l) /\ K = Len(k) /\ N = Len(s) /\ d = c
  BY LenProperties DEF Rewrites
<1>2. /\ K = d + N /\ (N = 0 => d = L) /\ d <= L
      /\ \A i \in 1..N : k[d + i] = s[i] /\ s[i].index = d + i
      /\ \A i \in 1..L : l[i].index = i
  BY <1>1 DEF Rewrites, Indexed
<1>3. \A i \in 1..d : k[i] = l[i] /\ i \in 1..L /\ i <= d
  BY <1>1 DEF Rewrites
<1>4. PICK v \in Seq(LogEntry) :
        /\ v = w \o s /\ Len(v) = W + N
        /\ \A i \in 1..W : v[i] = w[i]
        /\ \A i \in 1..N : v[W + i] = s[i]
  <2>1. /\ w \o s \in Seq(LogEntry) /\ Len(w \o s) = W + N
        /\ \A i \in 1..(W + N) : (w \o s)[i] = IF i <= W THEN w[i] ELSE s[i - W]
    BY <1>1, ConcatProperties
  <2>2. \A i \in 1..W : (w \o s)[i] = w[i]
    BY <2>1
  <2>3. ASSUME NEW i \in 1..N PROVE (w \o s)[W + i] = s[i]
    <3>1. W + i \in 1..(W + N) /\ ~(W + i <= W) /\ (W + i) - W = i
      OBVIOUS
    <3> QED BY <2>1, <3>1
  <2> QED BY <2>1, <2>2, <2>3
<1>5. \A i \in 1..K : i \in 1..d \/ (i - d \in 1..N /\ d + (i - d) = i)
  BY <1>2
<1>6. \A i \in 1..(W + N) : i \in 1..W \/ (i - W \in 1..N /\ W + (i - W) = i)
  OBVIOUS
<1>7. Indexed(k)
  <2>1. ASSUME NEW i \in 1..K PROVE k[i].index = i
    <3>1. CASE i \in 1..d
      BY <1>2, <1>3, <3>1
    <3>2. CASE i - d \in 1..N /\ d + (i - d) = i
      BY <1>2, <3>2
    <3> QED BY <1>5, <3>1, <3>2
  <2> QED BY <1>1, <2>1 DEF Indexed
<1>8. ASSUME Replays(w, l) PROVE Replays(v, k)
  <2>1. /\ L = IF w = <<>> THEN 0 ELSE w[W].index
        /\ \A i \in 1..L : \E q \in 1..W :
             /\ w[q].index = i /\ w[q].term = l[i].term
             /\ \A j \in (q + 1)..W : w[j].index > i
    BY <1>1, <1>8 DEF Replays
  <2>2. K = IF v = <<>> THEN 0 ELSE v[Len(v)].index
    <3>1. CASE N = 0
      <4>1. v = w
        <5>1. s = <<>>
          BY <1>1, <3>1, EmptySeq
        <5> QED BY <1>4, <5>1, ConcatEmptySeq
      <4> QED BY <1>1, <1>2, <2>1, <3>1, <4>1
    <3>2. CASE N # 0
      <4>1. v # <<>> /\ v[W + N] = s[N] /\ s[N].index = d + N
        BY <1>2, <1>4, <3>2
      <4> QED BY <1>2, <1>4, <4>1
    <3> QED BY <3>1, <3>2
  <2>3. ASSUME NEW i \in 1..K
        PROVE  \E q \in 1..Len(v) :
                 /\ v[q].index = i /\ v[q].term = k[i].term
                 /\ \A j \in (q + 1)..Len(v) : v[j].index > i
    <3>1. CASE i \in 1..d
      <4>1. i \in 1..L /\ k[i] = l[i]
        BY <1>3, <3>1
      <4>2. PICK q \in 1..W : /\ w[q].index = i /\ w[q].term = l[i].term
                              /\ \A j \in (q + 1)..W : w[j].index > i
        BY <2>1, <4>1
      <4>3. q \in 1..Len(v) /\ v[q] = w[q]
        BY <1>4
      <4>4. ASSUME NEW j \in (q + 1)..Len(v) PROVE v[j].index > i
        <5>1. j \in 1..(W + N)
          BY <1>4
        <5>2. CASE j \in 1..W
          BY <1>4, <4>2, <5>2
        <5>3. CASE j - W \in 1..N /\ W + (j - W) = j
          <6>1. v[j] = s[j - W] /\ s[j - W].index = d + (j - W)
            BY <1>2, <1>4, <5>3
          <6> QED BY <3>1, <5>3, <6>1
        <5> QED BY <1>6, <5>1, <5>2, <5>3
      <4> QED BY <4>1, <4>2, <4>3, <4>4
    <3>2. CASE i - d \in 1..N /\ d + (i - d) = i
      <4>1. PICK a \in 1..N : a = i - d /\ i = d + a
        BY <3>2
      <4>2. W + a \in 1..Len(v) /\ v[W + a] = s[a]
        BY <1>4
      <4>5. s[a].index = i /\ k[i] = s[a]
        BY <1>2, <4>1
      <4>3. ASSUME NEW j \in (W + a + 1)..Len(v) PROVE v[j].index > i
        <5>1. j - W \in 1..N /\ W + (j - W) = j /\ j - W > a
          BY <1>4, <4>3
        <5>2. v[j] = s[j - W] /\ s[j - W].index = d + (j - W)
          BY <1>2, <1>4, <5>1
        <5> QED BY <4>1, <5>1, <5>2
      <4> QED BY <4>2, <4>3, <4>5
    <3> QED BY <1>5, <3>1, <3>2
  <2> QED BY <1>1, <2>2, <2>3 DEF Replays
<1>9. ASSUME c = Len(l), ReadsInOrder(w, l), Indexed(w)
      PROVE  ReadsInOrder(v, k) /\ Indexed(v)
  <2>1. /\ W = L /\ d = L /\ \A i \in 1..L : w[i].term = l[i].term
        /\ \A i \in 1..W : w[i].index = i
    BY <1>1, <1>9 DEF ReadsInOrder, Indexed
  <2>2. Len(v) = K
    BY <1>2, <1>4, <2>1
  <2>3. ASSUME NEW i \in 1..K PROVE v[i].term = k[i].term /\ v[i].index = i
    <3>1. CASE i \in 1..d
      <4>1. v[i] = w[i] /\ k[i] = l[i] /\ i \in 1..L
        BY <1>4, <1>3, <2>1, <3>1
      <4> QED BY <2>1, <4>1
    <3>2. CASE i - d \in 1..N /\ d + (i - d) = i
      <4>1. v[i] = s[i - d] /\ k[i] = s[i - d] /\ s[i - d].index = d + (i - d)
        BY <1>2, <1>4, <2>1, <3>2
      <4> QED BY <3>2, <4>1
    <3> QED BY <1>5, <3>1, <3>2
  <2> QED BY <1>1, <2>2, <2>3 DEF ReadsInOrder, Indexed
<1> QED BY <1>4, <1>7, <1>8, <1>9

-----------------------------------------------------------------------------
(* What the records give while no node that cut its log has started again. *)

Given ==
  /\ \A n \in Node :
       /\ Indexed(log[n]) /\ Replays(wal[n].entries, log[n])
       /\ n \notin cut => ReadsInOrder(wal[n].entries, log[n]) /\ Indexed(wal[n].entries)
  /\ \A m \in msgs : BatchIndexed(m)

\* Node n rewrites its log with what it records, and leaves the others alone.
LogWritten(n) ==
  /\ \A p \in Node \ {n} : log'[p] = log[p] /\ wal'[p].entries = wal[p].entries
  /\ cut \subseteq cut'
  /\ \E c \in Nat, s \in Seq(LogEntry) :
       /\ Rewrites(log[n], log'[n], c, s) /\ wal'[n].entries = wal[n].entries \o s
       /\ c < Len(log[n]) => n \in cut'

LEMMA GivenKept ==
  ASSUME DurableInv, DurableInv', Given, NEW n \in Node, LogWritten(n),
         \A m \in msgs' : BatchIndexed(m)
  PROVE  Given'
<1>1. PICK w \in Seq(LogEntry), l \in Seq(LogEntry), k \in Seq(LogEntry), c \in Nat,
           s \in Seq(LogEntry) :
        /\ w = wal[n].entries /\ l = log[n] /\ k = log'[n]
        /\ Rewrites(l, k, c, s) /\ wal'[n].entries = w \o s /\ (c < Len(l) => n \in cut')
  BY DEF LogWritten, DurableInv, VoteInv, TypeOK, RecordInv, WalTypeOK, Record
<1>2. Indexed(l) /\ Replays(w, l) /\ (n \notin cut => ReadsInOrder(w, l) /\ Indexed(w))
  BY <1>1 DEF Given
<1>3. Indexed(k) /\ Replays(w \o s, k)
  BY <1>1, <1>2, RecordsRewritten
<1>4. ASSUME n \notin cut' PROVE ReadsInOrder(w \o s, k) /\ Indexed(w \o s)
  <2>1. n \notin cut /\ ~(c < Len(l))
    BY <1>1, <1>4 DEF LogWritten
  <2>2. c = Len(l)
    BY <1>1, <2>1, LenProperties DEF Rewrites
  <2> QED BY <1>1, <1>2, <2>1, <2>2, RecordsRewritten
<1>5. ASSUME NEW p \in Node \ {n}
      PROVE  /\ Indexed(log'[p]) /\ Replays(wal'[p].entries, log'[p])
             /\ p \notin cut' => ReadsInOrder(wal'[p].entries, log'[p]) /\ Indexed(wal'[p].entries)
  BY DEF Given, LogWritten
<1>6. /\ Indexed(log'[n]) /\ Replays(wal'[n].entries, log'[n])
      /\ n \notin cut' => ReadsInOrder(wal'[n].entries, log'[n]) /\ Indexed(wal'[n].entries)
  BY <1>1, <1>3, <1>4
<1> QED BY <1>5, <1>6 DEF Given

\* The batches of heartbeats carry the indices of the log they are taken from.
LEMMA HeartbeatsIndexed ==
  ASSUME NEW n \in Node, NEW t, NEW l \in Seq(LogEntry), Indexed(l),
         NEW peers \in [Node -> PeerState], NEW m \in heartbeats(n, t, l, peers)
  PROVE  BatchIndexed(m)
<1>1. PICK p \in Node, next \in Nat :
        /\ next = peers[p].next_index /\ m.prev_log_index = most(next, 1) - 1
        /\ m.entries = entriesFrom(l, next)
  BY DEF heartbeats, PeerState
<1>2. CASE next \in 1..Len(l)
  <2>1. PICK last \in Nat : /\ last = least(next + MaxEntriesPerRpc - 1, Len(l))
                            /\ next <= last /\ last <= Len(l)
    <3>1. Len(l) \in Nat /\ MaxEntriesPerRpc \in Nat \ {0} /\ next <= Len(l)
      BY <1>2, LenProperties, KvRaftAssumption
    <3>2. next + MaxEntriesPerRpc - 1 \in Nat /\ next <= next + MaxEntriesPerRpc - 1
      BY <3>1
    <3>3. least(next + MaxEntriesPerRpc - 1, Len(l)) \in {next + MaxEntriesPerRpc - 1, Len(l)}
      BY DEF least
    <3>4. least(next + MaxEntriesPerRpc - 1, Len(l)) <= Len(l)
      BY <3>1, <3>2 DEF least
    <3> QED BY <3>1, <3>2, <3>3, <3>4
  <2>2. \A i \in next..last : l[i] \in LogEntry
    BY <1>2, <2>1, LenProperties, ElementOfSeq
  <2>3. m.entries = SubSeq(l, next, last)
    BY <1>1, <1>2, <2>1 DEF entriesFrom
  <2>4. /\ Len(m.entries) = last - next + 1
        /\ \A i \in 1..(last - next + 1) : m.entries[i] = l[next + i - 1]
    BY <2>1, <2>2, <2>3, SubSeqProperties
  <2>5. ASSUME NEW i \in 1..(last - next + 1) PROVE m.entries[i].index = m.prev_log_index + i
    <3>1. next + i - 1 \in 1..Len(l) /\ m.prev_log_index + i = next + i - 1
      BY <1>1, <1>2, <2>1, LenProperties DEF most
    <3> QED BY <2>4, <3>1 DEF Indexed
  <2> QED BY <2>4, <2>5 DEF BatchIndexed
<1>3. CASE next \notin 1..Len(l)
  BY <1>1, <1>3 DEF entriesFrom, BatchIndexed
<1> QED BY <1>2, <1>3

-----------------------------------------------------------------------------
(* Each handler rewrites one log so, and sends such batches. *)

NewBatchesIndexed == \A m \in msgs' \ msgs : BatchIndexed(m)

LEMMA SameLog ==
  ASSUME DurableInv, NEW n \in Node, log' = log, cut \subseteq cut',
         \A p \in Node : wal'[p].entries = wal[p].entries
  PROVE  LogWritten(n)
<1>1. PICK l \in Seq(LogEntry), w \in Seq(LogEntry) : l = log[n] /\ w = wal[n].entries
  BY DEF DurableInv, VoteInv, TypeOK, RecordInv, WalTypeOK, Record
<1>2. PICK s \in Seq(LogEntry) : s = <<>> /\ Len(s) = 0
  BY EmptySeq
<1>3. Len(l) \in Nat /\ Rewrites(l, l, Len(l), s)
  BY <1>2, LenProperties DEF Rewrites
<1>4. w \o s = w
  BY <1>2, ConcatEmptySeq
<1> QED BY <1>1, <1>3, <1>4 DEF LogWritten

LEMMA EntryLogged ==
  ASSUME DurableInv, NEW n \in Node, NEW t \in Nat, NEW c \in Command \union {Noop},
         log' = [log EXCEPT ![n] = appendEntry(log[n], t, c)], cut \subseteq cut',
         wal'[n].entries = wal[n].entries \o entryRecord(n, t, c),
         \A p \in Node \ {n} : wal'[p] = wal[p]
  PROVE  LogWritten(n)
<1>1. PICK l \in Seq(LogEntry) : l = log[n]
  BY DEF DurableInv, VoteInv, TypeOK
<1>2. PICK e : e = [term |-> t, index |-> Len(l) + 1, command |-> c]
  OBVIOUS
<1>3. <<e>> \in Seq(LogEntry) /\ Rewrites(l, appendEntry(l, t, c), Len(l), <<e>>)
  BY <1>2, AppendRewrites
<1>4. PICK s \in Seq(LogEntry) :
        s = entryRecord(n, t, c) /\ Rewrites(l, appendEntry(l, t, c), Len(l), s)
  BY <1>1, <1>2, <1>3 DEF entryRecord
<1>5. log'[n] = appendEntry(l, t, c) /\ \A p \in Node \ {n} : log'[p] = log[p]
  BY <1>1 DEF DurableInv, VoteInv, TypeOK
<1>6. Len(l) \in Nat
  BY LenProperties
<1>7. Rewrites(log[n], log'[n], Len(l), s) /\ wal'[n].entries = wal[n].entries \o s
  BY <1>1, <1>4, <1>5
<1>8. ~(Len(l) < Len(log[n]))
  BY <1>1, <1>6
<1> QED BY <1>5, <1>6, <1>7, <1>8 DEF LogWritten

\* The noop of a new leader, and the heartbeats that carry it.
LEMMA NoopLogged ==
  ASSUME DurableInv, Given, NEW n \in Node, NEW t \in Nat, becomeLeader(n, t), cut \subseteq cut',
         wal'[n].entries = wal[n].entries \o entryRecord(n, t, Noop),
         \A p \in Node \ {n} : wal'[p] = wal[p]
  PROVE  LogWritten(n) /\ NewBatchesIndexed
<1>1. PICK l \in Seq(LogEntry), k \in Seq(LogEntry) :
        l = log[n] /\ k = appendEntry(l, t, Noop)
  BY AppendEntryType DEF DurableInv, VoteInv, TypeOK
<1>2. /\ log' = [log EXCEPT ![n] = k]
      /\ msgs' = msgs \union heartbeats(n, t, k, freshPeers(l))
  BY <1>1 DEF becomeLeader
<1>3. LogWritten(n)
  BY <1>1, <1>2, EntryLogged
<1>4. Indexed(k)
  <2>1. PICK e : e = [term |-> t, index |-> Len(l) + 1, command |-> Noop]
    OBVIOUS
  <2>2. <<e>> \in Seq(LogEntry) /\ Rewrites(l, k, Len(l), <<e>>)
    BY <1>1, <2>1, AppendRewrites
  <2>3. Indexed(l)
    BY <1>1 DEF Given
  <2> QED BY <2>2, <2>3, RecordsRewritten
<1>5. freshPeers(l) \in [Node -> PeerState]
  BY FreshPeersType
<1>6. NewBatchesIndexed
  BY <1>2, <1>4, <1>5, HeartbeatsIndexed DEF NewBatchesIndexed
<1> QED BY <1>3, <1>6

LEMMA TickWritten ==
  ASSUME DurableInv, Given, NEW n \in Node, DurableTick(n)
  PROVE  LogWritten(n) /\ NewBatchesIndexed
<1> USE DEF DurableInv, VoteInv
<1>1. PICK t \in Nat, w \in Record, v \in Record :
        /\ t = current_term[n] /\ w = wal[n]
        /\ v = writeVote(w, t + 1, n) /\ v.entries = w.entries
  <2>1. PICK t \in Nat, w \in Record : t = current_term[n] /\ w = wal[n]
    BY DEF TypeOK, RecordInv, WalTypeOK
  <2>2. t + 1 \in Nat
    OBVIOUS
  <2> QED BY <2>1, <2>2, VoteAdded
<1>2. CASE startElection(n) /\ Writes(n, electionRecords(n), {})
  <2>1. cut \subseteq cut' /\ wal' = [wal EXCEPT ![n] = electionRecords(n)]
    BY <1>2 DEF Writes
  <2>2. CASE Cardinality(Node) = 1
    <3>1. becomeLeader(n, t + 1)
      BY <1>1, <1>2, <2>2 DEF startElection
    <3>2. t + 1 \in Nat
      OBVIOUS
    <3>3. PICK s \in Seq(LogEntry) : s = entryRecord(n, t + 1, Noop)
      BY <3>2, EntryRecordType
    <3>4. electionRecords(n) = writeEntries(v, s) /\ writeEntries(v, s).entries = w.entries \o s
      <4>1. electionRecords(n) = writeEntries(v, s)
        BY <1>1, <2>2, <3>3 DEF electionRecords
      <4>2. writeEntries(v, s).entries = v.entries \o s
        BY EntriesAdded
      <4> QED BY <1>1, <4>1, <4>2
    <3>5. /\ wal'[n].entries = wal[n].entries \o s
          /\ \A p \in Node \ {n} : wal'[p] = wal[p]
      BY <1>1, <2>1, <3>4 DEF RecordInv, WalTypeOK
    <3> QED BY <2>1, <3>1, <3>2, <3>3, <3>5, NoopLogged
  <2>3. CASE Cardinality(Node) # 1
    <3>1. log' = log /\ msgs' = msgs \union requestVotes(n, t + 1)
      BY <1>1, <1>2, <2>3 DEF startElection
    <3>2. \A p \in Node : wal'[p].entries = wal[p].entries
      BY <1>1, <2>1, <2>3 DEF electionRecords, RecordInv, WalTypeOK
    <3>3. NewBatchesIndexed
      BY <3>1 DEF NewBatchesIndexed, requestVotes, BatchIndexed
    <3> QED BY <2>1, <3>1, <3>2, <3>3, SameLog
  <2> QED BY <2>2, <2>3
<1>3. CASE (sendHeartbeats(n) \/ noTimeout(n)) /\ WritesNothing
  <2>1. LogWritten(n)
    BY <1>3, SameLog DEF sendHeartbeats, noTimeout, nodeVars, WritesNothing, walVars
  <2>2. CASE sendHeartbeats(n)
    <3>1. PICK l \in Seq(LogEntry), peers \in [Node -> PeerState] :
            l = log[n] /\ peers = peer_states[n] /\ Indexed(l)
      BY DEF TypeOK, Given
    <3>2. msgs' = msgs \union heartbeats(n, t, l, peers)
      BY <1>1, <2>2, <3>1 DEF sendHeartbeats
    <3> QED BY <2>1, <3>1, <3>2, HeartbeatsIndexed DEF NewBatchesIndexed
  <2>3. CASE noTimeout(n)
    BY <2>1, <2>3 DEF noTimeout, NewBatchesIndexed
  <2> QED BY <1>3, <2>2, <2>3
<1> QED BY <1>2, <1>3 DEF DurableTick

LEMMA SubmitWritten ==
  ASSUME DurableInv, NEW n \in Node, NEW c \in Command, DurableSubmit(n, c)
  PROVE  LogWritten(n) /\ NewBatchesIndexed
<1> USE DEF DurableInv, VoteInv
<1>1. PICK t \in Nat, w \in Record : t = current_term[n] /\ w = wal[n]
  BY DEF TypeOK, RecordInv, WalTypeOK
<1>2. entryRecord(n, t, c) \in Seq(LogEntry)
  BY EntryRecordType
<1>3. /\ log' = [log EXCEPT ![n] = appendEntry(log[n], t, c)] /\ msgs' = msgs
      /\ cut \subseteq cut' /\ wal' = [wal EXCEPT ![n] = writeEntries(w, entryRecord(n, t, c))]
  BY <1>1 DEF DurableSubmit, Submit, Writes
<1>4. /\ wal'[n].entries = wal[n].entries \o entryRecord(n, t, c)
      /\ \A p \in Node \ {n} : wal'[p] = wal[p]
  BY <1>1, <1>2, <1>3, EntriesAdded DEF RecordInv, WalTypeOK
<1> QED BY <1>3, <1>4, EntryLogged DEF NewBatchesIndexed

LEMMA RequestVoteWritten ==
  ASSUME DurableInv, NEW m \in msgs, DurableRequestVote(m)
  PROVE  LogWritten(m.to) /\ NewBatchesIndexed
<1> USE DEF DurableInv, VoteInv
<1>1. PICK n \in Node, c \in Node, t \in Nat : m.to = n /\ m.from = c /\ m.term = t
  BY MessageFields
<1>2. PICK w \in Record : w = wal[n]
  BY DEF RecordInv, WalTypeOK
<1>3. grantRecords(m).entries = w.entries
  BY <1>1, <1>2, VoteAdded DEF grantRecords
<1>4. log' = log /\ cut \subseteq cut' /\ wal' = [wal EXCEPT ![n] = grantRecords(m)]
  BY <1>1 DEF DurableRequestVote, HandleRequestVote, Writes
<1>5. \A p \in Node : wal'[p].entries = wal[p].entries
  BY <1>2, <1>3, <1>4 DEF RecordInv, WalTypeOK
<1>6. NewBatchesIndexed
  BY DEF DurableRequestVote, HandleRequestVote, NewBatchesIndexed, BatchIndexed
<1> QED BY <1>1, <1>4, <1>5, <1>6, SameLog

LEMMA RequestVoteResponseWritten ==
  ASSUME DurableInv, Given, NEW m \in msgs, DurableRequestVoteResponse(m)
  PROVE  LogWritten(m.to) /\ NewBatchesIndexed
<1> USE DEF DurableInv, VoteInv
<1>1. PICK n \in Node, t \in Nat, w \in Record : m.to = n /\ t = current_term[n] /\ w = wal[n]
  BY MessageFields DEF TypeOK, RecordInv, WalTypeOK
<1>2. cut \subseteq cut' /\ wal' = [wal EXCEPT ![n] = victoryRecords(m)]
  BY <1>1 DEF DurableRequestVoteResponse, Writes
<1>3. \/ becomeLeader(n, t) /\ state[n] = "candidate"
      \/ UNCHANGED <<log, msgs>> /\ (state'[n] = state[n] \/ state'[n] = "follower")
  BY <1>1 DEF DurableRequestVoteResponse, HandleRequestVoteResponse, stepDown, TypeOK
<1>4. CASE becomeLeader(n, t) /\ state[n] = "candidate"
  <2>1. state'[n] = "leader"
    BY <1>4 DEF becomeLeader, TypeOK
  <2>2. PICK s \in Seq(LogEntry) : s = entryRecord(n, t, Noop)
    BY EntryRecordType
  <2>3. victoryRecords(m) = writeEntries(w, s) /\ writeEntries(w, s).entries = w.entries \o s
    BY <1>1, <1>4, <2>1, <2>2, EntriesAdded DEF victoryRecords
  <2>4. /\ wal'[n].entries = wal[n].entries \o s
        /\ \A p \in Node \ {n} : wal'[p] = wal[p]
    BY <1>1, <1>2, <2>3 DEF RecordInv, WalTypeOK
  <2> QED BY <1>1, <1>2, <1>4, <2>2, <2>4, NoopLogged
<1>5. CASE UNCHANGED <<log, msgs>> /\ (state'[n] = state[n] \/ state'[n] = "follower")
  <2>1. victoryRecords(m) = w
    BY <1>1, <1>5 DEF victoryRecords
  <2>2. \A p \in Node : wal'[p].entries = wal[p].entries
    BY <1>1, <1>2, <2>1 DEF RecordInv, WalTypeOK
  <2> QED BY <1>1, <1>2, <1>5, <2>2, SameLog DEF NewBatchesIndexed
<1> QED BY <1>3, <1>4, <1>5

\* A batch, or the beginning of one, that goes through the append loop.
LEMMA BatchWritten ==
  ASSUME DurableInv, Given, NEW m \in AppendEntriesRequest, accepts(m), BatchIndexed(m),
         m.type = "AppendEntries", NEW n \in Node, n = m.to, cut' = cut \union cuts(m),
         log' = [log EXCEPT ![n] = merge(log[n], m.prev_log_index, m.entries)],
         wal' = [wal EXCEPT ![n] = writeEntries(wal[n], appended(m))]
  PROVE  LogWritten(n)
<1> USE DEF DurableInv, VoteInv
<1>1. PICK l \in Seq(LogEntry), w \in Record : l = log[n] /\ w = wal[n]
  BY DEF TypeOK, RecordInv, WalTypeOK
<1>2. PICK k \in Seq(LogEntry) : k = merge(l, m.prev_log_index, m.entries)
  <2>1. m.prev_log_index \in 0..Len(l) /\ m.entries \in Seq(LogEntry)
    BY <1>1, LenProperties DEF accepts, AppendEntriesRequest
  <2> QED BY <2>1, MergeType
<1>3. PICK s \in Seq(LogEntry) : s = appended(m)
  BY AppendedType
<1>4. PICK c \in 0..Len(l) : Rewrites(l, k, c, s) /\ (c < Len(l) => cuts(m) = {m.to})
  BY <1>1, <1>2, <1>3, MergeRewrites
<1>5. c \in Nat /\ (c < Len(l) => n \in cut')
  BY <1>4
<1>6. log'[n] = k /\ \A p \in Node \ {n} : log'[p] = log[p]
  BY <1>1, <1>2 DEF TypeOK
<1>7. wal'[n].entries = w.entries \o s /\ \A p \in Node \ {n} : wal'[p] = wal[p]
  BY <1>1, <1>3, EntriesAdded DEF RecordInv, WalTypeOK
<1> QED BY <1>1, <1>4, <1>5, <1>6, <1>7 DEF LogWritten

LEMMA AppendEntriesWritten ==
  ASSUME DurableInv, Given, NEW m \in msgs, DurableAppendEntries(m)
  PROVE  LogWritten(m.to) /\ NewBatchesIndexed
<1> USE DEF DurableInv, VoteInv
<1>1. PICK n \in Node, w \in Record : m.to = n /\ w = wal[n]
  BY MessageFields DEF RecordInv, WalTypeOK
<1>2. m \in AppendEntriesRequest /\ m.type = "AppendEntries" /\ BatchIndexed(m)
  BY MessageFields DEF DurableAppendEntries, HandleAppendEntries, reaches, Given
<1>3. NewBatchesIndexed
  BY DEF DurableAppendEntries, HandleAppendEntries, NewBatchesIndexed, BatchIndexed
<1>4. /\ wal' = [wal EXCEPT ![n] = writeEntries(wal[n], appended(m))]
      /\ cut' = cut \union cuts(m)
  BY <1>1 DEF DurableAppendEntries, Writes
<1>5. CASE accepts(m)
  <2>1. log' = [log EXCEPT ![n] = merge(log[n], m.prev_log_index, m.entries)]
    <3>1. /\ m.term >= current_term[n] /\ m.prev_log_index <= Len(log[n])
          /\ ~mismatch(log[n], m)
      BY <1>1, <1>5 DEF accepts
    <3>2. ~(m.term < current_term[n]) /\ ~(m.prev_log_index > Len(log[n]))
      BY <1>1, <1>2, <3>1, LenProperties DEF TypeOK, AppendEntriesRequest
    <3> QED BY <1>1, <3>1, <3>2 DEF DurableAppendEntries, HandleAppendEntries
  <2> QED BY <1>1, <1>2, <1>3, <1>4, <1>5, <2>1, BatchWritten
<1>6. CASE ~accepts(m)
  <2>1. log' = log
    <3>1. \/ m.term < current_term[n] \/ m.prev_log_index > Len(log[n])
          \/ mismatch(log[n], m)
      BY <1>1, <1>2, <1>6, LenProperties DEF TypeOK, AppendEntriesRequest, accepts
    <3> QED BY <1>1, <1>2, <3>1, LenProperties
            DEF DurableAppendEntries, HandleAppendEntries, nodeVars, TypeOK, AppendEntriesRequest
  <2>2. appended(m) = <<>> /\ <<>> \in Seq(LogEntry)
    BY <1>6, EmptySeq DEF appended
  <2>3. w.entries \o <<>> = w.entries
    BY ConcatEmptySeq DEF Record
  <2>4. writeEntries(w, <<>>).entries = w.entries
    BY <2>2, <2>3, EntriesAdded
  <2>5. \A p \in Node : wal'[p].entries = wal[p].entries
    BY <1>1, <1>4, <2>2, <2>4 DEF RecordInv, WalTypeOK
  <2> QED BY <1>1, <1>3, <1>4, <2>1, <2>5, SameLog
<1> QED BY <1>5, <1>6

LEMMA AppendEntriesResponseWritten ==
  ASSUME DurableInv, NEW m \in msgs, DurableAppendEntriesResponse(m)
  PROVE  LogWritten(m.to) /\ NewBatchesIndexed
<1>1. m.to \in Node
  BY MessageFields DEF DurableInv, VoteInv
<1> QED BY <1>1, SameLog DEF DurableAppendEntriesResponse, HandleAppendEntriesResponse,
                             WritesNothing, walVars, NewBatchesIndexed

\* A process that ends inside the append loop has written the beginning of the batch.
LEMMA CrashAppendingWritten ==
  ASSUME DurableInv, Given, NEW m \in msgs, NEW k \in Nat, CrashAppending(m, k)
  PROVE  LogWritten(m.to) /\ NewBatchesIndexed
<1> USE DEF DurableInv, VoteInv
<1>1. PICK n \in Node : n = m.to
  BY MessageFields
<1>2. /\ m \in AppendEntriesRequest /\ accepts(m) /\ k < Len(m.entries)
      /\ m.type = "AppendEntries" /\ BatchIndexed(m)
  BY MessageFields DEF CrashAppending, Given
<1>3. Len(m.entries) \in Nat
  BY <1>2, LenProperties DEF AppendEntriesRequest
<1>4. PICK begun \in AppendEntriesRequest :
        /\ begun = [m EXCEPT !.entries = SubSeq(@, 1, k)] /\ begun.to = n
        /\ begun.prev_log_index = m.prev_log_index /\ accepts(begun)
        /\ Len(begun.entries) = k /\ \A i \in 1..k : begun.entries[i] = m.entries[i]
  <2>1. k <= Len(m.entries)
    BY <1>2, <1>3
  <2>2. PICK begun : begun = [m EXCEPT !.entries = SubSeq(@, 1, k)]
    OBVIOUS
  <2>3. /\ begun \in AppendEntriesRequest /\ begun.to = m.to
        /\ begun.prev_log_index = m.prev_log_index /\ accepts(begun)
        /\ Len(begun.entries) = k /\ \A i \in 1..k : begun.entries[i] = m.entries[i]
    BY <1>2, <2>1, <2>2, BatchBegun
  <2> QED BY <1>1, <2>2, <2>3
<1>5. BatchIndexed(begun) /\ begun.type = "AppendEntries"
  BY <1>2, <1>3, <1>4 DEF BatchIndexed, AppendEntriesRequest
<1>6. /\ ends(n)
      /\ log' = [log EXCEPT ![n] = merge(log[n], begun.prev_log_index, begun.entries)]
      /\ wal' = [wal EXCEPT ![n] = writeEntries(wal[n], appended(begun))]
      /\ cut' = cut \union cuts(begun)
  BY <1>1, <1>4 DEF CrashAppending
<1>7. NewBatchesIndexed
  BY <1>6 DEF ends, NewBatchesIndexed
<1> QED BY <1>1, <1>4, <1>5, <1>6, <1>7, BatchWritten

-----------------------------------------------------------------------------
(* The theorem. *)

\* A node that never cut its log starts again with the log it had.
LEMMA RestartGiven ==
  ASSUME DurableInv, Given, NEW n \in Node, Restart(n), n \notin cut
  PROVE  Given'
<1>1. PICK w \in Seq(LogEntry), l \in Seq(LogEntry) : w = wal[n].entries /\ l = log[n]
  BY DEF DurableInv, VoteInv, TypeOK, RecordInv, WalTypeOK, Record
<1>2. PICK k \in Seq(LogEntry) :
        /\ k = [i \in 1..Len(w) |-> recovered(w[i])] /\ Len(k) = Len(w)
        /\ \A i \in 1..Len(w) : recovered(w[i]).term = w[i].term
  BY RecoveredType
<1>3. /\ log'[n] = k /\ \A p \in Node \ {n} : log'[p] = log[p]
      /\ wal' = wal /\ cut' = cut /\ msgs' = msgs
  BY <1>1, <1>2 DEF Restart, DurableInv, VoteInv, TypeOK
<1>4. ReadsInOrder(w, l) /\ Indexed(w)
  BY <1>1 DEF Given
<1>5. \A i \in 1..Len(w) : k[i].term = w[i].term /\ k[i].index = i /\ w[i].index = i
  BY <1>2, <1>4 DEF recovered, Indexed
<1>6. Indexed(k) /\ ReadsInOrder(w, k)
  BY <1>2, <1>5 DEF Indexed, ReadsInOrder
<1>7. Replays(w, k)
  <2>1. PICK L \in Nat : L = Len(w) /\ L = Len(k)
    BY <1>2, LenProperties
  <2>2. L = IF w = <<>> THEN 0 ELSE w[L].index
    <3>1. CASE L = 0
      BY <2>1, <3>1, EmptySeq
    <3>2. CASE L # 0
      <4>1. L \in 1..Len(w) /\ Len(w) # 0
        BY <2>1, <3>2
      <4>2. w # <<>>
        BY <4>1, EmptySeq
      <4> QED BY <1>5, <4>1, <4>2
    <3> QED BY <3>1, <3>2
  <2>3. ASSUME NEW i \in 1..L
        PROVE  /\ w[i].index = i /\ w[i].term = k[i].term
               /\ \A j \in (i + 1)..L : w[j].index > i
    BY <1>5, <2>1
  <2> QED BY <2>1, <2>2, <2>3 DEF Replays
<1> QED BY <1>1, <1>3, <1>4, <1>6, <1>7 DEF Given

Recovers == misread = {} => Given

LEMMA RecoversStep ==
  ASSUME DurableInv, DurableInv', Recovers, [DurableNext]_durableVars
  PROVE  Recovers'
<1> SUFFICES ASSUME misread' = {} PROVE Given'
  BY DEF Recovers
<1>1. ASSUME NEW n \in Node, misread' = misread, Given => LogWritten(n) /\ NewBatchesIndexed
      PROVE  Given'
  <2>1. Given /\ LogWritten(n) /\ NewBatchesIndexed
    BY <1>1 DEF Recovers
  <2>2. \A m \in msgs' : BatchIndexed(m)
    BY <2>1 DEF Given, NewBatchesIndexed
  <2> QED BY <2>1, <2>2, GivenKept
<1>2. \A m \in msgs : m.to \in Node
  BY MessageFields DEF DurableInv, VoteInv
<1>3. ASSUME NEW n \in Node, Crash(n) PROVE Given'
  <2>1. LogWritten(n) /\ NewBatchesIndexed
    BY <1>3, SameLog DEF Crash, ends, NewBatchesIndexed
  <2> QED BY <1>1, <1>3, <2>1 DEF Crash, ends
<1>4. ASSUME NEW m \in msgs, NEW k \in Nat, CrashAppending(m, k) PROVE Given'
  BY <1>1, <1>2, <1>4, CrashAppendingWritten DEF CrashAppending, ends
<1>5. ASSUME NEW n \in Node, Restart(n) PROVE Given'
  <2>1. n \notin cut /\ misread = {}
    BY <1>5 DEF Restart
  <2> QED BY <1>5, <2>1, RestartGiven DEF Recovers
<1>6. ASSUME NEW n \in Node, DurableTick(n) PROVE Given'
  <2>1. misread' = misread
    BY <1>6 DEF DurableTick, Writes, WritesNothing, walVars
  <2> QED BY <1>1, <1>6, <2>1, TickWritten
<1>7. ASSUME NEW n \in Node, NEW c \in Command, DurableSubmit(n, c) PROVE Given'
  BY <1>1, <1>7, SubmitWritten DEF DurableSubmit, Writes
<1>8. ASSUME NEW m \in msgs, DurableRequestVote(m) PROVE Given'
  BY <1>1, <1>2, <1>8, RequestVoteWritten DEF DurableRequestVote, Writes
<1>9. ASSUME NEW m \in msgs, DurableRequestVoteResponse(m) PROVE Given'
  BY <1>1, <1>2, <1>9, RequestVoteResponseWritten DEF DurableRequestVoteResponse, Writes
<1>10. ASSUME NEW m \in msgs, DurableAppendEntries(m) PROVE Given'
  BY <1>1, <1>2, <1>10, AppendEntriesWritten DEF DurableAppendEntries, Writes
<1>11. ASSUME NEW m \in msgs, DurableAppendEntriesResponse(m) PROVE Given'
  <2>1. misread' = misread
    BY <1>11 DEF DurableAppendEntriesResponse, WritesNothing, walVars
  <2> QED BY <1>1, <1>2, <1>11, <2>1, AppendEntriesResponseWritten
<1>12. CASE UNCHANGED durableVars
  BY <1>12 DEF durableVars, vars, nodeVars, walVars, Recovers, Given
<1>13. \A k \in 0..(MaxEntriesPerRpc - 1) : k \in Nat
  BY KvRaftAssumption
<1> QED BY <1>3, <1>4, <1>5, <1>6, <1>7, <1>8, <1>9, <1>10, <1>11, <1>12, <1>13 DEF DurableNext

\* The records of a node give its log back, whatever was sent to it twice or out of
\* order and wherever it crashed, also once it has cut the log back: until such a
\* node starts again, and takes the entries it had cut for entries of its log.
THEOREM RecordsAlwaysGiveLog == DurableSpec => []RecordsGiveLog
<1>1. DurableInit => Recovers
  BY EmptySeq DEF DurableInit, Init, Recovers, Given, Indexed, Replays, ReadsInOrder
<1>2. DurableInv /\ DurableInv' /\ Recovers /\ [DurableNext]_durableVars => Recovers'
  BY RecoversStep
<1>3. Recovers => RecordsGiveLog
  BY DEF Recovers, Given, RecordsGiveLog
<1> QED BY <1>1, <1>2, <1>3, DurableAlways, PTL DEF DurableSpec

-----------------------------------------------------------------------------
(***************************************************************************)
(* Commitment.                                                             *)
(***************************************************************************)

-----------------------------------------------------------------------------
(* Logs and the logs of leaders. *)

\* Every entry of l is of term at most t, and l is up to it as the leader of
\* its term has its own log.
FromLed(l, t, ld) ==
  \A i \in 1..Len(l) :
    /\ l[i].index = i /\ l[i].term <= t /\ l[i].term \in DOMAIN ld
    /\ SameTo(l, ld[l[i].term], i)

\* The logs of leaders, each of which ends with an entry of the leader's term.
Ledger(ld) ==
  /\ DOMAIN ld \subseteq Nat
  /\ \A t \in DOMAIN ld : /\ ld[t] \in Seq(LogEntry) /\ Len(ld[t]) > 0
                          /\ ld[t][Len(ld[t])].term = t
                          /\ FromLed(ld[t], t, ld)

Grows(ld, longer) ==
  DOMAIN ld \subseteq DOMAIN longer /\ \A t \in DOMAIN ld : SameTo(ld[t], longer[t], Len(ld[t]))

\* The batch of m is part of l.
Carries(m, l) ==
  /\ m.prev_log_index + Len(m.entries) <= Len(l)
  /\ m.prev_log_index > 0 => m.prev_log_term = l[m.prev_log_index].term
  /\ \A i \in 1..Len(m.entries) : m.entries[i] = l[m.prev_log_index + i]

LEMMA SameToSame ==
  ASSUME NEW l \in Seq(LogEntry), NEW r \in Seq(LogEntry), NEW s \in Seq(LogEntry), NEW k \in Nat
  PROVE  /\ SameTo(l, l, Len(l))
         /\ SameTo(l, r, k) => SameTo(r, l, k)
         /\ SameTo(l, r, k) /\ SameTo(r, s, k) => SameTo(l, s, k)
         /\ \A i \in 0..k : SameTo(l, r, k) => SameTo(l, r, i)
<1>1. Len(l) \in Nat /\ Len(r) \in Nat
  BY LenProperties
<1> QED BY <1>1 DEF SameTo

\* Two logs that have the same term at a position are the same up to there.
LEMMA SameTerm ==
  ASSUME NEW l \in Seq(LogEntry), NEW r \in Seq(LogEntry), NEW ld, Ledger(ld),
         NEW t, NEW u, FromLed(l, t, ld), FromLed(r, u, ld),
         NEW i \in 1..Len(l), i <= Len(r), l[i].term = r[i].term
  PROVE  SameTo(l, r, i)
<1>1. i \in 1..Len(r) /\ i \in Nat
  BY LenProperties
<1>2. PICK v \in DOMAIN ld : v = l[i].term /\ SameTo(l, ld[v], i) /\ SameTo(r, ld[v], i)
  BY <1>1 DEF FromLed
<1>3. ld[v] \in Seq(LogEntry)
  BY DEF Ledger
<1> QED BY <1>1, <1>2, <1>3, SameToSame

\* The terms in a log ascend.
LEMMA TermsAscend ==
  ASSUME NEW l \in Seq(LogEntry), NEW ld, Ledger(ld), NEW t, FromLed(l, t, ld),
         NEW i \in 1..Len(l), NEW j \in 1..i
  PROVE  l[j].term <= l[i].term /\ l[j].term \in Nat /\ l[i].term \in Nat
<1>1. PICK v \in DOMAIN ld : v = l[i].term /\ SameTo(l, ld[v], i)
  BY DEF FromLed
<1>2. j \in 1..Len(ld[v]) /\ l[j] = ld[v][j]
  <2>1. ld[v] \in Seq(LogEntry)
    BY DEF Ledger
  <2> QED BY <1>1, <2>1, LenProperties DEF SameTo
<1>3. ld[v][j].term <= v
  BY <1>2 DEF Ledger, FromLed
<1>4. j \in 1..Len(l)
  BY LenProperties
<1>5. l[i] \in LogEntry /\ l[j] \in LogEntry
  BY <1>4, ElementOfSeq
<1> QED BY <1>1, <1>2, <1>3, <1>5 DEF LogEntry

LEMMA FromGrown ==
  ASSUME NEW l \in Seq(LogEntry), NEW ld, NEW longer, Ledger(ld), Ledger(longer), Grows(ld, longer),
         NEW t \in Nat, NEW u \in Nat, t <= u, FromLed(l, t, ld)
  PROVE  FromLed(l, u, longer)
<1> SUFFICES ASSUME NEW i \in 1..Len(l)
             PROVE  /\ l[i].index = i /\ l[i].term <= u /\ l[i].term \in DOMAIN longer
                    /\ SameTo(l, longer[l[i].term], i)
  BY DEF FromLed
<1>1. PICK v \in DOMAIN ld : v = l[i].term /\ SameTo(l, ld[v], i) /\ v <= t /\ l[i].index = i
  BY DEF FromLed
<1>2. /\ v \in Nat /\ v \in DOMAIN longer /\ SameTo(ld[v], longer[v], Len(ld[v]))
      /\ ld[v] \in Seq(LogEntry) /\ longer[v] \in Seq(LogEntry)
  BY DEF Ledger, Grows
<1>3. i \in Nat /\ i \in 0..Len(ld[v]) /\ Len(ld[v]) \in Nat
  BY <1>1, <1>2, LenProperties DEF SameTo
<1>4. SameTo(ld[v], longer[v], i)
  BY <1>2, <1>3, SameToSame
<1>5. SameTo(l, longer[v], i)
  BY <1>1, <1>2, <1>3, <1>4, SameToSame
<1> QED BY <1>1, <1>2, <1>5

\* The leader of term t adds an entry to its log, which is the one on record.
LedgerStep(ld, t, l, c, more, longer) ==
  /\ Ledger(ld) /\ FromLed(l, t, ld) /\ (t \in DOMAIN ld => ld[t] = l)
  /\ more = appendEntry(l, t, c)
  /\ DOMAIN longer = DOMAIN ld \union {t} /\ longer[t] = more
  /\ \A u \in DOMAIN ld \ {t} : longer[u] = ld[u]

\* A leader appends.
LEMMA LedgerGrows ==
  ASSUME NEW ld, NEW t \in Nat, NEW l \in Seq(LogEntry),
         NEW c \in Command \union {Noop}, NEW more, NEW longer, LedgerStep(ld, t, l, c, more, longer)
  PROVE  /\ Ledger(longer) /\ Grows(ld, longer) /\ more \in Seq(LogEntry)
         /\ Len(more) = Len(l) + 1 /\ Len(l) \in Nat /\ SameTo(l, more, Len(l))
         /\ more[Len(l) + 1].term = t
<1> USE DEF LedgerStep
<1>1. PICK e : /\ more = Append(l, e)
               /\ e = [term |-> t, index |-> Len(l) + 1, command |-> c] /\ e.term = t
               /\ e.index = Len(l) + 1
  BY DEF appendEntry
<1>2. Len(l) \in Nat /\ e \in LogEntry
  <2>1. c \in Payload
    BY KvRaftAssumption
  <2> QED BY <1>1, <2>1, LenProperties DEF LogEntry
<1>3. /\ more \in Seq(LogEntry) /\ Len(more) = Len(l) + 1 /\ more[Len(l) + 1] = e
      /\ \A k \in 1..Len(l) : more[k] = l[k]
  BY <1>1, <1>2, AppendProperties
<1>4. SameTo(l, more, Len(l))
  BY <1>2, <1>3 DEF SameTo
<1>5. /\ longer[t] = more /\ DOMAIN longer = DOMAIN ld \union {t} /\ t \in DOMAIN longer
      /\ \A u \in DOMAIN ld \ {t} : longer[u] = ld[u]
  OBVIOUS
<1>6. /\ DOMAIN ld \subseteq Nat
      /\ \A u \in DOMAIN ld : ld[u] \in Seq(LogEntry) /\ FromLed(ld[u], u, ld)
  BY DEF Ledger
<1>7. \A u \in DOMAIN ld : SameTo(ld[u], longer[u], Len(ld[u]))
  <2> SUFFICES ASSUME NEW u \in DOMAIN ld PROVE SameTo(ld[u], longer[u], Len(ld[u]))
    OBVIOUS
  <2>1. CASE u = t
    BY <1>4, <1>5, <2>1
  <2>2. CASE u # t
    <3>1. Len(ld[u]) \in Nat
      BY <1>6, LenProperties
    <3> QED BY <1>5, <1>6, <2>2, <3>1, SameToSame
  <2> QED BY <2>1, <2>2
<1>8. Grows(ld, longer)
  BY <1>5, <1>7 DEF Grows
<1> HIDE DEF LogEntry
<1>9. ASSUME NEW r \in Seq(LogEntry), NEW u \in Nat, FromLed(r, u, ld) PROVE FromLed(r, u, longer)
  <2> SUFFICES ASSUME NEW i \in 1..Len(r)
               PROVE  /\ r[i].index = i /\ r[i].term <= u /\ r[i].term \in DOMAIN longer
                      /\ SameTo(r, longer[r[i].term], i)
    BY DEF FromLed
  <2>1. PICK v \in DOMAIN ld : v = r[i].term /\ SameTo(r, ld[v], i) /\ v <= u /\ r[i].index = i
    BY <1>9 DEF FromLed
  <2>2. /\ SameTo(ld[v], longer[v], Len(ld[v])) /\ ld[v] \in Seq(LogEntry)
        /\ longer[v] \in Seq(LogEntry)
    BY <1>3, <1>5, <1>6, <1>7
  <2>3. i \in Nat /\ i \in 0..Len(ld[v]) /\ Len(ld[v]) \in Nat
    BY <2>1, <2>2, LenProperties DEF SameTo
  <2>4. SameTo(r, longer[v], i)
    BY <2>1, <2>2, <2>3, SameToSame
  <2> QED BY <1>5, <2>1, <2>4
<1>10. FromLed(more, t, longer)
  <2> SUFFICES ASSUME NEW i \in 1..Len(more)
               PROVE  /\ more[i].index = i /\ more[i].term <= t /\ more[i].term \in DOMAIN longer
                      /\ SameTo(more, longer[more[i].term], i)
    BY DEF FromLed
  <2>1. CASE i = Len(l) + 1
    <3>1. more[i].term = t /\ more[i].index = i
      BY <1>1, <1>3, <2>1
    <3>2. SameTo(more, more, i)
      BY <1>2, <1>3, <2>1 DEF SameTo
    <3> QED BY <1>5, <3>1, <3>2
  <2>2. CASE i # Len(l) + 1
    <3>1. i \in 1..Len(l) /\ i \in Nat /\ i \in 0..Len(l) /\ more[i] = l[i]
      BY <1>2, <1>3, <2>2
    <3>2. FromLed(l, t, longer)
      BY <1>9
    <3>3. /\ l[i].index = i /\ l[i].term <= t /\ l[i].term \in DOMAIN longer
          /\ SameTo(l, longer[l[i].term], i)
      BY <3>1, <3>2 DEF FromLed
    <3>4. SameTo(l, more, i)
      BY <1>2, <1>3, <1>4, <3>1, SameToSame
    <3>5. longer[l[i].term] \in Seq(LogEntry)
      BY <1>3, <1>5, <1>6, <3>3
    <3>6. SameTo(more, longer[l[i].term], i)
      BY <1>3, <3>1, <3>3, <3>4, <3>5, SameToSame
    <3> QED BY <3>1, <3>3, <3>6
  <2> QED BY <2>1, <2>2
<1>11. Ledger(longer)
  <2> SUFFICES ASSUME NEW u \in DOMAIN longer
               PROVE  /\ u \in Nat /\ longer[u] \in Seq(LogEntry) /\ Len(longer[u]) > 0
                      /\ longer[u][Len(longer[u])].term = u /\ FromLed(longer[u], u, longer)
    BY DEF Ledger
  <2>1. CASE u = t
    <3>1. Len(more) > 0 /\ more[Len(more)].term = t
      BY <1>1, <1>2, <1>3
    <3> QED BY <1>3, <1>5, <1>10, <2>1, <3>1
  <2>2. CASE u # t
    <3>1. u \in DOMAIN ld /\ longer[u] = ld[u] /\ u \in Nat
      BY <1>5, <1>6, <2>2
    <3> QED BY <1>6, <1>9, <3>1 DEF Ledger
  <2> QED BY <2>1, <2>2
<1> QED BY <1>1, <1>2, <1>3, <1>4, <1>5, <1>8, <1>11

-----------------------------------------------------------------------------
(* Requests carry parts of the leader's log, and make of a log such a part. *)

LEMMA PartCarries ==
  ASSUME NEW l \in Seq(LogEntry), NEW m \in AppendEntriesRequest, PartOf(SentBy(m), Whole(l))
  PROVE  Carries(m, l)
<1> DEFINE F == SentBy(m)
           L == Whole(l)
<1>1. PICK prev \in Nat, es \in Seq(LogEntry) : prev = m.prev_log_index /\ es = m.entries
  BY DEF AppendEntriesRequest
<1>2. /\ F.prev = prev /\ F.prev_term = m.prev_log_term /\ F.entries = es
      /\ Lo(F) = prev /\ Hi(F) = prev + Len(es) /\ Len(es) \in Nat
  BY <1>1, LenProperties DEF SentBy, Lo, Hi
<1>3. /\ Lo(L) = 0 /\ Hi(L) = Len(l) /\ Len(l) \in Nat
      /\ \A k \in 1..Len(l) : TermAt(L, k) = l[k].term /\ EntryAt(L, k) = l[k]
  BY WholeType
<1>4. Hi(F) <= Hi(L) /\ \A k \in Nat : Within(F, k) => Same(F, L, k)
  BY DEF PartOf
<1> HIDE DEF F, L
<1>5. prev > 0 => m.prev_log_term = l[prev].term
  <2> SUFFICES ASSUME prev > 0 PROVE m.prev_log_term = l[prev].term
    OBVIOUS
  <2>1. Within(F, prev) /\ prev \in 1..Len(l)
    BY <1>2, <1>3, <1>4 DEF Within
  <2>2. TermAt(F, prev) = TermAt(L, prev)
    BY <1>4, <2>1 DEF Same
  <2> QED BY <1>2, <1>3, <2>1, <2>2 DEF TermAt
<1>6. ASSUME NEW i \in 1..Len(es) PROVE es[i] = l[prev + i]
  <2>1. PICK k \in 1..Len(l) : k = prev + i /\ k - prev = i /\ prev < k /\ 0 < k /\ k \in Nat
    BY <1>2, <1>3, <1>4
  <2>2. Within(F, k)
    BY <1>2, <2>1 DEF Within
  <2>3. EntryAt(F, k) = EntryAt(L, k)
    BY <1>2, <1>3, <1>4, <2>1, <2>2 DEF Same
  <2> QED BY <1>2, <1>3, <2>1, <2>3 DEF EntryAt
<1> QED BY <1>1, <1>2, <1>3, <1>4, <1>5, <1>6 DEF Carries

LEMMA CarriesMore ==
  ASSUME NEW l \in Seq(LogEntry), NEW r \in Seq(LogEntry), NEW m \in AppendEntriesRequest,
         Carries(m, l), SameTo(l, r, Len(l))
  PROVE  Carries(m, r)
<1>1. PICK prev \in Nat, es \in Seq(LogEntry) : prev = m.prev_log_index /\ es = m.entries
  BY DEF AppendEntriesRequest
<1>2. Len(l) \in Nat /\ Len(r) \in Nat /\ Len(es) \in Nat
  BY LenProperties
<1>3. /\ prev + Len(es) <= Len(l) /\ Len(l) <= Len(r)
      /\ \A i \in 1..Len(es) : es[i] = l[prev + i]
      /\ \A j \in 1..Len(l) : l[j] = r[j]
  BY <1>1 DEF Carries, SameTo
<1>4. \A i \in 1..Len(es) : es[i] = r[prev + i]
  <2>1. \A i \in 1..Len(es) : prev + i \in 1..Len(l)
    BY <1>2, <1>3
  <2> QED BY <1>3, <2>1
<1>5. prev > 0 => m.prev_log_term = r[prev].term
  <2>1. prev > 0 => m.prev_log_term = l[prev].term
    BY <1>1 DEF Carries
  <2>2. prev > 0 => prev \in 1..Len(l)
    BY <1>2, <1>3
  <2> QED BY <1>3, <2>1, <2>2
<1>6. prev + Len(es) <= Len(r)
  BY <1>2, <1>3
<1> QED BY <1>1, <1>4, <1>5, <1>6 DEF Carries

\* A log that has the entry before the batch becomes the leader's, as far as
\* the batch reaches, and what it had of the leader's log it keeps.
LEMMA MergeJoins ==
  ASSUME NEW ld, Ledger(ld), NEW l \in Seq(LogEntry), NEW u, FromLed(l, u, ld),
         NEW t \in DOMAIN ld, NEW m \in AppendEntriesRequest, Carries(m, ld[t]),
         m.prev_log_index <= Len(l), ~mismatch(l, m),
         NEW merged, merged = merge(l, m.prev_log_index, m.entries)
  PROVE  /\ merged \in Seq(LogEntry)
         /\ SameTo(merged, ld[t], m.prev_log_index + Len(m.entries))
         /\ \A k \in Nat : SameTo(l, ld[t], k) => SameTo(merged, ld[t], k)
         /\ merged = l \/ Len(merged) = m.prev_log_index + Len(m.entries)
<1>1. PICK prev \in Nat, es \in Seq(LogEntry), r \in Seq(LogEntry) :
        prev = m.prev_log_index /\ es = m.entries /\ r = ld[t]
  BY DEF AppendEntriesRequest, Ledger
<1> DEFINE last == prev + Len(es)
           agreeTo(j) == \A i \in (prev + 1)..j : i <= Len(l) /\ l[i].term = es[i - prev].term
<1>2. /\ Len(l) \in Nat /\ Len(r) \in Nat /\ Len(es) \in Nat /\ prev <= Len(l) /\ last <= Len(r)
      /\ last \in Nat
      /\ \A i \in (prev + 1)..last : es[i - prev] = r[i]
  <2>1. /\ Len(l) \in Nat /\ Len(r) \in Nat /\ Len(es) \in Nat /\ prev <= Len(l)
        /\ last <= Len(r) /\ \A i \in 1..Len(es) : es[i] = r[prev + i]
    BY <1>1, LenProperties DEF Carries
  <2>2. \A i \in (prev + 1)..last : i - prev \in 1..Len(es) /\ prev + (i - prev) = i
    BY <2>1
  <2> QED BY <2>1, <2>2
<1>3. SameTo(l, r, prev)
  <2>1. CASE prev = 0
    BY <1>2, <2>1 DEF SameTo
  <2>2. CASE prev # 0
    <3>1. prev \in 1..Len(l) /\ prev <= Len(r) /\ prev > 0
      BY <1>2, <2>2
    <3>2. l[prev].term = r[prev].term
      BY <1>1, <3>1 DEF mismatch, getTermAt, Carries
    <3>3. FromLed(r, t, ld)
      BY <1>1 DEF Ledger
    <3> QED BY <3>1, <3>2, <3>3, SameTerm
  <2> QED BY <2>1, <2>2
<1>4. \A k \in Nat : (k <= last /\ agreeTo(k)) => SameTo(l, r, k)
  <2> SUFFICES ASSUME NEW k \in Nat, k <= last, agreeTo(k) PROVE SameTo(l, r, k)
    OBVIOUS
  <2>1. CASE k <= prev
    BY <1>2, <1>3, <2>1, SameToSame
  <2>2. CASE ~(k <= prev)
    <3>1. k \in (prev + 1)..k /\ k \in (prev + 1)..last
      BY <2>2, <1>2
    <3>2. k <= Len(l) /\ l[k].term = r[k].term
      BY <1>2, <3>1
    <3>3. k \in 1..Len(l) /\ k <= Len(r)
      BY <1>2, <2>2, <3>2
    <3>4. FromLed(r, t, ld)
      BY <1>1 DEF Ledger
    <3> QED BY <3>2, <3>3, <3>4, SameTerm
  <2> QED BY <2>1, <2>2
<1>5. merged = IF agreeTo(last) THEN l
               ELSE [j \in 1..last |-> IF agreeTo(j) THEN l[j] ELSE es[j - prev]]
  BY <1>1 DEF merge
<1>6. merged \in Seq(LogEntry)
  <2>1. prev \in 0..Len(l) /\ merged = merge(l, prev, es)
    BY <1>1, <1>2
  <2> QED BY <2>1, MergeType
<1>7. CASE agreeTo(last)
  <2>1. merged = l
    BY <1>5, <1>7
  <2>2. SameTo(l, r, last)
    BY <1>2, <1>4, <1>7
  <2> HIDE DEF last
  <2> QED BY <1>1, <1>6, <2>1, <2>2 DEF last
<1>8. CASE ~agreeTo(last)
  <2>1. /\ DOMAIN merged = 1..last
        /\ \A j \in 1..last : merged[j] = IF agreeTo(j) THEN l[j] ELSE es[j - prev]
    BY <1>5, <1>8
  <2>2. Len(merged) = last
    <3>1. DOMAIN merged = 1..Len(merged) /\ Len(merged) \in Nat
      BY <1>6, LenProperties
    <3> QED BY <1>2, <2>1, <3>1
  <2>3. ASSUME NEW j \in 1..last PROVE merged[j] = r[j]
    <3>1. CASE agreeTo(j)
      <4>1. j \in Nat /\ j <= last /\ j \in 1..j
        BY <1>2
      <4>2. SameTo(l, r, j)
        BY <1>4, <3>1, <4>1
      <4> QED BY <2>1, <3>1, <4>1, <4>2 DEF SameTo
    <3>2. CASE ~agreeTo(j)
      <4>1. j \in (prev + 1)..last
        BY <1>2, <3>2
      <4> QED BY <1>2, <2>1, <3>2, <4>1
    <3> QED BY <3>1, <3>2
  <2>4. SameTo(merged, r, last)
    BY <1>2, <2>2, <2>3 DEF SameTo
  <2>5. ASSUME NEW k \in Nat, SameTo(l, r, k) PROVE SameTo(merged, r, k)
    <3>1. k <= last
      <4> SUFFICES ASSUME k > last PROVE agreeTo(last)
        BY <1>2, <1>8
      <4>1. ASSUME NEW i \in (prev + 1)..last PROVE i <= Len(l) /\ l[i].term = es[i - prev].term
        <5>1. i \in 1..k
          BY <1>2
        <5> QED BY <1>2, <2>5, <5>1 DEF SameTo
      <4> QED BY <4>1
    <3> HIDE DEF last
    <3>2. k \in 0..last
      BY <3>1, <1>2
    <3> QED BY <1>2, <1>6, <2>4, <3>2, SameToSame
  <2> HIDE DEF last
  <2> QED BY <1>1, <1>6, <2>2, <2>4, <2>5 DEF last
<1> QED BY <1>7, <1>8

-----------------------------------------------------------------------------
(* The inductive invariant: where logs, requests and votes come from. *)

LedByElected ==
  /\ led = [t \in DOMAIN led |-> led[t]]
  /\ \A t \in DOMAIN led : \E x \in Node : Elected(x, t)

\* Every log is made of the leaders' logs, and every batch is part of one.
LogsFromLed == \A x \in Node : FromLed(log[x], current_term[x], led)

RequestsFromLed == \A m \in Requests : m.term \in DOMAIN led /\ Carries(m, led[m.term])

LeaderLed ==
  \A x \in Node : state[x] = "leader" =>
    current_term[x] \in DOMAIN led /\ led[current_term[x]] = log[x]

\* A candidate's log is the one it asked for votes with.
BallotInv ==
  \A m \in msgs : m.type = "RequestVote" =>
    /\ current_term[m.from] >= m.term
    /\ (state[m.from] = "candidate" /\ current_term[m.from] = m.term) =>
         /\ m.last_log_index = Len(log[m.from])
         /\ m.last_log_term = getLastLogTerm(log[m.from])

GrantsToPast == \A p, c \in Node, t \in Nat : Granted(p, c, t) => current_term[c] >= t

\* What was acknowledged is within the log of that term's leader, and past.
AckInv ==
  \A a \in acked : /\ a[1] \in Node /\ a[2] \in DOMAIN led /\ a[3] \in Nat
                   /\ a[3] <= Len(led[a[2]]) /\ current_term[a[1]] >= a[2]

HistoryInv ==
  /\ Ledger(led) /\ LedByElected /\ LogsFromLed /\ RequestsFromLed /\ LeaderLed
  /\ BallotInv /\ GrantsToPast /\ AckInv

-----------------------------------------------------------------------------
(* What a step of node n may do to the logs, and what it may send. *)

\* n commits an entry of its own term that a majority is credited with.
Advances(n) ==
  /\ state[n] = "leader" /\ UNCHANGED <<current_term, state, msgs>>
  /\ \E k \in 1..Len(log[n]), Q \in SUBSET Node :
       /\ commit_index' = [commit_index EXCEPT ![n] = k]
       /\ log[n][k].term = current_term[n]
       /\ Cardinality(Q) >= quorumSize
       /\ \A p \in Q : p = n \/ peer_states'[n][p].match_index >= k

\* No log changes and nobody begins to lead.
Keeps(n) ==
  /\ UNCHANGED <<log, led, acked>>
  /\ UNCHANGED commit_index \/ Advances(n)
  /\ state'[n] = "leader" => state[n] = "leader" /\ current_term'[n] = current_term[n]
  /\ (state'[n] = "candidate" /\ current_term'[n] = current_term[n]) => state[n] = "candidate"

\* A majority has voted for n, itself included.
HasVotes(n) ==
  \E Q \in SUBSET Node :
    Cardinality(Q) >= quorumSize /\ \A p \in Q : p = n \/ Granted(p, n, current_term[n])

\* n leads, or begins to, and appends an entry.
Appends(n) ==
  /\ state[n] = "leader" \/ (state[n] = "candidate" /\ HasVotes(n))
  /\ state'[n] = "leader" /\ UNCHANGED <<current_term, acked, commit_index>>
  /\ \E c \in Command \union {Noop} :
       LET more == appendEntry(log[n], current_term[n], c)
       IN  /\ log' = [log EXCEPT ![n] = more]
           /\ led' = [t \in DOMAIN led \union {current_term[n]} |->
                        IF t = current_term[n] THEN more ELSE led[t]]

\* n follows and accepts a batch.
Takes(n, m) ==
  /\ m \in msgs /\ m.type = "AppendEntries" /\ m.to = n /\ m.term >= current_term[n]
  /\ m.prev_log_index <= Len(log[n]) /\ ~mismatch(log[n], m)
  /\ state'[n] = "follower" /\ current_term'[n] = m.term /\ UNCHANGED led
  /\ log' = [log EXCEPT ![n] = merge(log[n], m.prev_log_index, m.entries)]
  /\ commit_index' = [commit_index EXCEPT ![n] =
       IF m.leader_commit > @ THEN least(m.leader_commit, Len(log'[n])) ELSE @]
  /\ acked' = acked \union {<<n, m.term, m.prev_log_index + Len(m.entries)>>}

Accepts(n) == \E m \in msgs : Takes(n, m)

LogMove(n) == Keeps(n) \/ Appends(n) \/ Accepts(n)

SendsBallot(n, m) ==
  /\ m.type = "RequestVote" /\ m.from = n /\ m.term = current_term'[n] /\ log' = log
  /\ current_term'[n] > current_term[n]
  /\ m.last_log_index = Len(log[n]) /\ m.last_log_term = getLastLogTerm(log[n])

SendsBatch(n, m) ==
  /\ m.type = "AppendEntries" /\ m.from = n /\ m.term = current_term'[n]
  /\ state'[n] = "leader" /\ m.leader_commit = commit_index[n]
  /\ PartOf(SentBy(m), Whole(log'[n]))

SendsVote(n, m) ==
  /\ m.type = "RequestVoteResponse" /\ m.from = n
  /\ m.vote_granted =>
       \E r \in msgs : /\ r.type = "RequestVote" /\ r.from = m.to /\ r.to = n
                       /\ r.term = m.term /\ m.term = current_term'[n]
                       /\ log_ok(log[n], r) /\ UNCHANGED <<log, led, acked>>

SendMove(n) ==
  /\ msgs \subseteq msgs'
  /\ \A m \in msgs' \ msgs :
       \/ SendsBallot(n, m) \/ SendsBatch(n, m) \/ SendsVote(n, m)
       \/ m.type = "AppendEntriesResponse"

\* n applies entries of its log up to its commit index.
Applies(n) ==
  /\ \A x \in Node \ {n} : applied'[x] = applied[x]
  /\ \A e \in applied'[n] : \/ e \in applied[n]
                           \/ \E k \in 1..Len(log[n]) : k <= commit_index[n] /\ e = log[n][k]
  /\ panicked' = panicked \/ commit_index[n] > Len(log[n])

StepMove(n) == StepOf(n) /\ LogMove(n) /\ SendMove(n) /\ Applies(n)

-----------------------------------------------------------------------------
(* Each handler makes such a step. *)

LEMMA NotedAgain ==
  ASSUME TypeOK, LedByElected, LeaderLed, NEW n \in Node, noteLed(n), log'[n] = log[n],
         state'[n] = "leader" => state[n] = "leader" /\ current_term'[n] = current_term[n]
  PROVE  led' = led
<1>1. CASE state'[n] # "leader"
  BY <1>1 DEF noteLed
<1>2. CASE state'[n] = "leader"
  <2>1. PICK t : t = current_term[n] /\ t \in DOMAIN led /\ led[t] = log[n]
    BY <1>2 DEF LeaderLed
  <2>2. led' = [u \in DOMAIN led \union {t} |-> IF u = t THEN log[n] ELSE led[u]]
    BY <1>2, <2>1 DEF noteLed
  <2>3. led' = [u \in DOMAIN led |-> led[u]]
    BY <2>1, <2>2
  <2> QED BY <2>3 DEF LedByElected
<1> QED BY <1>1, <1>2

LEMMA NoMail == ASSUME NEW n, msgs' = msgs PROVE SendMove(n)
BY DEF SendMove

LEMMA NothingApplied == ASSUME NEW n \in Node, UNCHANGED applyVars PROVE Applies(n)
BY DEF applyVars, Applies

LEMMA CommittedApplied == ASSUME TypeOK, NEW n \in Node, applyCommitted(n) PROVE Applies(n)
<1> DEFINE todo == (last_applied[n] + 1)..commit_index[n]
           inLog == todo \intersect (1..Len(log[n]))
           take(ks) == applied' = [applied EXCEPT ![n] = @ \union {log[n][k] : k \in ks}]
<1>1. last_applied[n] \in Nat /\ commit_index[n] \in Nat /\ Len(log[n]) \in Nat
  BY LenProperties DEF TypeOK
<1>2. ASSUME NEW ks \in SUBSET inLog, take(ks)
      PROVE  /\ \A x \in Node \ {n} : applied'[x] = applied[x]
             /\ \A e \in applied'[n] :
                  \/ e \in applied[n]
                  \/ \E k \in 1..Len(log[n]) : k <= commit_index[n] /\ e = log[n][k]
  <2>1. \A x \in Node \ {n} : applied'[x] = applied[x]
    BY <1>2 DEF TypeOK
  <2>2. applied'[n] = applied[n] \union {log[n][k] : k \in ks}
    BY <1>2 DEF TypeOK
  <2>3. \A k \in ks : k \in 1..Len(log[n]) /\ k <= commit_index[n]
    BY <1>1
  <2> HIDE DEF inLog
  <2> QED BY <2>1, <2>2, <2>3
<1>3. inLog # todo => commit_index[n] > Len(log[n])
  BY <1>1
<1>4. \/ UNCHANGED applyVars
      \/ take(inLog) /\ panicked' = IF inLog = todo THEN panicked ELSE panicked \union {n}
      \/ \E k \in inLog : take({j \in inLog : j < k}) /\ UNCHANGED panicked
  BY DEF applyCommitted
<1>5. \A k \in inLog : {j \in inLog : j < k} \in SUBSET inLog
  OBVIOUS
<1> HIDE DEF inLog, todo, take
<1>6. CASE UNCHANGED applyVars
  BY <1>6, NothingApplied
<1>7. CASE take(inLog) /\ panicked' = IF inLog = todo THEN panicked ELSE panicked \union {n}
  BY <1>2, <1>3, <1>7 DEF Applies
<1>8. CASE \E k \in inLog : take({j \in inLog : j < k}) /\ UNCHANGED panicked
  BY <1>2, <1>5, <1>8 DEF Applies
<1> QED BY <1>4, <1>6, <1>7, <1>8

\* A step in which n neither sends a batch nor a vote nor changes its log.
LEMMA KeepsStep ==
  ASSUME TypeOK, HistoryInv, NEW n \in Node, noteLed(n), UNCHANGED <<log, acked>>,
         UNCHANGED commit_index \/ Advances(n),
         state'[n] = "leader" => state[n] = "leader" /\ current_term'[n] = current_term[n],
         (state'[n] = "candidate" /\ current_term'[n] = current_term[n]) => state[n] = "candidate"
  PROVE  Keeps(n)
BY NotedAgain DEF Keeps, HistoryInv

LEMMA SubmitStepMove ==
  ASSUME VoteInv, NEW n \in Node, NEW c \in Command, Submit(n, c), UNCHANGED acked, noteLed(n)
  PROVE  StepMove(n)
<1>1. StepOf(n)
  BY SubmitMove DEF VoteInv
<1>2. PICK more : more = appendEntry(log[n], current_term[n], c)
  OBVIOUS
<1>3. /\ state[n] = "leader" /\ state' = state /\ current_term' = current_term /\ msgs' = msgs
      /\ commit_index' = commit_index /\ UNCHANGED applyVars
      /\ log' = [log EXCEPT ![n] = more] /\ log'[n] = more
  BY <1>2 DEF Submit, VoteInv, TypeOK
<1>4. led' = [t \in DOMAIN led \union {current_term[n]} |->
                IF t = current_term[n] THEN more ELSE led[t]]
  BY <1>3 DEF noteLed
<1>5. Appends(n)
  BY <1>2, <1>3, <1>4 DEF Appends
<1> QED BY <1>1, <1>3, <1>5, NoMail, NothingApplied DEF StepMove, LogMove

\* The heartbeats of a leader with its log l.
LEMMA SendsHeartbeats ==
  ASSUME TypeOK, NEW n \in Node, NEW t \in Nat, NEW l \in Seq(LogEntry),
         NEW peers \in [Node -> PeerState],
         \A p \in Node \ {n} : peers[p].next_index \in 1..(Len(l) + 1),
         t = current_term'[n], l = log'[n], state'[n] = "leader",
         msgs' = msgs \union heartbeats(n, t, l, peers)
  PROVE  SendMove(n)
<1>1. ASSUME NEW m \in heartbeats(n, t, l, peers) PROVE SendsBatch(n, m)
  <2>1. PartOf(SentBy(m), Whole(l)) /\ m.type = "AppendEntries" /\ m.from = n /\ m.term = t
    BY HeartbeatsArePart
  <2>2. m.leader_commit = commit_index[n]
    BY DEF heartbeats
  <2> QED BY <2>1, <2>2 DEF SendsBatch
<1> QED BY <1>1 DEF SendMove

LEMMA BecomesLeader ==
  ASSUME VoteInv, NEW n \in Node, state[n] = "candidate", HasVotes(n),
         becomeLeader(n, current_term[n]), UNCHANGED <<current_term, acked, commit_index>>,
         noteLed(n)
  PROVE  Appends(n) /\ SendMove(n)
<1>1. PICK t \in Nat, l \in Seq(LogEntry) : t = current_term[n] /\ l = log[n]
  BY DEF VoteInv, TypeOK
<1>2. PICK more : more = appendEntry(l, t, Noop)
  OBVIOUS
<1>3. /\ state'[n] = "leader" /\ msgs' = msgs \union heartbeats(n, t, more, freshPeers(l))
      /\ log' = [log EXCEPT ![n] = more] /\ log'[n] = more
  BY <1>1, <1>2 DEF becomeLeader, VoteInv, TypeOK
<1>4. led' = [u \in DOMAIN led \union {t} |-> IF u = t THEN more ELSE led[u]]
  BY <1>1, <1>3 DEF noteLed
<1>5. Appends(n)
  BY <1>1, <1>2, <1>3, <1>4 DEF Appends
<1>6. more \in Seq(LogEntry) /\ Len(more) = Len(l) + 1 /\ Len(l) \in Nat
  <2>1. more \in Seq(LogEntry) /\ Hi(Whole(more)) = Hi(Whole(l)) + 1
    BY <1>2, AppendContinues DEF Continues
  <2> QED BY <2>1, WholeType
<1>7. freshPeers(l) \in [Node -> PeerState] /\ \A p \in Node : freshPeers(l)[p].next_index = Len(l) + 1
  BY FreshPeersType DEF freshPeers
<1>8. \A p \in Node \ {n} : freshPeers(l)[p].next_index \in 1..(Len(more) + 1)
  BY <1>6, <1>7
<1>9. TypeOK /\ t = current_term'[n]
  BY <1>1 DEF VoteInv
<1>10. SendMove(n)
  BY <1>3, <1>6, <1>7, <1>8, <1>9, SendsHeartbeats
<1> QED BY <1>5, <1>10

LEMMA TickStepMove ==
  ASSUME VoteInv, Several, LogsInv, HistoryInv, NEW n \in Node, Tick(n), UNCHANGED acked, noteLed(n)
  PROVE  StepMove(n)
<1>1. StepOf(n) /\ TypeOK /\ Applies(n)
  BY TickMove, CommittedApplied DEF VoteInv, Tick
<1>2. PICK t \in Nat, l \in Seq(LogEntry), peers \in [Node -> PeerState] :
        t = current_term[n] /\ l = log[n] /\ peers = peer_states[n]
  BY <1>1 DEF TypeOK
<1>3. CASE startElection(n)
  <2>1. Cardinality(Node) # 1
    BY KvRaftAssumption, FS_Singleton, Zenon DEF Several
  <2>2. /\ state' = [state EXCEPT ![n] = "candidate"] /\ UNCHANGED <<log, commit_index>>
        /\ current_term' = [current_term EXCEPT ![n] = t + 1]
        /\ msgs' = msgs \union requestVotes(n, t + 1)
    BY <1>2, <1>3, <2>1, Zenon DEF startElection
  <2>3. state'[n] = "candidate" /\ current_term'[n] = t + 1
    BY <1>1, <2>2 DEF TypeOK
  <2>4. Keeps(n)
    <3>1. state'[n] # "leader" /\ current_term'[n] # current_term[n]
      BY <1>2, <2>3
    <3> QED BY <1>1, <2>2, <3>1, KeepsStep
  <2>5. ASSUME NEW m \in requestVotes(n, t + 1) PROVE SendsBallot(n, m)
    <3>1. /\ m.type = "RequestVote" /\ m.from = n /\ m.term = t + 1
          /\ m.last_log_index = Len(log[n]) /\ m.last_log_term = getLastLogTerm(log[n])
      BY DEF requestVotes
    <3>2. t + 1 > current_term[n]
      BY <1>2
    <3> QED BY <2>2, <2>3, <3>1, <3>2 DEF SendsBallot
  <2>6. SendMove(n)
    BY <2>2, <2>5 DEF SendMove
  <2> QED BY <1>1, <2>4, <2>6 DEF StepMove, LogMove
<1>4. CASE sendHeartbeats(n)
  <2>1. /\ state[n] = "leader" /\ msgs' = msgs \union heartbeats(n, t, l, peers)
        /\ UNCHANGED <<current_term, state, log, commit_index, peer_states>>
    BY <1>2, <1>4 DEF sendHeartbeats, nodeVars
  <2>2. Keeps(n)
    BY <1>1, <2>1, KeepsStep
  <2>3. \A p \in Node \ {n} : peers[p].next_index \in 1..(Len(l) + 1)
    BY <1>2, <2>1 DEF LogsInv, IndexInv, ReplicationIndicesInLog
  <2>4. t = current_term'[n] /\ l = log'[n] /\ state'[n] = "leader"
    BY <1>2, <2>1
  <2>5. SendMove(n)
    BY <1>1, <2>1, <2>3, <2>4, SendsHeartbeats
  <2> QED BY <1>1, <2>2, <2>5 DEF StepMove, LogMove
<1>5. CASE noTimeout(n)
  <2>1. UNCHANGED <<current_term, state, log, commit_index, msgs>>
    BY <1>5 DEF noTimeout, nodeVars
  <2>2. Keeps(n)
    BY <1>1, <2>1, KeepsStep
  <2> QED BY <1>1, <2>1, <2>2, NoMail DEF StepMove, LogMove
<1> QED BY <1>3, <1>4, <1>5 DEF Tick

LEMMA HandleRequestVoteStepMove ==
  ASSUME VoteInv, HistoryInv, NEW m \in msgs, HandleRequestVote(m), UNCHANGED acked, noteLed(m.to)
  PROVE  StepMove(m.to)
<1>1. PICK n \in Node, c \in Node, t \in Nat : c # n /\ m.to = n /\ m.from = c /\ m.term = t
  BY MessageFields DEF VoteInv, SentToOthers
<1>2. PICK u \in Nat : u = current_term[n]
  BY DEF VoteInv, TypeOK
<1>3. TypeOK /\ StepOf(n) /\ noteLed(n)
  BY <1>1, HandleRequestVoteMove DEF VoteInv
<1>4. /\ current_term' = [current_term EXCEPT ![n] = most(u, t)]
      /\ state' = [state EXCEPT ![n] = IF t > u THEN "follower" ELSE state[n]]
      /\ UNCHANGED <<log, commit_index, applyVars>>
  BY <1>1, <1>2, <1>3 DEF HandleRequestVote, grants, TypeOK
<1>5. current_term'[n] = most(u, t) /\ state'[n] = IF t > u THEN "follower" ELSE state[n]
  BY <1>3, <1>4 DEF TypeOK
<1>6. state'[n] # "follower" => state'[n] = state[n] /\ current_term'[n] = u
  BY <1>5 DEF most
<1>7. Keeps(n)
  BY <1>2, <1>3, <1>4, <1>6, KeepsStep
<1>8. PICK granted \in BOOLEAN :
        /\ granted => t >= u /\ log_ok(log[n], m)
        /\ \E r : /\ r.type = "RequestVoteResponse" /\ r.from = n /\ r.to = c
                  /\ r.term = most(u, t) /\ r.vote_granted = granted
                  /\ msgs' = msgs \union {r}
  <2> DEFINE given == t >= u /\ can_vote(voteAt(n, t), c) /\ log_ok(log[n], m)
             answer == [type |-> "RequestVoteResponse", from |-> n, to |-> c,
                        term |-> most(u, t), vote_granted |-> given]
  <2>1. msgs' = msgs \union {answer}
    BY <1>1, <1>2 DEF HandleRequestVote, grants
  <2>2. /\ answer.type = "RequestVoteResponse" /\ answer.from = n /\ answer.to = c
        /\ answer.term = most(u, t) /\ answer.vote_granted = given
    OBVIOUS
  <2>3. given \in BOOLEAN /\ (given => t >= u /\ log_ok(log[n], m))
    OBVIOUS
  <2> HIDE DEF answer, given
  <2> QED BY <2>1, <2>2, <2>3
<1>9. PICK r : /\ r.type = "RequestVoteResponse" /\ r.from = n /\ r.to = c
               /\ r.term = most(u, t) /\ r.vote_granted = granted
               /\ msgs' = msgs \union {r}
  BY <1>8
<1>10. SendsVote(n, r)
  <2> SUFFICES ASSUME granted
               PROVE  /\ m.type = "RequestVote" /\ m.from = r.to /\ m.to = n
                      /\ m.term = r.term /\ r.term = current_term'[n]
                      /\ log_ok(log[n], m) /\ UNCHANGED <<log, led, acked>>
    BY <1>9 DEF SendsVote
  <2>1. most(u, t) = t
    BY <1>8 DEF most
  <2>2. m.type = "RequestVote"
    BY DEF HandleRequestVote, grants, reaches
  <2> QED BY <1>1, <1>5, <1>7, <1>8, <1>9, <2>1, <2>2 DEF Keeps
<1>11. SendMove(n)
  BY <1>9, <1>10 DEF SendMove
<1> QED BY <1>1, <1>3, <1>4, <1>7, <1>11, NothingApplied DEF StepMove, LogMove

LEMMA StepDownKeeps ==
  ASSUME TypeOK, HistoryInv, NEW n \in Node, NEW t \in Nat, stepDown(n, t),
         UNCHANGED <<log, acked, commit_index>>, noteLed(n)
  PROVE  Keeps(n)
<1>1. state'[n] = "follower"
  BY DEF stepDown, TypeOK
<1> QED BY <1>1, KeepsStep

LEMMA HandleRequestVoteResponseStepMove ==
  ASSUME VoteInv, HistoryInv, NEW m \in msgs, HandleRequestVoteResponse(m), UNCHANGED acked,
         noteLed(m.to)
  PROVE  StepMove(m.to)
<1>1. PICK n \in Node, q \in Node, t \in Nat : q # n /\ m.to = n /\ m.from = q /\ m.term = t
  BY MessageFields DEF VoteInv, SentToOthers
<1>2. TypeOK /\ StepOf(n) /\ noteLed(n) /\ Applies(n) /\ UNCHANGED commit_index
  BY <1>1, HandleRequestVoteResponseMove, NothingApplied DEF VoteInv, HandleRequestVoteResponse
<1> DEFINE peers == [peer_states[n] EXCEPT ![q] =
                       IF @.known THEN [@ EXCEPT !.vote_granted = TRUE]
                       ELSE [known |-> TRUE, next_index |-> 1, match_index |-> 0,
                             vote_granted |-> TRUE]]
<1>3. \/ stepDown(n, t) /\ UNCHANGED <<log, msgs>>
      \/ UNCHANGED <<current_term, log, state, msgs>>
      \/ /\ state[n] = "candidate" /\ t = current_term[n]
         /\ m.vote_granted /\ Cardinality(votes(peers)) >= quorumSize
         /\ becomeLeader(n, current_term[n]) /\ UNCHANGED current_term
  BY <1>1, Zenon DEF HandleRequestVoteResponse
<1>4. \A v \in votes(peers) : v = q \/ v \in votes(peer_states[n])
  BY <1>1, <1>2 DEF votes, TypeOK
<1>5. votes(peers) \in SUBSET Node
  BY DEF votes
<1> HIDE DEF peers
<1>6. CASE stepDown(n, t) /\ UNCHANGED <<log, msgs>>
  BY <1>1, <1>2, <1>6, StepDownKeeps, NoMail DEF StepMove, LogMove
<1>7. CASE UNCHANGED <<current_term, log, state, msgs>>
  BY <1>1, <1>2, <1>7, KeepsStep, NoMail DEF StepMove, LogMove
<1>8. CASE /\ state[n] = "candidate" /\ t = current_term[n]
           /\ m.vote_granted /\ Cardinality(votes(peers)) >= quorumSize
           /\ becomeLeader(n, current_term[n]) /\ UNCHANGED current_term
  <2>1. m.type = "RequestVoteResponse"
    BY DEF HandleRequestVoteResponse, reaches
  <2>2. Granted(q, n, current_term[n])
    BY <1>1, <1>8, <2>1 DEF Granted
  <2>3. \A v \in votes(peers) : v = n \/ Granted(v, n, current_term[n])
    BY <1>4, <1>8, <2>2 DEF VoteInv, CandidateInv
  <2>4. HasVotes(n)
    BY <1>5, <1>8, <2>3 DEF HasVotes
  <2>5. Appends(n) /\ SendMove(n)
    BY <1>2, <1>8, <2>4, BecomesLeader
  <2> QED BY <1>1, <1>2, <2>5 DEF StepMove, LogMove
<1> QED BY <1>3, <1>6, <1>7, <1>8

\* An accepted batch is taken as the sender has it.
LEMMA AcceptedTakes ==
  ASSUME VoteInv, NEW m \in msgs, HandleAppendEntries(m), accepts(m),
         acked' = acked \union acknowledged(m), noteLed(m.to)
  PROVE  Takes(m.to, m)
<1>1. PICK n \in Node, t \in Nat : m.to = n /\ m.term = t
  BY MessageFields DEF VoteInv
<1>2. m.type = "AppendEntries" /\ m \in AppendEntriesRequest /\ TypeOK
  BY MessageFields DEF HandleAppendEntries, reaches, VoteInv
<1>3. PICK u \in Nat, prev \in Nat : u = current_term[n] /\ prev = m.prev_log_index
  BY <1>2 DEF TypeOK, AppendEntriesRequest
<1>4. Len(log[n]) \in Nat
  BY <1>2, LenProperties DEF TypeOK
<1>5. t >= u /\ prev <= Len(log[n]) /\ ~mismatch(log[n], m)
  BY <1>1, <1>3 DEF accepts
<1>6. ~(m.term < current_term[n]) /\ ~(m.prev_log_index > Len(log[n]))
  BY <1>1, <1>3, <1>4, <1>5
<1>7. /\ stepDown(n, t) \/ (~mustStepDown(n, t) /\ UNCHANGED <<current_term, state>>)
      /\ log' = [log EXCEPT ![n] = merge(@, m.prev_log_index, m.entries)]
      /\ commit_index' = [commit_index EXCEPT ![n] =
           IF m.leader_commit > @ THEN least(m.leader_commit, Len(log'[n])) ELSE @]
  BY <1>1, <1>5, <1>6 DEF HandleAppendEntries
<1>8. stepDown(n, t) => state'[n] = "follower" /\ current_term'[n] = t
  BY <1>2 DEF stepDown, TypeOK
<1>9. ~mustStepDown(n, t) => state[n] = "follower" /\ u = t
  BY <1>3, <1>5 DEF mustStepDown
<1>10. state'[n] = "follower" /\ current_term'[n] = t
  BY <1>3, <1>7, <1>8, <1>9
<1>11. led' = led
  BY <1>1, <1>10 DEF noteLed
<1>12. acked' = acked \union {<<n, m.term, m.prev_log_index + Len(m.entries)>>}
  BY <1>1 DEF acknowledged
<1>13. /\ m.term >= current_term[n] /\ m.prev_log_index <= Len(log[n])
       /\ log' = [log EXCEPT ![n] = merge(log[n], m.prev_log_index, m.entries)]
  BY <1>1, <1>3, <1>5, <1>7
<1> QED BY <1>1, <1>2, <1>5, <1>7, <1>10, <1>11, <1>12, <1>13 DEF Takes

LEMMA HandleAppendEntriesStepMove ==
  ASSUME VoteInv, HistoryInv, NEW m \in msgs, HandleAppendEntries(m),
         acked' = acked \union acknowledged(m), noteLed(m.to)
  PROVE  StepMove(m.to)
<1>1. PICK n \in Node, q \in Node, t \in Nat : q # n /\ m.to = n /\ m.from = q /\ m.term = t
  BY MessageFields DEF VoteInv, SentToOthers
<1>2. PICK u \in Nat : u = current_term[n]
  BY DEF VoteInv, TypeOK
<1>3. TypeOK /\ StepOf(n) /\ noteLed(n) /\ Applies(n)
  BY <1>1, HandleAppendEntriesMove, NothingApplied DEF VoteInv, HandleAppendEntries
<1>4. m.type = "AppendEntries" /\ m \in AppendEntriesRequest
  BY <1>3, MessageFields DEF HandleAppendEntries, reaches
<1>5. PICK r : r.type = "AppendEntriesResponse" /\ msgs' = msgs \union {r}
  BY <1>1, Zenon DEF HandleAppendEntries
<1>6. SendMove(n)
  BY <1>5 DEF SendMove
<1>7. CASE accepts(m)
  BY <1>1, <1>3, <1>6, <1>7, AcceptedTakes DEF StepMove, LogMove, Accepts
<1>8. CASE ~accepts(m)
  <2>1. Len(log[n]) \in Nat /\ m.prev_log_index \in Nat
    BY <1>3, <1>4, LenProperties DEF TypeOK, AppendEntriesRequest
  <2>2. t < u \/ m.prev_log_index > Len(log[n]) \/ mismatch(log[n], m)
    BY <1>1, <1>2, <1>8, <2>1 DEF accepts
  <2>3. /\ UNCHANGED <<log, commit_index>>
        /\ \/ UNCHANGED <<current_term, state>>
           \/ stepDown(n, t)
    BY <1>1, <1>2, <2>2 DEF HandleAppendEntries, nodeVars
  <2>4. stepDown(n, t) => state'[n] = "follower"
    BY <1>3 DEF stepDown, TypeOK
  <2>5. acked' = acked
    BY <1>8 DEF acknowledged
  <2>6. Keeps(n)
    BY <1>3, <2>3, <2>4, <2>5, KeepsStep
  <2> QED BY <1>1, <1>3, <1>6, <2>6 DEF StepMove, LogMove
<1> QED BY <1>7, <1>8

\* The commit index a leader advances to is on a majority of its node's books.
LEMMA CommitAdvances ==
  ASSUME TypeOK, NEW n \in Node, NEW peers \in [Node -> PeerState], NEW new,
         new = advanceCommitIndex(n, peers), new # commit_index[n],
         \A p \in Node \ {n} : peers[p].match_index <= Len(log[n])
  PROVE  /\ new \in 1..Len(log[n]) /\ log[n][new].term = current_term[n]
         /\ \E Q \in SUBSET Node : /\ Cardinality(Q) >= quorumSize
                                   /\ \A p \in Q : p = n \/ peers[p].match_index >= new
<1> DEFINE replicated == [p \in Node |-> IF p = n THEN Len(log[n]) ELSE peers[p].match_index]
           onMajority(i) == Cardinality({p \in Node : replicated[p] >= i}) >= quorumSize
           new_commit == {i \in {replicated[p] : p \in Node} :
             /\ onMajority(i)
             /\ \A p \in Node : onMajority(replicated[p]) => replicated[p] <= i
             /\ i > commit_index[n]
             /\ getTermAt(log[n], i) = current_term[n]}
<1>1. Len(log[n]) \in Nat /\ commit_index[n] \in Nat
  BY LenProperties DEF TypeOK
<1>2. \A p \in Node : replicated[p] \in Nat /\ replicated[p] <= Len(log[n])
  BY <1>1 DEF PeerState
<1>3. new = IF new_commit = {} THEN commit_index[n] ELSE CHOOSE i \in new_commit : TRUE
  BY DEF advanceCommitIndex
<1>4. new \in new_commit
  BY <1>3
<1>5. /\ new \in {replicated[p] : p \in Node} /\ onMajority(new) /\ new > commit_index[n]
      /\ getTermAt(log[n], new) = current_term[n]
  BY <1>4
<1>6. new \in 1..Len(log[n])
  BY <1>1, <1>2, <1>5
<1>7. {p \in Node : replicated[p] >= new} \in SUBSET Node
  OBVIOUS
<1>8. \A p \in {q \in Node : replicated[q] >= new} : p = n \/ peers[p].match_index >= new
  OBVIOUS
<1> HIDE DEF replicated
<1> QED BY <1>5, <1>6, <1>7, <1>8 DEF getTermAt

LEMMA HandleAppendEntriesResponseStepMove ==
  ASSUME VoteInv, VoteInv', LogsInv', HistoryInv, NEW m \in msgs, HandleAppendEntriesResponse(m),
         UNCHANGED acked, noteLed(m.to)
  PROVE  StepMove(m.to)
<1>1. PICK n \in Node, t \in Nat, q \in Node : m.to = n /\ m.term = t /\ m.from = q /\ q # n
  BY MessageFields DEF VoteInv, SentToOthers
<1>2. TypeOK /\ StepOf(n) /\ noteLed(n) /\ Applies(n)
  BY <1>1, HandleAppendEntriesResponseMove, NothingApplied DEF VoteInv, HandleAppendEntriesResponse
<1>3. PICK credited :
        /\ state[n] = "leader" /\ UNCHANGED <<log, msgs>>
        /\ \/ stepDown(n, t) /\ UNCHANGED commit_index
           \/ UNCHANGED <<current_term, state, commit_index>>
           \/ /\ UNCHANGED <<current_term, state>>
              /\ peer_states' = [peer_states EXCEPT ![n] = credited]
              /\ commit_index' = [commit_index EXCEPT ![n] = advanceCommitIndex(n, credited)]
  BY <1>1, Zenon DEF HandleAppendEntriesResponse
<1>4. CASE stepDown(n, t) /\ UNCHANGED commit_index
  BY <1>1, <1>2, <1>3, <1>4, StepDownKeeps, NoMail DEF StepMove, LogMove
<1>5. CASE UNCHANGED <<current_term, state, commit_index>>
  BY <1>1, <1>2, <1>3, <1>5, KeepsStep, NoMail DEF StepMove, LogMove
<1>6. CASE /\ UNCHANGED <<current_term, state>>
           /\ peer_states' = [peer_states EXCEPT ![n] = credited]
           /\ commit_index' = [commit_index EXCEPT ![n] = advanceCommitIndex(n, credited)]
  <2>1. PICK new : new = advanceCommitIndex(n, credited)
    OBVIOUS
  <2>2. /\ peer_states'[n] = credited /\ credited \in [Node -> PeerState]
        /\ commit_index' = [commit_index EXCEPT ![n] = new]
    BY <1>2, <1>6, <2>1 DEF VoteInv, TypeOK
  <2>3. \A p \in Node \ {n} : credited[p].match_index <= Len(log[n])
    BY <1>3, <1>6, <2>2 DEF LogsInv, IndexInv, ReplicationIndicesInLog
  <2>4. CASE new = commit_index[n]
    <3>1. commit_index' = commit_index
      BY <1>2, <2>2, <2>4 DEF TypeOK
    <3> QED BY <1>1, <1>2, <1>3, <1>6, <3>1, KeepsStep, NoMail DEF StepMove, LogMove
  <2>5. CASE new # commit_index[n]
    <3>1. /\ new \in 1..Len(log[n]) /\ log[n][new].term = current_term[n]
          /\ \E Q \in SUBSET Node : /\ Cardinality(Q) >= quorumSize
                                    /\ \A p \in Q : p = n \/ credited[p].match_index >= new
      BY <1>2, <2>1, <2>2, <2>3, <2>5, CommitAdvances
    <3>2. Advances(n)
      BY <1>3, <1>6, <2>2, <3>1 DEF Advances
    <3> QED BY <1>1, <1>2, <1>3, <1>6, <3>2, KeepsStep, NoMail DEF StepMove, LogMove
  <2> QED BY <2>4, <2>5
<1> QED BY <1>3, <1>4, <1>5, <1>6

LEMMA CommitNextMoves ==
  ASSUME VoteInv, VoteInv', Several, LogsInv, LogsInv', HistoryInv, [CommitNext]_commitVars
  PROVE  \E n \in Node : StepMove(n)
<1>1. ASSUME NEW m \in msgs PROVE m.to \in Node
  BY MessageFields DEF VoteInv
<1>2. CASE CommitNext
  BY <1>1, <1>2, TickStepMove, SubmitStepMove, HandleRequestVoteStepMove,
     HandleRequestVoteResponseStepMove, HandleAppendEntriesStepMove,
     HandleAppendEntriesResponseStepMove DEF CommitNext
<1>3. CASE UNCHANGED commitVars
  <2>1. /\ UNCHANGED <<current_term, voted_for, log, state, commit_index, msgs, led, acked>>
        /\ UNCHANGED applyVars
    BY <1>3 DEF commitVars, vars, nodeVars
  <2>2. PICK n : n \in Node
    BY KvRaftAssumption
  <2>3. StepOf(n)
    BY <2>1, <2>2, NothingSentMoves DEF StepOf, Others, TermMove, VoteInv, TypeOK
  <2> QED BY <2>1, <2>2, <2>3, NoMail, NothingApplied DEF StepMove, LogMove, Keeps
<1> QED BY <1>2, <1>3

-----------------------------------------------------------------------------
(* HistoryInv is kept. *)

LEMMA PrefixFromLed ==
  ASSUME NEW l \in Seq(LogEntry), NEW r \in Seq(LogEntry), NEW ld, Ledger(ld), NEW t,
         FromLed(r, t, ld), SameTo(l, r, Len(l))
  PROVE  FromLed(l, t, ld)
<1> SUFFICES ASSUME NEW i \in 1..Len(l)
             PROVE  /\ l[i].index = i /\ l[i].term <= t /\ l[i].term \in DOMAIN ld
                    /\ SameTo(l, ld[l[i].term], i)
  BY DEF FromLed
<1>1. Len(l) \in Nat /\ Len(r) \in Nat /\ Len(l) <= Len(r)
  BY LenProperties DEF SameTo
<1>2. i \in Nat /\ i \in 0..Len(l) /\ i \in 1..Len(r) /\ l[i] = r[i]
  BY <1>1 DEF SameTo
<1>3. /\ r[i].index = i /\ r[i].term <= t /\ r[i].term \in DOMAIN ld
      /\ SameTo(r, ld[r[i].term], i)
  BY <1>2 DEF FromLed
<1>4. ld[r[i].term] \in Seq(LogEntry)
  BY <1>3 DEF Ledger
<1>5. SameTo(l, r, i)
  BY <1>1, <1>2, SameToSame
<1> QED BY <1>2, <1>3, <1>4, <1>5, SameToSame

LEMMA GrowsSelf == ASSUME NEW ld, Ledger(ld) PROVE Grows(ld, ld)
BY SameToSame DEF Grows, Ledger

\* A node that leads a term anew finds no log of that term's leader.
LEMMA AppendsGrow ==
  ASSUME VoteInv, VoteInv', Several, HistoryInv, NEW n \in Node, Appends(n)
  PROVE  \E t \in Nat, l, more \in Seq(LogEntry) :
           /\ t = current_term[n] /\ l = log[n] /\ more = log'[n]
           /\ \A x \in Node \ {n} : log'[x] = log[x]
           /\ t \in DOMAIN led => led[t] = l
           /\ state[n] = "leader" \/ t \notin DOMAIN led
           /\ Ledger(led') /\ Grows(led, led') /\ led'[t] = more
           /\ DOMAIN led' = DOMAIN led \union {t}
           /\ \A u \in DOMAIN led \ {t} : led'[u] = led[u]
           /\ led' = [u \in DOMAIN led' |-> led'[u]]
           /\ Len(more) = Len(l) + 1 /\ Len(l) \in Nat
           /\ SameTo(l, more, Len(l)) /\ more[Len(l) + 1].term = t
<1>1. PICK t \in Nat, l \in Seq(LogEntry) : t = current_term[n] /\ l = log[n]
  BY DEF VoteInv, TypeOK
<1>2. PICK c \in Command \union {Noop} :
        LET more == appendEntry(log[n], current_term[n], c)
        IN  /\ log' = [log EXCEPT ![n] = more]
            /\ led' = [u \in DOMAIN led \union {current_term[n]} |->
                         IF u = current_term[n] THEN more ELSE led[u]]
  BY DEF Appends
<1>3. PICK more : /\ more = appendEntry(l, t, c)
                  /\ log' = [log EXCEPT ![n] = more]
                  /\ led' = [u \in DOMAIN led \union {current_term[n]} |->
                               IF u = current_term[n] THEN more ELSE led[u]]
  BY <1>1, <1>2
<1>4. log'[n] = more /\ \A x \in Node \ {n} : log'[x] = log[x]
  BY <1>3 DEF VoteInv, TypeOK
<1>5. state[n] = "leader" \/ t \notin DOMAIN led
  <2> SUFFICES ASSUME state[n] # "leader", t \in DOMAIN led PROVE FALSE
    OBVIOUS
  <2>1. PICK x \in Node : Elected(x, t)
    BY DEF HistoryInv, LedByElected
  <2>2. state[n] = "candidate"
    BY DEF Appends
  <2>3. HasLed(x, t) /\ HasLoyalMajority(x, t)
    BY <2>1 DEF VoteInv, ElectedInv
  <2>4. x # n
    <3>1. ~HasLed(n, t)
      BY <1>1, <2>2 DEF HasLed
    <3> QED BY <2>3, <3>1
  <2>5. PICK Q \in SUBSET Node : Cardinality(Q) >= quorumSize /\ \A p \in Q : Loyal(p, x, t)
    BY <2>3 DEF HasLoyalMajority
  <2>6. PICK R \in SUBSET Node :
          Cardinality(R) >= quorumSize /\ \A p \in R : p = n \/ Granted(p, n, current_term[n])
    BY <2>2 DEF Appends, HasVotes
  <2>7. PICK p \in Node : p \in Q /\ p \in R
    BY <2>5, <2>6, MajoritiesMeet
  <2>8. Loyal(p, x, t) /\ (p = n \/ Granted(p, n, t))
    BY <1>1, <2>5, <2>6, <2>7
  <2> QED BY <1>1, <2>2, <2>4, <2>8 DEF Loyal
<1>6. t \in DOMAIN led => led[t] = l
  BY <1>1, <1>5 DEF HistoryInv, LeaderLed
<1>7. Ledger(led) /\ FromLed(l, t, led)
  BY <1>1 DEF HistoryInv, LogsFromLed
<1>8. /\ DOMAIN led' = DOMAIN led \union {t} /\ led'[t] = more
      /\ \A u \in DOMAIN led \ {t} : led'[u] = led[u]
  BY <1>1, <1>3
<1>9. PICK ld, longer : ld = led /\ longer = led'
  OBVIOUS
<1>10. /\ Ledger(longer) /\ Grows(ld, longer) /\ longer[t] = more /\ more \in Seq(LogEntry)
       /\ DOMAIN longer = DOMAIN ld \union {t}
       /\ \A u \in DOMAIN ld \ {t} : longer[u] = ld[u]
       /\ Len(more) = Len(l) + 1 /\ Len(l) \in Nat /\ SameTo(l, more, Len(l))
       /\ more[Len(l) + 1].term = t
  <2>1. more = appendEntry(l, t, c) /\ Ledger(ld) /\ FromLed(l, t, ld) /\ (t \in DOMAIN ld => ld[t] = l)
    BY <1>3, <1>6, <1>7, <1>9
  <2>2. /\ DOMAIN longer = DOMAIN ld \union {t} /\ longer[t] = more
        /\ \A u \in DOMAIN ld \ {t} : longer[u] = ld[u]
    BY <1>8, <1>9
  <2>3. LedgerStep(ld, t, l, c, more, longer)
    BY <2>1, <2>2 DEF LedgerStep
  <2>4. /\ Ledger(longer) /\ Grows(ld, longer) /\ more \in Seq(LogEntry)
        /\ Len(more) = Len(l) + 1 /\ Len(l) \in Nat /\ SameTo(l, more, Len(l))
        /\ more[Len(l) + 1].term = t
    BY <2>3, LedgerGrows
  <2> QED BY <2>2, <2>4
<1>11. led' = [u \in DOMAIN led' |-> led'[u]]
  BY <1>3
<1> QED BY <1>1, <1>4, <1>5, <1>6, <1>9, <1>10, <1>11

\* The same, of the variables themselves.
LEMMA AppendsLed ==
  ASSUME VoteInv, VoteInv', Several, HistoryInv, NEW n \in Node, Appends(n)
  PROVE  /\ SameTo(log[n], log'[n], Len(log[n]))
         /\ log[n] \in Seq(LogEntry) /\ log'[n] \in Seq(LogEntry)
         /\ Len(log[n]) \in Nat /\ Len(log'[n]) = Len(log[n]) + 1
         /\ current_term[n] \in Nat /\ led'[current_term[n]] = log'[n]
         /\ current_term[n] \in DOMAIN led => led[current_term[n]] = log[n]
         /\ DOMAIN led' = DOMAIN led \union {current_term[n]}
         /\ \A u \in DOMAIN led \ {current_term[n]} : led'[u] = led[u]
<1>1. PICK t \in Nat, l \in Seq(LogEntry), more \in Seq(LogEntry) :
           /\ t = current_term[n] /\ l = log[n] /\ more = log'[n]
           /\ \A x \in Node \ {n} : log'[x] = log[x]
           /\ t \in DOMAIN led => led[t] = l
           /\ state[n] = "leader" \/ t \notin DOMAIN led
           /\ Ledger(led') /\ Grows(led, led') /\ led'[t] = more
           /\ DOMAIN led' = DOMAIN led \union {t}
           /\ \A u \in DOMAIN led \ {t} : led'[u] = led[u]
           /\ led' = [u \in DOMAIN led' |-> led'[u]]
           /\ Len(more) = Len(l) + 1 /\ Len(l) \in Nat
           /\ SameTo(l, more, Len(l)) /\ more[Len(l) + 1].term = t
  BY AppendsGrow
<1> QED BY <1>1

\* What a follower makes of its log.
LEMMA TakesJoins ==
  ASSUME VoteInv, HistoryInv, NEW n \in Node, NEW m, Takes(n, m)
  PROVE  \E t \in Nat, l, merged, r \in Seq(LogEntry), hi \in Nat :
           /\ t = m.term /\ t \in DOMAIN led /\ t = current_term'[n] /\ r = led[t]
           /\ t >= current_term[n] /\ current_term[n] \in Nat
           /\ l = log[n] /\ merged = log'[n] /\ \A x \in Node \ {n} : log'[x] = log[x]
           /\ hi = m.prev_log_index + Len(m.entries) /\ hi <= Len(r)
           /\ SameTo(merged, r, hi) /\ \A k \in Nat : SameTo(l, r, k) => SameTo(merged, r, k)
           /\ merged = l \/ Len(merged) = hi
           /\ acked' = acked \union {<<n, t, hi>>}
<1>1. PICK l \in Seq(LogEntry) : l = log[n] /\ FromLed(l, current_term[n], led)
  BY DEF VoteInv, TypeOK, HistoryInv, LogsFromLed
<1>2. m \in Requests /\ m \in AppendEntriesRequest
  BY MessageFields DEF Takes, Requests, VoteInv
<1>3. PICK t \in Nat : t = m.term /\ t \in DOMAIN led /\ Carries(m, led[t])
  BY <1>2 DEF HistoryInv, RequestsFromLed, Ledger
<1>4. PICK merged : merged = merge(l, m.prev_log_index, m.entries)
  OBVIOUS
<1>5. PICK r \in Seq(LogEntry) : r = led[t] /\ Ledger(led)
  BY <1>3 DEF HistoryInv, Ledger
<1>6. PICK hi \in Nat : hi = m.prev_log_index + Len(m.entries)
  BY <1>2, LenProperties DEF AppendEntriesRequest
<1>7. m.prev_log_index <= Len(l) /\ ~mismatch(l, m)
  BY <1>1 DEF Takes
<1>8. /\ merged \in Seq(LogEntry)
      /\ SameTo(merged, led[t], m.prev_log_index + Len(m.entries))
      /\ \A k \in Nat : SameTo(l, led[t], k) => SameTo(merged, led[t], k)
      /\ merged = l \/ Len(merged) = m.prev_log_index + Len(m.entries)
  BY <1>1, <1>2, <1>3, <1>4, <1>5, <1>7, MergeJoins
<1>9. log'[n] = merged /\ \A x \in Node \ {n} : log'[x] = log[x]
  BY <1>1, <1>4 DEF Takes, VoteInv, TypeOK
<1>10. /\ t = current_term'[n] /\ t >= current_term[n] /\ current_term[n] \in Nat
       /\ acked' = acked \union {<<n, t, hi>>}
  BY <1>3, <1>6 DEF Takes, VoteInv, TypeOK
<1>11. hi <= Len(r)
  BY <1>3, <1>5, <1>6 DEF Carries
<1> QED BY <1>1, <1>3, <1>5, <1>6, <1>8, <1>9, <1>10, <1>11

LEMMA TakesLed ==
  ASSUME VoteInv, HistoryInv, NEW n \in Node, NEW m, Takes(n, m)
  PROVE  LET hi == m.prev_log_index + Len(m.entries)
             r == led[m.term]
         IN  /\ hi \in Nat /\ r \in Seq(LogEntry) /\ hi <= Len(r) /\ m.term \in DOMAIN led
             /\ log[n] \in Seq(LogEntry) /\ log'[n] \in Seq(LogEntry)
             /\ SameTo(log'[n], r, hi) /\ \A k \in Nat : SameTo(log[n], r, k) => SameTo(log'[n], r, k)
             /\ log'[n] = log[n] \/ Len(log'[n]) = hi
<1>1. PICK t \in Nat, l \in Seq(LogEntry), merged \in Seq(LogEntry), r \in Seq(LogEntry), hi \in Nat :
           /\ t = m.term /\ t \in DOMAIN led /\ t = current_term'[n] /\ r = led[t]
           /\ t >= current_term[n] /\ current_term[n] \in Nat
           /\ l = log[n] /\ merged = log'[n] /\ \A x \in Node \ {n} : log'[x] = log[x]
           /\ hi = m.prev_log_index + Len(m.entries) /\ hi <= Len(r)
           /\ SameTo(merged, r, hi) /\ \A k \in Nat : SameTo(l, r, k) => SameTo(merged, r, k)
           /\ merged = l \/ Len(merged) = hi
           /\ acked' = acked \union {<<n, t, hi>>}
  BY TakesJoins
<1> QED BY <1>1

\* Whatever the step, the logs of leaders only grow, and terms never go back.
LEMMA StepGrows ==
  ASSUME VoteInv, VoteInv', Several, HistoryInv, NEW n \in Node, StepMove(n)
  PROVE  /\ Ledger(led') /\ Grows(led, led')
         /\ \A x \in Node : /\ current_term[x] \in Nat /\ current_term'[x] \in Nat
                            /\ current_term'[x] >= current_term[x]
         /\ \A x \in Node \ {n} : /\ current_term'[x] = current_term[x] /\ state'[x] = state[x]
                                  /\ log'[x] = log[x]
         /\ led' = [t \in DOMAIN led' |-> led'[t]]
         /\ \A x, t : Elected(x, t) => Elected(x, t)'
<1>1. /\ \A x \in Node : current_term[x] \in Nat /\ current_term'[x] \in Nat
      /\ Others(n) /\ TermMove(n)
  BY DEF StepMove, StepOf, VoteInv, TypeOK
<1>2. \A x \in Node : current_term'[x] >= current_term[x]
  BY <1>1 DEF Others, TermMove
<1>3. \A x \in Node \ {n} : /\ current_term'[x] = current_term[x] /\ state'[x] = state[x]
                            /\ log'[x] = log[x]
  BY <1>1 DEF Others
<1>4. \A x, t : Elected(x, t) => Elected(x, t)'
  BY DEF StepMove, SendMove, Elected
<1>5. Ledger(led') /\ Grows(led, led') /\ led' = [t \in DOMAIN led' |-> led'[t]]
  <2>1. CASE led' = led
    BY <2>1, GrowsSelf DEF HistoryInv, LedByElected
  <2>2. CASE Appends(n)
    BY <2>2, AppendsGrow
  <2> QED BY <2>1, <2>2 DEF StepMove, LogMove, Keeps, Accepts, Takes
<1> QED BY <1>1, <1>2, <1>3, <1>4, <1>5

LEMMA LogsFromLedStep ==
  ASSUME VoteInv, VoteInv', Several, HistoryInv, NEW n \in Node, StepMove(n)
  PROVE  LogsFromLed'
<1>1. PICK ld, longer : /\ ld = led /\ longer = led' /\ Ledger(ld) /\ Ledger(longer)
                        /\ Grows(ld, longer)
  BY StepGrows DEF HistoryInv
<1>2. ASSUME NEW x \in Node, log'[x] = log[x] PROVE FromLed(log'[x], current_term'[x], longer)
  <2>1. PICK l \in Seq(LogEntry), t \in Nat, u \in Nat :
          l = log[x] /\ t = current_term[x] /\ u = current_term'[x] /\ t <= u
    BY StepGrows DEF VoteInv, TypeOK
  <2>2. FromLed(l, t, ld)
    BY <1>1, <2>1 DEF HistoryInv, LogsFromLed
  <2>3. FromLed(l, u, longer)
    BY <1>1, <2>1, <2>2, FromGrown
  <2> QED BY <1>2, <2>1, <2>3
<1>3. CASE Appends(n)
  <2>1. PICK t \in Nat, more \in Seq(LogEntry) :
          t = current_term[n] /\ more = log'[n] /\ longer[t] = more /\ t \in DOMAIN longer
    BY <1>1, <1>3, AppendsGrow
  <2>2. FromLed(more, t, longer)
    BY <1>1, <2>1 DEF Ledger
  <2>3. t = current_term'[n]
    BY <1>3, <2>1 DEF Appends
  <2> QED BY <1>1, <1>2, <2>1, <2>2, <2>3, StepGrows DEF LogsFromLed
<1>4. CASE Accepts(n)
  <2>1. PICK m : Takes(n, m)
    BY <1>4 DEF Accepts
  <2>2. PICK t \in Nat, merged \in Seq(LogEntry), r \in Seq(LogEntry), hi \in Nat :
          /\ t \in DOMAIN ld /\ t = current_term'[n] /\ r = ld[t] /\ merged = log'[n]
          /\ SameTo(merged, r, hi)
          /\ merged = log[n] \/ Len(merged) = hi
    <3>1. /\ \E t \in Nat, merged \in Seq(LogEntry), r \in Seq(LogEntry), hi \in Nat :
               /\ t \in DOMAIN led /\ t = current_term'[n] /\ r = led[t] /\ merged = log'[n]
               /\ SameTo(merged, r, hi)
               /\ merged = log[n] \/ Len(merged) = hi
      BY <2>1, TakesJoins
    <3> QED BY <1>1, <3>1
  <2>3. longer = ld
    BY <1>1, <2>1 DEF Takes
  <2>4. CASE merged = log[n]
    BY <1>1, <1>2, <2>2, <2>4, StepGrows DEF LogsFromLed
  <2>5. CASE Len(merged) = hi
    <3>1. FromLed(r, t, ld)
      BY <1>1, <2>2 DEF Ledger
    <3>2. FromLed(merged, t, ld)
      BY <1>1, <2>2, <2>5, <3>1, PrefixFromLed
    <3> QED BY <1>1, <1>2, <2>2, <2>3, <3>2, StepGrows DEF LogsFromLed
  <2> QED BY <2>2, <2>4, <2>5
<1>5. CASE Keeps(n)
  BY <1>1, <1>2, <1>5 DEF LogsFromLed, Keeps
<1> QED BY <1>3, <1>4, <1>5 DEF StepMove, LogMove

LEMMA LeaderLedStep ==
  ASSUME VoteInv, VoteInv', Several, HistoryInv, NEW n \in Node, StepMove(n)
  PROVE  LeaderLed'
<1> SUFFICES ASSUME NEW x \in Node, state'[x] = "leader"
             PROVE  current_term'[x] \in DOMAIN led' /\ led'[current_term'[x]] = log'[x]
  BY DEF LeaderLed
<1>1. CASE Appends(n)
  <2>1. PICK t \in Nat : /\ t = current_term[n] /\ led'[t] = log'[n]
                         /\ DOMAIN led' = DOMAIN led \union {t}
                         /\ \A u \in DOMAIN led \ {t} : led'[u] = led[u]
    BY <1>1, AppendsLed
  <2>2. t = current_term'[n] /\ state'[n] = "leader"
    BY <1>1, <2>1 DEF Appends
  <2>3. CASE x = n
    BY <2>1, <2>2, <2>3
  <2>4. CASE x # n
    <3>1. /\ current_term'[x] = current_term[x] /\ state[x] = "leader" /\ log'[x] = log[x]
      BY <2>4, StepGrows
    <3>2. current_term[x] \in DOMAIN led /\ led[current_term[x]] = log[x]
      BY <3>1 DEF HistoryInv, LeaderLed
    <3>3. current_term'[x] # t
      <4>1. ElectionSafety'
        BY VoteInvElectsOne, PTL
      <4> QED BY <2>2, <2>4, <4>1 DEF ElectionSafety
    <3> QED BY <2>1, <3>1, <3>2, <3>3
  <2> QED BY <2>3, <2>4
<1>2. CASE Keeps(n) \/ Accepts(n)
  <2>1. state[x] = "leader" /\ current_term'[x] = current_term[x] /\ log'[x] = log[x] /\ led' = led
    BY <1>2, StepGrows DEF Keeps, Accepts, Takes
  <2> QED BY <2>1 DEF HistoryInv, LeaderLed
<1> QED BY <1>1, <1>2 DEF StepMove, LogMove

LEMMA RequestsFromLedStep ==
  ASSUME VoteInv, VoteInv', Several, HistoryInv, NEW n \in Node, StepMove(n)
  PROVE  RequestsFromLed'
<1>1. PICK ld, longer : /\ ld = led /\ longer = led' /\ Ledger(ld) /\ Ledger(longer)
                        /\ Grows(ld, longer)
  BY StepGrows DEF HistoryInv
<1> SUFFICES ASSUME NEW m \in msgs', m.type = "AppendEntries"
             PROVE  m.term \in DOMAIN longer /\ Carries(m, longer[m.term])
  BY <1>1 DEF RequestsFromLed, Requests, Carries
<1>2. m \in AppendEntriesRequest
  <2>1. msgs' \subseteq Message
    BY DEF VoteInv, TypeOK
  <2> QED BY <2>1 DEF Message, RequestVoteRequest, RequestVoteResponse, AppendEntriesResponse
<1>3. CASE m \in msgs
  <2>1. PICK t \in DOMAIN ld : t = m.term /\ Carries(m, ld[t])
    BY <1>1, <1>3 DEF HistoryInv, RequestsFromLed, Requests
  <2>2. /\ t \in DOMAIN longer /\ SameTo(ld[t], longer[t], Len(ld[t]))
        /\ ld[t] \in Seq(LogEntry) /\ longer[t] \in Seq(LogEntry)
    BY <1>1 DEF Ledger, Grows
  <2>3. Carries(m, longer[t])
    BY <1>2, <2>1, <2>2, CarriesMore
  <2> QED BY <2>1, <2>2, <2>3
<1>4. CASE m \notin msgs
  <2>1. SendsBatch(n, m)
    BY <1>4 DEF StepMove, SendMove, SendsBallot, SendsVote
  <2>2. PICK l \in Seq(LogEntry) : l = log'[n] /\ PartOf(SentBy(m), Whole(l))
    BY <2>1 DEF SendsBatch, VoteInv, TypeOK
  <2>3. LeaderLed'
    BY LeaderLedStep
  <2>4. m.term \in DOMAIN longer /\ longer[m.term] = l
    BY <1>1, <2>1, <2>2, <2>3 DEF LeaderLed, SendsBatch
  <2>5. Carries(m, l)
    BY <1>2, <2>2, PartCarries
  <2> QED BY <2>4, <2>5
<1> QED BY <1>3, <1>4

\* A candidate was one before, with the same log, unless it is of a new term.
LEMMA CandidateBefore ==
  ASSUME VoteInv, VoteInv', Several, HistoryInv, NEW n \in Node, StepMove(n), NEW x \in Node,
         state'[x] = "candidate", current_term'[x] = current_term[x]
  PROVE  state[x] = "candidate" /\ log'[x] = log[x]
<1>1. CASE x = n
  <2>1. ~Appends(n) /\ ~Accepts(n)
    BY <1>1 DEF Appends, Accepts, Takes
  <2> QED BY <1>1, <2>1 DEF StepMove, LogMove, Keeps
<1>2. CASE x # n
  BY <1>2, StepGrows
<1> QED BY <1>1, <1>2

LEMMA BallotStep ==
  ASSUME VoteInv, VoteInv', Several, HistoryInv, NEW n \in Node, StepMove(n)
  PROVE  BallotInv' /\ GrantsToPast'
<1>2. BallotInv'
  <2> SUFFICES ASSUME NEW m \in msgs', m.type = "RequestVote"
               PROVE  /\ current_term'[m.from] >= m.term
                      /\ (state'[m.from] = "candidate" /\ current_term'[m.from] = m.term) =>
                           /\ m.last_log_index = Len(log'[m.from])
                           /\ m.last_log_term = getLastLogTerm(log'[m.from])
    BY DEF BallotInv, getLastLogTerm, getTermAt
  <2>1. CASE m \in msgs
    <3>1. PICK c \in Node, t \in Nat : c = m.from /\ t = m.term
      BY <2>1, MessageFields DEF VoteInv
    <3>2. current_term[c] \in Nat /\ current_term'[c] \in Nat /\ current_term'[c] >= current_term[c]
      BY StepGrows
    <3>3. current_term[c] >= t
      BY <2>1, <3>1 DEF HistoryInv, BallotInv
    <3>4. ASSUME state'[c] = "candidate", current_term'[c] = t
          PROVE  m.last_log_index = Len(log'[c]) /\ m.last_log_term = getLastLogTerm(log'[c])
      <4>1. current_term[c] = t /\ current_term'[c] = current_term[c]
        BY <3>2, <3>3, <3>4
      <4>2. state[c] = "candidate" /\ log'[c] = log[c]
        BY <3>4, <4>1, CandidateBefore
      <4> QED BY <2>1, <3>1, <4>1, <4>2 DEF HistoryInv, BallotInv
    <3> QED BY <3>1, <3>2, <3>3, <3>4
  <2>2. CASE m \notin msgs
    <3>1. SendsBallot(n, m)
      BY <2>2 DEF StepMove, SendMove, SendsBatch, SendsVote
    <3>2. current_term'[n] \in Nat
      BY StepGrows
    <3> QED BY <3>1, <3>2 DEF SendsBallot
  <2> QED BY <2>1, <2>2
<1>3. GrantsToPast'
  <2> SUFFICES ASSUME NEW p \in Node, NEW c \in Node, NEW t \in Nat, Granted(p, c, t)'
               PROVE  current_term'[c] >= t
    BY DEF GrantsToPast
  <2>1. current_term[c] \in Nat /\ current_term'[c] \in Nat /\ current_term'[c] >= current_term[c]
    BY StepGrows
  <2>2. current_term[c] >= t
    <3>1. CASE Granted(p, c, t)
      BY <3>1 DEF HistoryInv, GrantsToPast
    <3>2. CASE ~Granted(p, c, t)
      <4>1. PICK m \in msgs' : /\ m.type = "RequestVoteResponse" /\ m.vote_granted
                               /\ m.from = p /\ m.to = c /\ m.term = t
        BY DEF Granted
      <4>2. m \notin msgs
        BY <3>2, <4>1 DEF Granted
      <4>3. SendsVote(n, m)
        BY <4>1, <4>2 DEF StepMove, SendMove, SendsBatch, SendsBallot
      <4>4. PICK r \in msgs : r.type = "RequestVote" /\ r.from = c /\ r.term = t
        BY <4>1, <4>3 DEF SendsVote
      <4> QED BY <4>4 DEF HistoryInv, BallotInv
    <3> QED BY <3>1, <3>2
  <2> QED BY <2>1, <2>2
<1> QED BY <1>2, <1>3

LEMMA HistoryStep ==
  ASSUME VoteInv, VoteInv', Several, HistoryInv, NEW n \in Node, StepMove(n)
  PROVE  HistoryInv'
<1>1. LedByElected'
  <2> SUFFICES ASSUME NEW t \in DOMAIN led' PROVE \E x \in Node : Elected(x, t)'
    BY StepGrows DEF LedByElected
  <2>1. CASE t \in DOMAIN led
    BY <2>1, StepGrows DEF HistoryInv, LedByElected
  <2>2. CASE t \notin DOMAIN led
    <3>1. Appends(n)
      BY <2>2 DEF StepMove, LogMove, Keeps, Accepts, Takes
    <3>2. t = current_term[n]
      <4>1. DOMAIN led' = DOMAIN led \union {current_term[n]}
        BY <3>1 DEF Appends
      <4> QED BY <2>2, <4>1
    <3>3. t = current_term'[n] /\ state'[n] = "leader"
      BY <3>1, <3>2 DEF Appends
    <3> QED BY <3>3 DEF VoteInv, LeaderInv, Several
  <2> QED BY <2>1, <2>2
<1>2. AckInv'
  <2>1. PICK ld, longer : /\ ld = led /\ longer = led' /\ Ledger(ld) /\ Ledger(longer)
                          /\ Grows(ld, longer)
    BY StepGrows DEF HistoryInv
  <2> SUFFICES ASSUME NEW a \in acked'
               PROVE  /\ a[1] \in Node /\ a[2] \in DOMAIN longer /\ a[3] \in Nat
                      /\ a[3] <= Len(longer[a[2]]) /\ current_term'[a[1]] >= a[2]
    BY <2>1 DEF AckInv
  <2>2. CASE a \in acked
    <3>1. PICK p \in Node, t \in DOMAIN ld, k \in Nat :
            p = a[1] /\ t = a[2] /\ k = a[3] /\ k <= Len(ld[t]) /\ current_term[p] >= t
      BY <2>1, <2>2 DEF HistoryInv, AckInv
    <3>2. /\ t \in DOMAIN longer /\ SameTo(ld[t], longer[t], Len(ld[t])) /\ t \in Nat
          /\ ld[t] \in Seq(LogEntry) /\ longer[t] \in Seq(LogEntry)
      BY <2>1 DEF Ledger, Grows
    <3>3. Len(ld[t]) \in Nat /\ Len(longer[t]) \in Nat /\ Len(ld[t]) <= Len(longer[t])
      BY <3>2, LenProperties DEF SameTo
    <3>4. current_term[p] \in Nat /\ current_term'[p] \in Nat /\ current_term'[p] >= current_term[p]
      BY StepGrows
    <3> QED BY <3>1, <3>2, <3>3, <3>4
  <2>3. CASE a \notin acked
    <3>1. PICK m : Takes(n, m)
      BY <2>3 DEF StepMove, LogMove, Keeps, Appends, Accepts
    <3>2. PICK t \in Nat, hi \in Nat :
            /\ t \in DOMAIN ld /\ t = current_term'[n] /\ hi <= Len(ld[t])
            /\ acked' = acked \union {<<n, t, hi>>}
      BY <2>1, <3>1, TakesJoins
    <3>3. longer = ld
      BY <2>1, <3>1 DEF Takes
    <3> QED BY <2>3, <3>2, <3>3
  <2> QED BY <2>2, <2>3
<1> QED BY <1>1, <1>2, StepGrows, LogsFromLedStep, LeaderLedStep, RequestsFromLedStep, BallotStep
        DEF HistoryInv

LEMMA HistoryInit == CommitInit => HistoryInv
<1> SUFFICES ASSUME CommitInit PROVE HistoryInv
  OBVIOUS
<1>1. /\ msgs = {} /\ acked = {} /\ led = [t \in {} |-> <<>>] /\ DOMAIN led = {}
      /\ \A x \in Node : log[x] = <<>> /\ state[x] = "follower"
  BY DEF CommitInit, Init
<1>2. Ledger(led) /\ LedByElected /\ AckInv
  BY <1>1 DEF Ledger, LedByElected, AckInv
<1>3. LogsFromLed
  BY <1>1 DEF LogsFromLed, FromLed
<1>4. RequestsFromLed /\ LeaderLed /\ BallotInv /\ GrantsToPast
  BY <1>1 DEF RequestsFromLed, Requests, LeaderLed, BallotInv, GrantsToPast, Granted
<1> QED BY <1>2, <1>3, <1>4 DEF HistoryInv

-----------------------------------------------------------------------------
(* A log that log_ok finds at least as up to date as one that has the entry *)
(* at k of the leader of term t has that entry too, if the leaders since do. *)

LEMMA UpToDate ==
  ASSUME NEW ld, Ledger(ld), NEW l \in Seq(LogEntry), NEW r \in Seq(LogEntry),
         NEW u, NEW v, FromLed(l, u, ld), FromLed(r, v, ld),
         NEW t \in DOMAIN ld, NEW k \in 1..Len(ld[t]), ld[t][k].term = t,
         \A w \in DOMAIN ld : w > t => SameTo(ld[w], ld[t], k),
         SameTo(l, ld[t], k),
         \/ getLastLogTerm(r) > getLastLogTerm(l)
         \/ getLastLogTerm(r) = getLastLogTerm(l) /\ Len(r) >= Len(l)
  PROVE  SameTo(r, ld[t], k)
<1>1. PICK d \in Seq(LogEntry) : d = ld[t] /\ t \in Nat /\ FromLed(d, t, ld)
  BY DEF Ledger
<1>2. /\ Len(l) \in Nat /\ Len(r) \in Nat /\ Len(d) \in Nat /\ k \in Nat /\ k > 0
      /\ k <= Len(d) /\ k <= Len(l)
  BY <1>1, LenProperties DEF SameTo
<1>3. t <= getLastLogTerm(l) /\ getLastLogTerm(l) \in Nat
  <2>1. Len(l) \in 1..Len(l) /\ k \in 1..Len(l)
    BY <1>2
  <2>2. l[k].term <= l[Len(l)].term /\ l[Len(l)].term \in Nat
    BY <2>1, TermsAscend
  <2>3. l[k] = d[k] /\ d[k].term = t
    BY <1>1, <1>2 DEF SameTo
  <2> QED BY <2>1, <2>2, <2>3 DEF getLastLogTerm, getTermAt
<1>4. getLastLogTerm(r) \in Nat /\ (Len(r) > 0 => getLastLogTerm(r) = r[Len(r)].term)
  <2>1. Len(r) \in 1..Len(r) => r[Len(r)].term \in Nat
    BY TermsAscend
  <2> QED BY <1>2, <2>1 DEF getLastLogTerm, getTermAt
<1>5. Len(r) > 0
  <2>1. Len(r) = 0 => getLastLogTerm(r) = 0
    BY DEF getLastLogTerm, getTermAt
  <2> QED BY <1>2, <1>3, <2>1
<1>6. PICK w \in DOMAIN ld : /\ w = getLastLogTerm(r) /\ w \in Nat /\ r[Len(r)].term = w
                             /\ SameTo(r, ld[w], Len(r))
  <2>1. Len(r) \in 1..Len(r)
    BY <1>2, <1>5
  <2> QED BY <1>4, <1>5, <2>1 DEF FromLed
<1>7. PICK e \in Seq(LogEntry) : e = ld[w]
  BY DEF Ledger
<1>8. CASE w > t
  <2>1. SameTo(e, d, k)
    BY <1>1, <1>7, <1>8
  <2>2. k <= Len(r)
    <3> SUFFICES ASSUME Len(r) < k PROVE FALSE
      BY <1>2
    <3>1. Len(r) \in 1..k /\ Len(r) \in 1..Len(d) /\ Len(r) \in 1..Len(r)
      BY <1>2, <1>5
    <3>2. r[Len(r)] = e[Len(r)] /\ e[Len(r)] = d[Len(r)]
      BY <1>6, <1>7, <2>1, <3>1 DEF SameTo
    <3>3. d[Len(r)].term <= t
      BY <1>1, <3>1 DEF FromLed
    <3> QED BY <1>1, <1>6, <1>8, <3>2, <3>3
  <2>3. k \in 0..Len(r)
    BY <1>2, <2>2
  <2>4. SameTo(r, e, k)
    BY <1>2, <1>6, <1>7, <2>3, SameToSame
  <2> QED BY <1>1, <1>2, <2>1, <2>4, SameToSame
<1>9. CASE ~(w > t)
  <2>1. w = t /\ Len(r) >= Len(l)
    BY <1>1, <1>3, <1>6, <1>9
  <2>2. k \in 0..Len(r)
    BY <1>2, <2>1
  <2> QED BY <1>1, <1>2, <1>6, <2>1, <2>2, SameToSame
<1> QED BY <1>8, <1>9

-----------------------------------------------------------------------------
(* The inductive invariant of commitment.  An entry of a term's leader may  *)
(* be committed until a majority has passed the term without it; as long    *)
(* as it may, all leaders since have it, and so have those who took it, and *)
(* the candidates they vote for.                                            *)

\* x has the log of term t's leader up to k.
Holds(x, k, t) == SameTo(log[x], led[t], k)

\* A majority is in later terms and never acknowledged the entry in its own.
Blocked(k, t) ==
  \E Q \in SUBSET Node :
    Cardinality(Q) >= quorumSize /\ \A p \in Q : current_term[p] > t /\ ~Acked(p, k, t)

\* The later leaders have the entry, whoever acknowledged it has, and so have
\* the candidates of later terms that have such a node's vote.
Vouched(k, t) ==
  /\ Inherited(k, t)
  /\ \A p \in Node : Acked(p, k, t) =>
       /\ Holds(p, k, t)
       /\ \A c \in Node, u \in Nat :
            (Granted(p, c, u) /\ u > t /\ state[c] = "candidate" /\ current_term[c] = u) =>
              Holds(c, k, t)

\* What may still be chosen is vouched for.
SafeInv ==
  \A t \in DOMAIN led : \A k \in 1..Len(led[t]) :
    (led[t][k].term = t /\ ~Blocked(k, t)) => Vouched(k, t)

LEMMA SafeWritten ==
  ASSUME SafeInv, NEW k, NEW t, Written(k, t), ~Blocked(k, t) PROVE Vouched(k, t)
BY DEF SafeInv, Written

LEMMA AckedPast ==
  ASSUME VoteInv, HistoryInv, NEW p \in Node, NEW t \in Nat, NEW k, Acked(p, k, t)
  PROVE  current_term[p] >= t
<1>1. current_term[p] \in Nat
  BY DEF VoteInv, TypeOK
<1>2. CASE Elected(p, t)
  <2>1. HasLed(p, t)
    BY <1>2 DEF VoteInv, ElectedInv
  <2> QED BY <1>1, <2>1 DEF HasLed
<1>3. CASE \E a \in acked : a[1] = p /\ a[2] = t /\ a[3] >= k
  BY <1>3 DEF HistoryInv, AckInv
<1> QED BY <1>2, <1>3 DEF Acked

LEMMA AckedKept == ASSUME NEW n, StepMove(n), NEW p, NEW k, NEW t, Acked(p, k, t) PROVE Acked(p, k, t)'
<1>1. acked \subseteq acked'
  BY DEF StepMove, LogMove, Keeps, Appends, Accepts, Takes
<1>2. msgs \subseteq msgs'
  BY DEF StepMove, SendMove
<1> QED BY <1>1, <1>2 DEF Acked, Elected

\* Who takes an entry does so as its leader or with a batch, in its term.
LEMMA AckedNow ==
  ASSUME NEW n, StepMove(n), NEW p, NEW k, NEW t, Acked(p, k, t)', ~Acked(p, k, t)
  PROVE  /\ p = n /\ t = current_term'[n]
         /\ \/ state'[n] = "leader"
            \/ \E m : Takes(n, m) /\ m.prev_log_index + Len(m.entries) >= k
<1>1. CASE Elected(p, t)'
  <2>1. PICK m \in msgs' : m.type = "AppendEntries" /\ m.from = p /\ m.term = t
    BY <1>1 DEF Elected
  <2>2. m \notin msgs
    BY <2>1 DEF Acked, Elected
  <2>3. SendsBatch(n, m)
    BY <2>1, <2>2 DEF StepMove, SendMove, SendsBallot, SendsVote
  <2> QED BY <2>1, <2>3 DEF SendsBatch
<1>2. CASE \E a \in acked' : a[1] = p /\ a[2] = t /\ a[3] >= k
  <2>1. PICK a \in acked' : a[1] = p /\ a[2] = t /\ a[3] >= k
    BY <1>2
  <2>2. a \notin acked
    BY <2>1 DEF Acked
  <2>3. PICK m : Takes(n, m)
    BY <2>2 DEF StepMove, LogMove, Keeps, Appends, Accepts
  <2>4. a = <<n, m.term, m.prev_log_index + Len(m.entries)>>
    BY <2>2, <2>3 DEF Takes
  <2> QED BY <2>1, <2>3, <2>4 DEF Takes
<1> QED BY <1>1, <1>2 DEF Acked

LEMMA BlockedStays ==
  ASSUME VoteInv, VoteInv', Several, HistoryInv, NEW n \in Node, StepMove(n),
         NEW k, NEW t \in Nat, Blocked(k, t)
  PROVE  Blocked(k, t)'
<1>1. PICK Q \in SUBSET Node :
        Cardinality(Q) >= quorumSize /\ \A p \in Q : current_term[p] > t /\ ~Acked(p, k, t)
  BY DEF Blocked
<1>2. ASSUME NEW p \in Q PROVE current_term'[p] > t /\ ~Acked(p, k, t)'
  <2>1. /\ current_term[p] \in Nat /\ current_term'[p] \in Nat
        /\ current_term'[p] >= current_term[p] /\ current_term[p] > t /\ ~Acked(p, k, t)
    BY <1>1, StepGrows
  <2>2. current_term'[p] > t
    BY <2>1
  <2>3. Acked(p, k, t)' => t = current_term'[p]
    BY <2>1, AckedNow
  <2> QED BY <2>2, <2>3
<1> QED BY <1>1, <1>2 DEF Blocked

LEMMA WrittenStays ==
  ASSUME VoteInv, VoteInv', Several, HistoryInv, NEW n \in Node, StepMove(n),
         NEW k, NEW t, Written(k, t)
  PROVE  /\ Written(k, t)' /\ t \in Nat /\ k \in Nat /\ k > 0
         /\ led[t] \in Seq(LogEntry) /\ led'[t] \in Seq(LogEntry) /\ SameTo(led[t], led'[t], k)
<1>1. PICK ld, longer : /\ ld = led /\ longer = led' /\ Ledger(ld) /\ Ledger(longer)
                        /\ Grows(ld, longer)
  BY StepGrows DEF HistoryInv
<1>2. PICK r \in Seq(LogEntry), s \in Seq(LogEntry) :
        /\ r = ld[t] /\ s = longer[t] /\ SameTo(r, s, Len(r))
        /\ t \in DOMAIN ld /\ t \in DOMAIN longer /\ t \in Nat
        /\ k \in 1..Len(r) /\ r[k].term = t
  BY <1>1 DEF Written, Ledger, Grows
<1>3. Len(r) \in Nat /\ Len(s) \in Nat /\ k \in Nat /\ k > 0 /\ k \in 0..Len(r)
  BY <1>2, LenProperties
<1>4. SameTo(r, s, k)
  BY <1>2, <1>3, SameToSame
<1>5. k \in 1..Len(s) /\ s[k] = r[k]
  BY <1>3, <1>4 DEF SameTo
<1> QED BY <1>1, <1>2, <1>3, <1>4, <1>5 DEF Written

\* A log that has the entry, or a part of what is before it, keeps that.
LEMMA PrefixKept ==
  ASSUME VoteInv, VoteInv', Several, HistoryInv, NEW n \in Node, StepMove(n),
         NEW k, NEW t, Written(k, t), Inherited(k, t), NEW c \in Nat, c <= k,
         NEW p \in Node, current_term[p] >= t, SameTo(log[p], led[t], c)
  PROVE  SameTo(log'[p], led'[t], c)
<1>1. PICK l \in Seq(LogEntry), more \in Seq(LogEntry), r \in Seq(LogEntry), s \in Seq(LogEntry) :
        l = log[p] /\ more = log'[p] /\ r = led[t] /\ s = led'[t] /\ SameTo(r, s, k)
  BY WrittenStays DEF VoteInv, TypeOK
<1>2. k \in Nat /\ t \in Nat /\ c \in 0..k
  BY WrittenStays
<1>3. SameTo(l, r, c)
  BY <1>1
<1>4. SameTo(more, r, c)
  <2>1. CASE more = l
    BY <1>3, <2>1
  <2>2. CASE p = n /\ Appends(n)
    <3>1. SameTo(l, more, Len(l)) /\ Len(l) \in Nat
      BY <1>1, <2>2, AppendsLed
    <3>2. c \in 0..Len(l)
      BY <1>2, <1>3, <3>1 DEF SameTo
    <3> QED BY <1>2, <1>3, <3>1, <3>2, SameToSame
  <2>3. CASE p = n /\ Accepts(n)
    <3>1. PICK m : Takes(n, m)
      BY <2>3 DEF Accepts
    <3>2. PICK d \in Seq(LogEntry) :
            /\ d = led[m.term] /\ m.term \in DOMAIN led
            /\ \A j \in Nat : SameTo(log[n], d, j) => SameTo(log'[n], d, j)
      BY <3>1, TakesLed
    <3>3. PICK u \in DOMAIN led : u = m.term /\ d = led[u] /\ u \in Nat /\ u >= t
      <4>1. current_term[n] \in Nat /\ m.term >= current_term[n] /\ m.term \in Nat
        BY <3>1, <3>2 DEF Takes, VoteInv, TypeOK, HistoryInv, Ledger
      <4> QED BY <1>2, <2>3, <3>2, <4>1
    <3>4. SameTo(d, r, c)
      <4>1. CASE u = t
        <5>1. Len(r) \in Nat /\ c \in 0..Len(r)
          BY <1>1, <1>2, LenProperties DEF Written
        <5> QED BY <1>1, <1>2, <3>3, <4>1, <5>1, SameToSame
      <4>2. CASE u > t
        <5>1. SameTo(d, r, k)
          BY <1>1, <3>3, <4>2 DEF Inherited
        <5> QED BY <1>2, <5>1, SameToSame
      <4> QED BY <1>2, <3>3, <4>1, <4>2
    <3>5. SameTo(l, d, c)
      BY <1>2, <1>3, <3>4, SameToSame
    <3>6. SameTo(more, d, c)
      BY <1>1, <1>2, <2>3, <3>2, <3>5
    <3> QED BY <1>2, <3>4, <3>6, SameToSame
  <2> QED BY <1>1, <2>1, <2>2, <2>3, StepGrows DEF StepMove, LogMove, Keeps
<1>5. SameTo(r, s, c)
  BY <1>1, <1>2, SameToSame
<1>6. SameTo(more, s, c)
  BY <1>1, <1>2, <1>4, <1>5, SameToSame
<1> QED BY <1>1, <1>6

\* The leaders since that may have been elected have the entry too.
LEMMA InheritedKept ==
  ASSUME VoteInv, VoteInv', Several, HistoryInv, NEW n \in Node, StepMove(n),
         NEW k, NEW t, Written(k, t), ~Blocked(k, t), Vouched(k, t)
  PROVE  Inherited(k, t)'
<1>1. PICK ld, longer : /\ ld = led /\ longer = led' /\ Ledger(ld) /\ Ledger(longer)
                        /\ Grows(ld, longer)
  BY StepGrows DEF HistoryInv
<1>2. PICK r \in Seq(LogEntry), s \in Seq(LogEntry) :
        r = ld[t] /\ s = longer[t] /\ SameTo(r, s, k) /\ k \in Nat /\ t \in Nat
  BY <1>1, WrittenStays
<1> SUFFICES ASSUME NEW u \in DOMAIN longer, u > t PROVE SameTo(longer[u], s, k)
  BY <1>1, <1>2 DEF Inherited
<1>3. PICK d \in Seq(LogEntry) : d = longer[u] /\ u \in Nat
  BY <1>1 DEF Ledger
<1>4. CASE u \in DOMAIN ld
  <2>1. PICK e \in Seq(LogEntry) : e = ld[u] /\ SameTo(e, d, Len(e)) /\ SameTo(e, r, k)
    BY <1>1, <1>2, <1>3, <1>4 DEF Ledger, Grows, Vouched, Inherited
  <2>2. Len(e) \in Nat /\ k \in 0..Len(e)
    BY <1>2, <2>1, LenProperties DEF SameTo
  <2>3. SameTo(d, e, k)
    BY <1>2, <2>1, <2>2, SameToSame
  <2>4. SameTo(d, r, k)
    BY <1>2, <2>1, <2>3, SameToSame
  <2> QED BY <1>2, <1>3, <2>4, SameToSame
<1>5. CASE u \notin DOMAIN ld
  <2>1. Appends(n)
    BY <1>1, <1>5 DEF StepMove, LogMove, Keeps, Accepts, Takes
  <2>2. /\ DOMAIN led' = DOMAIN led \union {current_term[n]}
        /\ current_term[n] \in DOMAIN led => state[n] # "candidate"
    <3>1. DOMAIN led' = DOMAIN led \union {current_term[n]}
      BY <2>1 DEF Appends
    <3>2. \E v \in Nat : v = current_term[n] /\ (state[n] = "leader" \/ v \notin DOMAIN led)
      BY <2>1, AppendsGrow
    <3> QED BY <3>1, <3>2
  <2>3. u = current_term[n]
    BY <1>1, <1>5, <2>2
  <2>4. state[n] = "candidate" /\ HasVotes(n)
    <3>1. state[n] # "leader"
      BY <1>1, <1>5, <2>3 DEF HistoryInv, LeaderLed
    <3> QED BY <2>1, <3>1 DEF Appends
  <2>5. PICK Q \in SUBSET Node :
          Cardinality(Q) >= quorumSize /\ \A p \in Q : p = n \/ Granted(p, n, u)
    BY <2>3, <2>4 DEF HasVotes
  <2>6. \A p \in Q : current_term[p] > t
    <3> SUFFICES ASSUME NEW p \in Q PROVE current_term[p] > t
      OBVIOUS
    <3>1. current_term[p] \in Nat
      BY DEF VoteInv, TypeOK
    <3>2. current_term[p] >= u
      BY <1>3, <2>3, <2>5 DEF VoteInv, GrantsArePast
    <3> QED BY <1>2, <1>3, <3>1, <3>2
  <2>7. PICK p \in Q : Acked(p, k, t)
    BY <2>5, <2>6 DEF Blocked
  <2>8. Holds(n, k, t)
    BY <1>3, <2>3, <2>4, <2>5, <2>7 DEF Vouched
  <2>9. PICK l \in Seq(LogEntry), more \in Seq(LogEntry) :
          l = log[n] /\ more = log'[n] /\ SameTo(l, more, Len(l)) /\ longer[u] = more
    BY <1>1, <2>1, <2>3, AppendsLed
  <2>10. SameTo(l, r, k)
    BY <1>1, <1>2, <2>8, <2>9 DEF Holds
  <2>11. Len(l) \in Nat /\ k \in 0..Len(l)
    BY <1>2, <2>10, LenProperties DEF SameTo
  <2>12. SameTo(more, l, k)
    BY <1>2, <2>9, <2>11, SameToSame
  <2>13. SameTo(more, r, k)
    BY <1>2, <2>10, <2>12, SameToSame
  <2> QED BY <1>2, <2>9, <2>13, SameToSame
<1> QED BY <1>4, <1>5

LEMMA VouchedKept ==
  ASSUME VoteInv, VoteInv', Several, HistoryInv, HistoryInv', NEW n \in Node, StepMove(n),
         NEW k, NEW t, Written(k, t), ~Blocked(k, t), Vouched(k, t)
  PROVE  Vouched(k, t)'
<1>1. /\ k \in Nat /\ t \in Nat /\ Written(k, t)'
      /\ led[t] \in Seq(LogEntry) /\ led'[t] \in Seq(LogEntry) /\ SameTo(led[t], led'[t], k)
  BY WrittenStays
<1>2. Inherited(k, t)'
  BY InheritedKept
<1>3. ASSUME NEW p \in Node, Acked(p, k, t) PROVE Holds(p, k, t)'
  <2>1. current_term[p] >= t /\ SameTo(log[p], led[t], k) /\ Inherited(k, t)
    BY <1>1, <1>3, AckedPast DEF Vouched, Holds
  <2>2. SameTo(log'[p], led'[t], k)
    BY <1>1, <2>1, PrefixKept
  <2> QED BY <2>2 DEF Holds
<1>4. ASSUME NEW p \in Node, Acked(p, k, t)', ~Acked(p, k, t) PROVE p = n /\ Holds(n, k, t)'
  <2>1. p = n /\ t = current_term'[n]
    BY <1>4, AckedNow
  <2>2. CASE state'[n] = "leader"
    <3>1. led'[t] = log'[n]
      BY <2>1, <2>2 DEF HistoryInv, LeaderLed
    <3>2. Len(led'[t]) \in Nat /\ k \in 0..Len(led'[t])
      BY <1>1, LenProperties DEF Written
    <3>3. SameTo(led'[t], led'[t], k)
      BY <1>1, <3>2, SameToSame
    <3> QED BY <2>1, <3>1, <3>3 DEF Holds
  <2>3. CASE \E m : Takes(n, m) /\ m.prev_log_index + Len(m.entries) >= k
    <3>1. PICK m : Takes(n, m) /\ m.prev_log_index + Len(m.entries) >= k
      BY <2>3
    <3>2. PICK merged \in Seq(LogEntry), r \in Seq(LogEntry), hi \in Nat :
            /\ merged = log'[n] /\ r = led[m.term]
            /\ hi = m.prev_log_index + Len(m.entries) /\ SameTo(merged, r, hi)
      BY <3>1, TakesLed
    <3>3. SameTo(merged, r, k)
      <4>1. k \in 0..hi
        BY <1>1, <3>1, <3>2
      <4> QED BY <3>2, <4>1, SameToSame
    <3>5. m.term = t
      BY <2>1, <3>1 DEF Takes
    <3>4. led' = led
      BY <3>1 DEF Takes
    <3> QED BY <2>1, <3>2, <3>3, <3>4, <3>5 DEF Holds
  <2> QED BY <1>4, <2>1, <2>2, <2>3, AckedNow
<1>5. ASSUME NEW p \in Node, Acked(p, k, t)', NEW c \in Node, NEW u \in Nat, Granted(p, c, u)',
             u > t, state'[c] = "candidate", current_term'[c] = u
      PROVE  Holds(c, k, t)'
  <2>1. Acked(p, k, t)
    <3> SUFFICES ASSUME ~Acked(p, k, t) PROVE FALSE
      OBVIOUS
    <3>1. p = n /\ t = current_term'[n]
      BY <1>5, AckedNow
    <3>2. current_term'[p] >= u
      BY <1>5 DEF VoteInv, GrantsArePast
    <3> QED BY <1>1, <1>5, <3>1, <3>2
  <2>2. PICK l \in Seq(LogEntry), r \in Seq(LogEntry) : l = log'[c] /\ r = led[t]
    BY <1>1 DEF VoteInv, TypeOK
  <2>3. CASE Granted(p, c, u)
    <3>1. current_term[c] \in Nat /\ current_term'[c] >= current_term[c] /\ current_term[c] >= u
      BY <2>3, StepGrows DEF HistoryInv, GrantsToPast
    <3>2. current_term'[c] = current_term[c]
      BY <1>5, <3>1
    <3>3. state[c] = "candidate" /\ log'[c] = log[c]
      BY <1>5, <3>2, CandidateBefore
    <3>4. Holds(c, k, t)
      BY <1>5, <2>1, <2>3, <3>2, <3>3 DEF Vouched
    <3>5. SameTo(l, r, k)
      BY <2>2, <3>3, <3>4 DEF Holds
    <3>6. SameTo(l, led'[t], k)
      BY <1>1, <2>2, <3>5, SameToSame
    <3> QED BY <2>2, <3>6 DEF Holds
  <2>4. CASE ~Granted(p, c, u)
    <3>1. PICK m \in msgs' : /\ m.type = "RequestVoteResponse" /\ m.vote_granted
                             /\ m.from = p /\ m.to = c /\ m.term = u
      BY <1>5 DEF Granted
    <3>2. m \notin msgs
      BY <2>4, <3>1 DEF Granted
    <3>3. SendsVote(n, m)
      BY <3>1, <3>2 DEF StepMove, SendMove, SendsBatch, SendsBallot
    <3>4. PICK q \in msgs : /\ q.type = "RequestVote" /\ q.from = c /\ q.term = u
                            /\ log_ok(log[n], q) /\ p = n /\ log' = log /\ led' = led
      BY <3>1, <3>3 DEF SendsVote
    <3>5. q \in msgs'
      BY DEF StepMove, SendMove
    <3>6. q.last_log_index = Len(l) /\ q.last_log_term = getLastLogTerm(l)
      BY <1>5, <2>2, <3>4, <3>5 DEF HistoryInv, BallotInv
    <3>12. PICK ld : ld = led
      OBVIOUS
    <3>7. PICK d \in Seq(LogEntry) :
            /\ d = log[n] /\ ld = led /\ FromLed(d, current_term[n], ld)
            /\ FromLed(l, current_term[c], ld) /\ Ledger(ld)
      BY <2>2, <3>4, <3>12 DEF VoteInv, TypeOK, HistoryInv, LogsFromLed
    <3>8. \/ getLastLogTerm(l) > getLastLogTerm(d)
          \/ getLastLogTerm(l) = getLastLogTerm(d) /\ Len(l) >= Len(d)
      BY <3>4, <3>6, <3>7 DEF log_ok
    <3>9. SameTo(d, ld[t], k) /\ \A w \in DOMAIN ld : w > t => SameTo(ld[w], ld[t], k)
      BY <2>1, <3>4, <3>7 DEF Vouched, Holds, Inherited
    <3>10. t \in DOMAIN ld /\ k \in 1..Len(ld[t]) /\ ld[t][k].term = t
      BY <3>7 DEF Written
    <3>11. SameTo(l, ld[t], k)
      BY <3>7, <3>8, <3>9, <3>10, UpToDate
    <3> QED BY <2>2, <3>4, <3>7, <3>11 DEF Holds
  <2> QED BY <2>3, <2>4
<1> QED BY <1>2, <1>3, <1>4, <1>5 DEF Vouched

\* A leader writes an entry: nobody else has it, and who led since was elected
\* by a majority that has passed the term without it.
LEMMA FreshVouched ==
  ASSUME VoteInv, VoteInv', Several, HistoryInv, HistoryInv', NEW n \in Node, StepMove(n),
         NEW k, NEW t, Written(k, t)', ~Written(k, t), ~Blocked(k, t)'
  PROVE  Vouched(k, t)'
<1>1. Appends(n)
  <2>1. led' # led
    BY DEF Written
  <2> QED BY <2>1 DEF StepMove, LogMove, Keeps, Accepts, Takes
<1>2. PICK l \in Seq(LogEntry), more \in Seq(LogEntry) :
        /\ l = log[n] /\ more = log'[n] /\ SameTo(l, more, Len(l))
        /\ Len(l) \in Nat /\ Len(more) = Len(l) + 1
        /\ DOMAIN led' = DOMAIN led \union {current_term[n]}
        /\ led'[current_term[n]] = more
        /\ current_term[n] \in DOMAIN led => led[current_term[n]] = l
        /\ \A u \in DOMAIN led \ {current_term[n]} : led'[u] = led[u]
  BY <1>1, AppendsLed
<1>3. t = current_term[n]
  BY <1>2 DEF Written
<1>4. t \in Nat /\ k \in 1..Len(more) /\ more[k].term = t /\ led'[t] = more
  BY <1>2, <1>3 DEF Written, HistoryInv, Ledger
<1>5. k = Len(l) + 1
  <2> SUFFICES ASSUME k \in 1..Len(l) PROVE FALSE
    BY <1>2, <1>4
  <2>1. l[k].term = t
    BY <1>2, <1>4 DEF SameTo
  <2>2. t \in DOMAIN led
    BY <1>2, <2>1 DEF HistoryInv, LogsFromLed, FromLed
  <2> QED BY <1>2, <1>3, <2>1, <2>2 DEF Written
<1>6. acked' = acked /\ current_term' = current_term /\ state'[n] = "leader"
  BY <1>1 DEF Appends
<1>7. ASSUME NEW p \in Node, Acked(p, k, t)' PROVE p = n
  <2>1. CASE Elected(p, t)'
    <3>1. Elected(n, t)'
      BY <1>3, <1>6 DEF VoteInv, LeaderInv, Several
    <3>2. OneElected'
      <4>1. ElectedInv' => OneElected'
        BY ElectedAtMostOnce, PTL
      <4> QED BY <4>1 DEF VoteInv
    <3> QED BY <1>4, <2>1, <3>1, <3>2 DEF OneElected
  <2>2. ASSUME NEW a \in acked, a[1] = p, a[2] = t, a[3] >= k PROVE FALSE
    <3>1. t \in DOMAIN led /\ a[3] \in Nat /\ a[3] <= Len(l)
      BY <1>2, <1>3, <2>2 DEF HistoryInv, AckInv
    <3> QED BY <1>2, <1>5, <2>2, <3>1
  <2> QED BY <1>6, <1>7, <2>1, <2>2 DEF Acked
<1>8. Inherited(k, t)'
  <2> SUFFICES ASSUME NEW u \in DOMAIN led', u > t PROVE FALSE
    BY DEF Inherited
  <2>1. u \in DOMAIN led /\ u \in Nat
    BY <1>2, <1>3, <1>4 DEF HistoryInv, Ledger
  <2>2. PICK x \in Node : Elected(x, u)
    BY <2>1 DEF HistoryInv, LedByElected
  <2>3. HasLoyalMajority(x, u)
    BY <2>1, <2>2 DEF VoteInv, ElectedInv
  <2>4. PICK Q \in SUBSET Node : Cardinality(Q) >= quorumSize /\ \A p \in Q : current_term[p] >= u
    BY <2>3 DEF HasLoyalMajority, Loyal
  <2>5. \A p \in Q : current_term[p] > t
    <3> SUFFICES ASSUME NEW p \in Q PROVE current_term[p] > t
      OBVIOUS
    <3>1. current_term[p] \in Nat /\ current_term[p] >= u
      BY <2>4 DEF VoteInv, TypeOK
    <3> QED BY <1>4, <2>1, <3>1
  <2>6. PICK p \in Q : Acked(p, k, t)'
    BY <1>6, <2>4, <2>5 DEF Blocked
  <2>7. p = n
    BY <1>7, <2>6
  <2> QED BY <1>3, <1>4, <2>5, <2>7
<1>9. Holds(n, k, t)'
  <2>1. k \in 0..Len(more)
    BY <1>4
  <2>2. SameTo(more, more, k)
    BY <1>2, <2>1, SameToSame
  <2> QED BY <1>2, <1>4, <2>2 DEF Holds
<1>10. ASSUME NEW c \in Node, NEW u \in Nat, Granted(n, c, u)', u > t PROVE FALSE
  <2>1. current_term'[n] >= u
    BY <1>10 DEF VoteInv, GrantsArePast
  <2> QED BY <1>3, <1>4, <1>6, <1>10, <2>1
<1> QED BY <1>7, <1>8, <1>9, <1>10 DEF Vouched

LEMMA SafeStep ==
  ASSUME VoteInv, VoteInv', Several, HistoryInv, HistoryInv', SafeInv,
         NEW n \in Node, StepMove(n)
  PROVE  SafeInv'
<1> SUFFICES ASSUME NEW t, NEW k, Written(k, t)', ~Blocked(k, t)' PROVE Vouched(k, t)'
  BY DEF SafeInv, Written
<1>1. CASE Written(k, t)
  <2>1. ~Blocked(k, t)
    BY <1>1, BlockedStays, WrittenStays
  <2> QED BY <1>1, <2>1, SafeWritten, VouchedKept
<1>2. CASE ~Written(k, t)
  BY <1>2, FreshVouched
<1> QED BY <1>1, <1>2

LEMMA SafeInit == CommitInit => SafeInv
BY DEF CommitInit, SafeInv

-----------------------------------------------------------------------------
(* What is committed, announced and applied has been chosen. *)

\* Up to c, l is what was chosen by term u.
Secured(l, c, u) ==
  \E t \in DOMAIN led : \E k \in 1..Len(led[t]) :
    Chosen(k, t) /\ t <= u /\ c <= k /\ SameTo(l, led[t], c)

CommitInv ==
  \A x \in Node : commit_index[x] > 0 => Secured(log[x], commit_index[x], current_term[x])

AnnouncedInv ==
  \A m \in Requests : m.leader_commit > 0 => Secured(led[m.term], m.leader_commit, m.term)

AppliedInv ==
  \A x \in Node : \A e \in applied[x] :
    \E t \in DOMAIN led : \E k \in 1..Len(led[t]) :
      Chosen(k, t) /\ e.index \in 1..k /\ led[t][e.index] = e

ChosenInv == CommitInv /\ AnnouncedInv /\ AppliedInv /\ panicked = {}

LEMMA ChosenVouched ==
  ASSUME SafeInv, NEW k, NEW t, Chosen(k, t) PROVE Written(k, t) /\ Inherited(k, t)
<1>1. PICK Q \in SUBSET Node : Cardinality(Q) >= quorumSize /\ \A p \in Q : Acked(p, k, t)
  BY DEF Chosen
<1>2. ~Blocked(k, t)
  <2> SUFFICES ASSUME Blocked(k, t) PROVE FALSE
    OBVIOUS
  <2>1. PICK R \in SUBSET Node : Cardinality(R) >= quorumSize /\ \A p \in R : ~Acked(p, k, t)
    BY DEF Blocked
  <2>2. PICK p \in Node : p \in Q /\ p \in R
    BY <1>1, <2>1, MajoritiesMeet
  <2> QED BY <1>1, <2>1, <2>2
<1> QED BY <1>2, SafeWritten DEF Chosen, Vouched

LEMMA ChosenStays ==
  ASSUME VoteInv, VoteInv', Several, HistoryInv, NEW n \in Node, StepMove(n),
         NEW k, NEW t, Chosen(k, t)
  PROVE  Chosen(k, t)'
<1>1. PICK Q \in SUBSET Node : Cardinality(Q) >= quorumSize /\ \A p \in Q : Acked(p, k, t)
  BY DEF Chosen
<1>2. \A p \in Q : Acked(p, k, t)'
  BY <1>1, AckedKept
<1>3. Written(k, t)'
  BY WrittenStays DEF Chosen
<1> QED BY <1>1, <1>2, <1>3 DEF Chosen

\* What is chosen is the same whoever chose it.
LEMMA ChosenAgree ==
  ASSUME HistoryInv, SafeInv, NEW k, NEW t, NEW j, NEW u, Chosen(k, t), Chosen(j, u),
         NEW i \in Nat, i > 0, i <= k, i <= j
  PROVE  led[t][i] = led[u][i]
<1>1. /\ t \in DOMAIN led /\ u \in DOMAIN led /\ t \in Nat /\ u \in Nat
      /\ k \in 1..Len(led[t]) /\ j \in 1..Len(led[u]) /\ Inherited(k, t) /\ Inherited(j, u)
  BY ChosenVouched DEF Written, HistoryInv, Ledger
<1>2. i \in 1..k /\ i \in 1..j
  BY <1>1
<1>3. CASE t < u
  <2>1. SameTo(led[u], led[t], k)
    BY <1>1, <1>3 DEF Inherited
  <2> QED BY <1>2, <2>1 DEF SameTo
<1>4. CASE u < t
  <2>1. SameTo(led[t], led[u], j)
    BY <1>1, <1>4 DEF Inherited
  <2> QED BY <1>2, <2>1 DEF SameTo
<1> QED BY <1>1, <1>3, <1>4

LEMMA LogSecured ==
  ASSUME VoteInv, VoteInv', Several, HistoryInv, SafeInv, NEW n \in Node, StepMove(n),
         NEW x \in Node, NEW c \in Nat, Secured(log[x], c, current_term[x])
  PROVE  Secured(log[x], c, current_term[x])'
<1>1. PICK t \in DOMAIN led, k \in Nat :
        k \in 1..Len(led[t]) /\ Chosen(k, t) /\ t <= current_term[x] /\ c <= k /\ SameTo(log[x], led[t], c)
  BY DEF Secured
<1>2. Written(k, t) /\ Inherited(k, t) /\ Chosen(k, t)'
  BY <1>1, ChosenVouched, ChosenStays
<1>3. Written(k, t)' /\ t \in Nat
  BY <1>2, WrittenStays
<1>4. current_term[x] \in Nat /\ current_term'[x] \in Nat /\ current_term'[x] >= current_term[x]
  BY StepGrows
<1>5. SameTo(log'[x], led'[t], c)
  <2>1. current_term[x] >= t
    BY <1>1, <1>3, <1>4
  <2> QED BY <1>1, <1>2, <2>1, PrefixKept
<1>6. t <= current_term'[x]
  BY <1>1, <1>3, <1>4
<1> QED BY <1>1, <1>2, <1>3, <1>5, <1>6 DEF Secured, Written

LEMMA LedSecured ==
  ASSUME VoteInv, VoteInv', Several, HistoryInv, SafeInv, NEW n \in Node, StepMove(n),
         NEW u \in DOMAIN led, NEW c \in Nat, Secured(led[u], c, u)
  PROVE  Secured(led[u], c, u)'
<1>1. PICK t \in DOMAIN led, k \in Nat :
        k \in 1..Len(led[t]) /\ Chosen(k, t) /\ t <= u /\ c <= k /\ SameTo(led[u], led[t], c)
  BY DEF Secured
<1>2. PICK ld, longer : /\ ld = led /\ longer = led' /\ Ledger(ld) /\ Ledger(longer)
                        /\ Grows(ld, longer)
  BY StepGrows DEF HistoryInv
<1>3. PICK d \in Seq(LogEntry), e \in Seq(LogEntry), r \in Seq(LogEntry), s \in Seq(LogEntry) :
        /\ d = ld[u] /\ e = longer[u] /\ r = ld[t] /\ s = longer[t]
        /\ SameTo(d, e, Len(d)) /\ SameTo(r, s, Len(r)) /\ SameTo(d, r, c)
  BY <1>1, <1>2 DEF Ledger, Grows
<1>4. c \in 0..Len(d) /\ c \in 0..Len(r) /\ Len(d) \in Nat /\ Len(r) \in Nat
  BY <1>3, LenProperties DEF SameTo
<1>5. SameTo(d, e, c) /\ SameTo(r, s, c)
  BY <1>3, <1>4, SameToSame
<1>6. SameTo(e, d, c) /\ SameTo(d, s, c)
  BY <1>3, <1>5, SameToSame
<1>7. SameTo(e, s, c)
  BY <1>6, SameToSame
<1>8. Written(k, t)' /\ Chosen(k, t)'
  BY <1>1, ChosenVouched, ChosenStays, WrittenStays
<1> QED BY <1>1, <1>2, <1>3, <1>7, <1>8 DEF Secured, Written

LEMMA AdvanceSecured ==
  ASSUME VoteInv, VoteInv', Several, HistoryInv, HistoryInv', NEW n \in Node, StepMove(n),
         Advances(n), log' = log, CreditsEarned'
  PROVE  commit_index'[n] \in Nat /\ Secured(log[n], commit_index[n], current_term[n])'
<1>1. PICK k \in 1..Len(log[n]), Q \in SUBSET Node :
        /\ commit_index' = [commit_index EXCEPT ![n] = k]
        /\ log[n][k].term = current_term[n]
        /\ Cardinality(Q) >= quorumSize
        /\ \A p \in Q : p = n \/ peer_states'[n][p].match_index >= k
  BY DEF Advances
<1>2. PICK t \in Nat, l \in Seq(LogEntry) :
        /\ t = current_term'[n] /\ t = current_term[n] /\ l = log[n] /\ l = log'[n]
        /\ state'[n] = "leader"
  BY DEF Advances, VoteInv, TypeOK
<1>3. commit_index'[n] = k /\ k \in Nat /\ k > 0 /\ k \in 0..Len(l)
  BY <1>1, <1>2, LenProperties DEF VoteInv, TypeOK
<1>4. t \in DOMAIN led' /\ led'[t] = l
  BY <1>2 DEF HistoryInv, LeaderLed
<1>5. Written(k, t)'
  BY <1>1, <1>2, <1>4 DEF Written
<1>6. ASSUME NEW p \in Q PROVE Acked(p, k, t)'
  <2>1. CASE p = n
    <3>1. Elected(n, t)'
      BY <1>2 DEF VoteInv, LeaderInv, Several
    <3> QED BY <2>1, <3>1 DEF Acked
  <2>2. CASE p # n
    <3>1. PICK match \in Nat : match = peer_states'[n][p].match_index /\ match >= k
      <4>1. peer_states'[n][p] \in PeerState
        BY DEF VoteInv, TypeOK
      <4>2. peer_states'[n][p].match_index \in Nat
        BY <4>1 DEF PeerState
      <4>3. peer_states'[n][p].match_index >= k
        BY <1>1, <2>2
      <4> QED BY <4>2, <4>3
    <3>2. match > 0
      <4>1. k \in Nat /\ k > 0
        BY <1>3
      <4>2. match \in Nat /\ match >= k
        BY <3>1
      <4>3. \A a, b \in Nat : a >= b /\ b > 0 => a > 0
        OBVIOUS
      <4> QED BY <4>1, <4>2, <4>3
    <3>3. PICK a \in acked' : a[1] = p /\ a[2] = t /\ match <= a[3]
      <4>1. p \in Node /\ state'[n] = "leader" /\ peer_states'[n][p].match_index > 0
        BY <1>2, <3>1, <3>2
      <4>2. \E a \in acked' : /\ a[1] = p /\ a[2] = current_term'[n]
                              /\ peer_states'[n][p].match_index <= a[3]
        BY <2>2, <4>1 DEF CreditsEarned
      <4> QED BY <1>2, <3>1, <4>2
    <3>4. a[3] \in Nat
      BY DEF HistoryInv, AckInv
    <3>5. a[3] >= k
      BY <1>3, <3>1, <3>3, <3>4
    <3> QED BY <3>3, <3>5 DEF Acked
  <2> QED BY <2>1, <2>2
<1>7. Chosen(k, t)'
  BY <1>1, <1>5, <1>6 DEF Chosen
<1>8. SameTo(l, l, k)
  BY <1>2, <1>3, SameToSame
<1>9. t <= t /\ k <= k
  BY <1>3
<1>10. t \in DOMAIN led' /\ k \in 1..Len(led'[t])
  BY <1>5 DEF Written
<1> QED BY <1>2, <1>3, <1>4, <1>7, <1>8, <1>9, <1>10 DEF Secured

LEMMA TakeSecured ==
  ASSUME VoteInv, VoteInv', Several, HistoryInv, AnnouncedInv, CommitsCarried,
         NEW n \in Node, StepMove(n), NEW m, Takes(n, m), m.leader_commit > commit_index[n]
  PROVE  commit_index'[n] \in Nat /\ Secured(log[n], commit_index[n], current_term[n])'
<1>1. m \in Requests /\ m \in AppendEntriesRequest /\ m \in msgs
  BY MessageFields DEF Takes, Requests, VoteInv
<1>2. PICK c \in Nat, hi \in Nat :
        c = m.leader_commit /\ hi = m.prev_log_index + Len(m.entries) /\ c <= hi /\ c > 0
  <2>1. m.leader_commit \in Nat /\ m.prev_log_index + Len(m.entries) \in Nat
    BY <1>1, LenProperties DEF AppendEntriesRequest
  <2>2. commit_index[n] \in Nat
    BY DEF VoteInv, TypeOK
  <2>3. m.leader_commit <= m.prev_log_index + Len(m.entries)
    BY <1>1 DEF CommitsCarried, Takes
  <2> QED BY <2>1, <2>2, <2>3
<1>3. PICK l \in Seq(LogEntry), d \in Seq(LogEntry) :
        l = log'[n] /\ d = led[m.term] /\ SameTo(l, d, hi)
  BY <1>2, TakesLed
<1>4. c \in 0..hi /\ Len(l) \in Nat /\ hi <= Len(l)
  BY <1>2, <1>3, LenProperties DEF SameTo
<1>5. SameTo(l, d, c)
  BY <1>3, <1>4, SameToSame
<1>6. commit_index'[n] = c
  <2>1. commit_index'[n] = least(c, Len(l))
    BY <1>2, <1>3 DEF Takes, VoteInv, TypeOK
  <2> QED BY <1>2, <1>4, <2>1 DEF least
<1>7. PICK t \in DOMAIN led, k \in Nat :
        k \in 1..Len(led[t]) /\ Chosen(k, t) /\ t <= m.term /\ c <= k /\ SameTo(d, led[t], c)
  BY <1>1, <1>2, <1>3 DEF AnnouncedInv, Secured
<1>8. SameTo(l, led[t], c)
  <2>1. led[t] \in Seq(LogEntry)
    BY DEF HistoryInv, Ledger
  <2> QED BY <1>3, <1>5, <1>7, <2>1, SameToSame
<1>9. led' = led /\ current_term'[n] = m.term
  BY DEF Takes
<1>10. Chosen(k, t)'
  BY <1>7, ChosenStays
<1> QED BY <1>3, <1>6, <1>7, <1>8, <1>9, <1>10 DEF Secured

LEMMA CommitInvStep ==
  ASSUME VoteInv, VoteInv', Several, HistoryInv, HistoryInv', SafeInv, ChosenInv,
         CommitsCarried, CreditsEarned', NEW n \in Node, StepMove(n)
  PROVE  CommitInv'
<1> SUFFICES ASSUME NEW x \in Node, commit_index'[x] > 0
             PROVE  Secured(log[x], commit_index[x], current_term[x])'
  BY DEF CommitInv
<1>1. ASSUME commit_index'[x] = commit_index[x]
      PROVE  Secured(log[x], commit_index[x], current_term[x])'
  <2>1. PICK c \in Nat : c = commit_index[x] /\ c = commit_index'[x] /\ c > 0
    BY <1>1 DEF VoteInv, TypeOK
  <2>2. Secured(log[x], c, current_term[x])
    BY <2>1 DEF ChosenInv, CommitInv
  <2>3. Secured(log[x], c, current_term[x])'
    BY <2>2, LogSecured
  <2> QED BY <2>1, <2>3
<1>2. CASE Advances(n) /\ Keeps(n)
  <2>1. log' = log
    BY <1>2 DEF Keeps
  <2>2. CASE x = n
    BY <1>2, <2>1, <2>2, AdvanceSecured
  <2>3. CASE x # n
    BY <1>1, <1>2, <2>3 DEF Advances, VoteInv, TypeOK
  <2> QED BY <2>2, <2>3
<1>3. CASE Accepts(n)
  <2>1. PICK m : Takes(n, m)
    BY <1>3 DEF Accepts
  <2>2. CASE x = n /\ m.leader_commit > commit_index[n]
    BY <2>1, <2>2, TakeSecured DEF ChosenInv
  <2>3. CASE x # n \/ ~(m.leader_commit > commit_index[n])
    BY <1>1, <2>1, <2>3 DEF Takes, VoteInv, TypeOK
  <2> QED BY <2>2, <2>3
<1> QED BY <1>1, <1>2, <1>3 DEF StepMove, LogMove, Keeps, Appends

LEMMA AnnouncedStep ==
  ASSUME VoteInv, VoteInv', Several, HistoryInv, HistoryInv', SafeInv, ChosenInv,
         NEW n \in Node, StepMove(n)
  PROVE  AnnouncedInv'
<1> SUFFICES ASSUME NEW m \in msgs', m.type = "AppendEntries", m.leader_commit > 0
             PROVE  Secured(led[m.term], m.leader_commit, m.term)'
  BY DEF AnnouncedInv, Requests
<1>1. m \in AppendEntriesRequest
  <2>1. msgs' \subseteq Message
    BY DEF VoteInv, TypeOK
  <2> QED BY <2>1 DEF Message, RequestVoteRequest, RequestVoteResponse, AppendEntriesResponse
<1>2. PICK c \in Nat, u \in Nat : c = m.leader_commit /\ u = m.term /\ c > 0
  BY <1>1 DEF AppendEntriesRequest
<1>3. CASE m \in msgs
  <2>1. u \in DOMAIN led /\ Secured(led[u], c, u)
    BY <1>2, <1>3 DEF HistoryInv, RequestsFromLed, Requests, ChosenInv, AnnouncedInv
  <2>2. Secured(led[u], c, u)'
    BY <2>1, LedSecured
  <2> QED BY <1>2, <2>2
<1>4. CASE m \notin msgs
  <2>1. SendsBatch(n, m)
    BY <1>4 DEF StepMove, SendMove, SendsBallot, SendsVote
  <2>2. c = commit_index[n] /\ u = current_term'[n] /\ state'[n] = "leader"
    BY <1>2, <2>1 DEF SendsBatch
  <2>3. Secured(log[n], c, current_term[n])
    BY <1>2, <2>2 DEF ChosenInv, CommitInv
  <2>4. Secured(log[n], c, current_term[n])'
    BY <2>3, LogSecured
  <2>5. led'[u] = log'[n]
    BY <2>2 DEF HistoryInv, LeaderLed
  <2> QED BY <1>2, <2>2, <2>4, <2>5
<1> QED BY <1>3, <1>4

LEMMA AppliedStep ==
  ASSUME VoteInv, VoteInv', Several, HistoryInv, SafeInv, ChosenInv, NEW n \in Node, StepMove(n)
  PROVE  AppliedInv'
<1>1. ASSUME NEW e, NEW t \in DOMAIN led, NEW k \in 1..Len(led[t]), Chosen(k, t),
             e.index \in 1..k, led[t][e.index] = e
      PROVE  \E u \in DOMAIN led' : \E j \in 1..Len(led'[u]) :
               Chosen(j, u)' /\ e.index \in 1..j /\ led'[u][e.index] = e
  <2>1. Chosen(k, t)' /\ Written(k, t)' /\ SameTo(led[t], led'[t], k)
    BY <1>1, ChosenStays, WrittenStays DEF Chosen
  <2>2. led'[t][e.index] = e
    BY <1>1, <2>1 DEF SameTo
  <2> QED BY <1>1, <2>1, <2>2 DEF Written
<1>2. ASSUME NEW x \in Node, NEW e \in applied'[x]
      PROVE  \E t \in DOMAIN led : \E k \in 1..Len(led[t]) :
               Chosen(k, t) /\ e.index \in 1..k /\ led[t][e.index] = e
  <2>1. CASE e \in applied[x]
    BY <2>1 DEF ChosenInv, AppliedInv
  <2>2. CASE e \notin applied[x]
    <3>1. PICK j \in 1..Len(log[n]) : x = n /\ j <= commit_index[n] /\ e = log[n][j]
      BY <1>2, <2>2 DEF StepMove, Applies
    <3>2. PICK l \in Seq(LogEntry), c \in Nat : l = log[n] /\ c = commit_index[n] /\ c > 0 /\ j \in 1..c
      BY <3>1 DEF VoteInv, TypeOK
    <3>3. PICK t \in DOMAIN led, k \in Nat :
            k \in 1..Len(led[t]) /\ Chosen(k, t) /\ c <= k /\ SameTo(l, led[t], c)
      BY <3>2 DEF ChosenInv, CommitInv, Secured
    <3>4. e.index = j
      BY <3>1 DEF HistoryInv, LogsFromLed, FromLed
    <3>5. j \in 1..k /\ led[t][j] = e
      BY <3>1, <3>2, <3>3 DEF SameTo
    <3> QED BY <3>3, <3>4, <3>5
  <2> QED BY <2>1, <2>2
<1> SUFFICES ASSUME NEW x \in Node, NEW e \in applied'[x]
             PROVE  \E u \in DOMAIN led' : \E j \in 1..Len(led'[u]) :
                      Chosen(j, u)' /\ e.index \in 1..j /\ led'[u][e.index] = e
  BY DEF AppliedInv
<1> QED BY <1>1, <1>2

\* No node's commit index goes beyond its log.
LEMMA CommitInLog ==
  ASSUME VoteInv, CommitInv, NEW x \in Node PROVE commit_index[x] <= Len(log[x])
<1>1. commit_index[x] \in Nat /\ Len(log[x]) \in Nat
  BY LenProperties DEF VoteInv, TypeOK
<1>2. CASE commit_index[x] > 0
  BY <1>2 DEF CommitInv, Secured, SameTo
<1>3. CASE commit_index[x] = 0
  BY <1>1, <1>3
<1> QED BY <1>1, <1>2, <1>3

LEMMA ChosenStep ==
  ASSUME VoteInv, VoteInv', Several, HistoryInv, HistoryInv', SafeInv, ChosenInv,
         CommitsCarried, CreditsEarned', NEW n \in Node, StepMove(n)
  PROVE  ChosenInv'
<1>1. panicked' = {}
  <2>1. commit_index[n] <= Len(log[n]) /\ commit_index[n] \in Nat /\ Len(log[n]) \in Nat
    BY CommitInLog, LenProperties DEF ChosenInv, VoteInv, TypeOK
  <2>2. ~(commit_index[n] > Len(log[n]))
    BY <2>1
  <2> QED BY <2>2 DEF StepMove, Applies, ChosenInv
<1> QED BY <1>1, CommitInvStep, AnnouncedStep, AppliedStep DEF ChosenInv

LEMMA ChosenInit == CommitInit => ChosenInv
BY DEF CommitInit, Init, ChosenInv, CommitInv, AnnouncedInv, AppliedInv, Requests

LEMMA ChosenIsSafe ==
  ASSUME VoteInv, HistoryInv, SafeInv, ChosenInv PROVE StateMachineSafety /\ LeaderCompleteness
<1>1. StateMachineSafety
  <2> SUFFICES ASSUME NEW n1 \in Node, NEW n2 \in Node, NEW e1 \in applied[n1],
                      NEW e2 \in applied[n2], e1.index = e2.index
               PROVE  e1 = e2
    BY DEF StateMachineSafety
  <2>1. PICK t \in DOMAIN led, k \in Nat :
          Chosen(k, t) /\ e1.index \in 1..k /\ led[t][e1.index] = e1
    BY DEF ChosenInv, AppliedInv
  <2>2. PICK u \in DOMAIN led, j \in Nat :
          Chosen(j, u) /\ e2.index \in 1..j /\ led[u][e2.index] = e2
    BY DEF ChosenInv, AppliedInv
  <2>3. PICK i \in Nat : i = e1.index /\ i = e2.index /\ i > 0 /\ i <= k /\ i <= j
    BY <2>1, <2>2
  <2>4. led[t][i] = led[u][i]
    BY <2>1, <2>2, <2>3, ChosenAgree
  <2> QED BY <2>1, <2>2, <2>3, <2>4
<1>2. LeaderCompleteness
  <2> SUFFICES ASSUME NEW n \in Node, NEW l \in Node,
                      NEW i \in 1..least(commit_index[n], Len(log[n])),
                      state[l] = "leader", current_term[l] > current_term[n]
               PROVE  i <= Len(log[l]) /\ log[l][i] = log[n][i]
    BY DEF LeaderCompleteness
  <2>1. PICK c \in Nat, u \in Nat, v \in Nat :
          /\ c = commit_index[n] /\ u = current_term[n] /\ v = current_term[l] /\ v > u
          /\ c > 0 /\ i \in 1..c
    <3>1. commit_index[n] \in Nat /\ Len(log[n]) \in Nat
      BY LenProperties DEF VoteInv, TypeOK
    <3>2. i \in 1..commit_index[n]
      BY <3>1 DEF least
    <3> QED BY <3>1, <3>2 DEF VoteInv, TypeOK
  <2>2. PICK t \in DOMAIN led, k \in Nat :
          Chosen(k, t) /\ t <= u /\ c <= k /\ SameTo(log[n], led[t], c)
    BY <2>1 DEF ChosenInv, CommitInv, Secured
  <2>3. t \in Nat /\ Inherited(k, t)
    BY <2>2, ChosenVouched DEF HistoryInv, Ledger
  <2>4. v \in DOMAIN led /\ led[v] = log[l]
    BY <2>1 DEF HistoryInv, LeaderLed
  <2>5. SameTo(log[l], led[t], k)
    BY <2>1, <2>2, <2>3, <2>4 DEF Inherited
  <2>6. i \in 1..k
    BY <2>1, <2>2
  <2>7. log[l][i] = led[t][i] /\ log[n][i] = led[t][i]
    BY <2>1, <2>2, <2>5, <2>6 DEF SameTo
  <2>8. i <= Len(log[l])
    <3>1. Len(log[l]) \in Nat
      BY LenProperties DEF VoteInv, TypeOK
    <3> QED BY <2>2, <2>5, <2>6, <3>1 DEF SameTo
  <2> QED BY <2>7, <2>8
<1> QED BY <1>1, <1>2

-----------------------------------------------------------------------------
(* A single node sends nothing and commits nothing. *)

Idle ==
  /\ msgs = {} /\ acked = {} /\ panicked = {}
  /\ \A x \in Node : commit_index[x] = 0 /\ applied[x] = {}

LEMMA AloneSilent ==
  ASSUME ~Several, NEW n \in Node, NEW t, NEW l, NEW peers
  PROVE  requestVotes(n, t) = {} /\ heartbeats(n, t, l, peers) = {}
<1>1. Node \ {n} = {}
  BY DEF Several
<1>2. requestVotes(n, t) = {}
  BY <1>1 DEF requestVotes
<1>3. {q \in Node \ {n} : peers[q].known} = {}
  BY <1>1
<1>4. heartbeats(n, t, l, peers) = {}
  BY <1>3 DEF heartbeats
<1> QED BY <1>2, <1>4

LEMMA IdleStep == ASSUME TypeOK, ~Several, Idle, [CommitNext]_commitVars PROVE Idle'
<1>1. ASSUME NEW n \in Node, Tick(n), UNCHANGED acked PROVE Idle'
  <2>1. last_applied[n] \in Nat /\ commit_index[n] = 0
    BY DEF TypeOK, Idle
  <2>2. (last_applied[n] + 1)..commit_index[n] = {}
    BY <2>1
  <2>3. UNCHANGED applyVars
    BY <1>1, <2>2 DEF Tick, applyCommitted
  <2>4. UNCHANGED commit_index
    BY <1>1 DEF Tick, startElection, sendHeartbeats, noTimeout, nodeVars
  <2>5. msgs' = {}
    <3>1. CASE startElection(n)
      <4>1. PICK t, l, peers : \/ msgs' = msgs \union heartbeats(n, t, l, peers)
                               \/ msgs' = msgs \union requestVotes(n, t)
        BY <3>1 DEF startElection, becomeLeader
      <4> QED BY <4>1, AloneSilent DEF Idle
    <3>2. CASE sendHeartbeats(n)
      BY <3>2, AloneSilent DEF sendHeartbeats, Idle
    <3>3. CASE noTimeout(n)
      BY <3>3 DEF noTimeout, Idle
    <3> QED BY <1>1, <3>1, <3>2, <3>3 DEF Tick
  <2> QED BY <1>1, <2>3, <2>4, <2>5 DEF Idle, applyVars
<1>2. ASSUME NEW n \in Node, NEW c \in Command, Submit(n, c), UNCHANGED acked PROVE Idle'
  BY <1>2 DEF Submit, Idle, applyVars
<1>3. CASE UNCHANGED commitVars
  BY <1>3 DEF commitVars, vars, nodeVars, applyVars, Idle
<1> QED BY <1>1, <1>2, <1>3 DEF CommitNext, Idle

-----------------------------------------------------------------------------
(* The theorem. *)

HistoryIInv ==
  /\ LogsIInv
  /\ Several => HistoryInv /\ SafeInv
  /\ ~Several => Idle

CommitIInv == HistoryIInv /\ (Several => ChosenInv)

LEMMA CommitIsNext == [CommitNext]_commitVars => [Next]_vars
BY DEF CommitNext, commitVars, Next, vars

LEMMA CommitIInvInit == CommitInit => HistoryIInv /\ CommitIInv
<1> SUFFICES ASSUME CommitInit PROVE HistoryIInv /\ CommitIInv
  OBVIOUS
<1>1. LogsIInv
  BY LogsInit DEF CommitInit
<1>2. Idle
  BY DEF CommitInit, Init, Idle
<1> QED BY <1>1, <1>2, HistoryInit, SafeInit, ChosenInit DEF HistoryIInv, CommitIInv

\* Of several nodes, one takes the step.
LEMMA OneMoves ==
  ASSUME HistoryIInv, Several, [CommitNext]_commitVars
  PROVE  /\ VoteInv /\ VoteInv' /\ LogsInv /\ LogsInv' /\ HistoryInv /\ HistoryInv'
         /\ SafeInv /\ SafeInv' /\ \E n \in Node : StepMove(n)
<1>1. LogsIInv /\ LogsIInv'
  BY LogsStep, CommitIsNext DEF HistoryIInv
<1>2. VoteInv /\ VoteInv' /\ LogsInv /\ LogsInv' /\ HistoryInv /\ SafeInv
  BY <1>1 DEF LogsIInv, HistoryIInv, Several
<1>3. PICK n \in Node : StepMove(n)
  BY <1>2, CommitNextMoves
<1>4. HistoryInv'
  BY <1>2, <1>3, HistoryStep
<1>5. SafeInv'
  BY <1>2, <1>3, <1>4, SafeStep
<1> QED BY <1>2, <1>3, <1>4, <1>5

LEMMA HistoryIInvStep == HistoryIInv /\ [CommitNext]_commitVars => HistoryIInv'
<1> SUFFICES ASSUME HistoryIInv, [CommitNext]_commitVars PROVE HistoryIInv'
  OBVIOUS
<1>1. LogsIInv'
  BY LogsStep, CommitIsNext DEF HistoryIInv
<1>2. Several' <=> Several
  BY DEF Several
<1>3. CASE Several
  BY <1>1, <1>2, <1>3, OneMoves DEF HistoryIInv
<1>4. CASE ~Several
  <2>1. Idle'
    BY <1>4, IdleStep DEF HistoryIInv, LogsIInv, VoteInv
  <2> QED BY <1>1, <1>2, <1>4, <2>1 DEF HistoryIInv
<1> QED BY <1>3, <1>4

LEMMA CommitIInvStep ==
  ASSUME CommitIInv, [CommitNext]_commitVars, CommitsCarried, CreditsEarned'
  PROVE  CommitIInv'
<1>1. HistoryIInv'
  BY HistoryIInvStep DEF CommitIInv
<1>2. Several' <=> Several
  BY DEF Several
<1>3. ASSUME Several PROVE ChosenInv'
  <2>1. HistoryIInv /\ ChosenInv
    BY <1>3 DEF CommitIInv
  <2>2. VoteInv /\ VoteInv' /\ HistoryInv /\ HistoryInv' /\ SafeInv
    BY <1>3, <2>1, OneMoves
  <2>3. PICK n \in Node : StepMove(n)
    BY <1>3, <2>1, OneMoves
  <2> QED BY <1>3, <2>1, <2>2, <2>3, ChosenStep
<1> QED BY <1>1, <1>2, <1>3 DEF CommitIInv

LEMMA CommitIInvSafe == CommitIInv => StateMachineSafety /\ LeaderCompleteness /\ panicked = {}
<1> SUFFICES ASSUME CommitIInv PROVE StateMachineSafety /\ LeaderCompleteness /\ panicked = {}
  OBVIOUS
<1>1. VoteInv
  BY DEF CommitIInv, HistoryIInv, LogsIInv
<1>2. CASE Several
  BY <1>1, <1>2, ChosenIsSafe DEF CommitIInv, HistoryIInv, ChosenInv
<1>3. CASE ~Several
  <2>1. Idle
    BY <1>3 DEF CommitIInv, HistoryIInv
  <2>2. StateMachineSafety
    BY <2>1 DEF Idle, StateMachineSafety
  <2>3. LeaderCompleteness
    <3>1. ASSUME NEW n \in Node PROVE 1..least(commit_index[n], Len(log[n])) = {}
      <4>1. Len(log[n]) \in Nat /\ commit_index[n] = 0
        BY <1>1, <2>1, LenProperties DEF VoteInv, TypeOK, Idle
      <4> QED BY <4>1 DEF least
    <3> QED BY <3>1 DEF LeaderCompleteness
  <2> QED BY <2>1, <2>2, <2>3 DEF Idle
<1> QED BY <1>2, <1>3

LEMMA HistoryIInvInherits == HistoryIInv => ChosenInLaterLogs
<1> SUFFICES ASSUME HistoryIInv, NEW t, NEW k, Chosen(k, t) PROVE Inherited(k, t)
  BY DEF ChosenInLaterLogs
<1>1. CASE Several
  BY <1>1, ChosenVouched DEF HistoryIInv
<1>2. CASE ~Several
  <2>1. PICK Q \in SUBSET Node : Cardinality(Q) >= quorumSize /\ \A p \in Q : Acked(p, k, t)
    BY DEF Chosen
  <2>2. PICK p \in Q : TRUE
    BY <2>1, MajoritiesMeet
  <2>3. msgs = {} /\ acked = {}
    BY <1>2 DEF HistoryIInv, Idle
  <2> QED BY <2>1, <2>2, <2>3 DEF Acked, Elected
<1> QED BY <1>1, <1>2

\* What a majority accepted from the leader that wrote it is in the log of
\* every later leader: elections and appending in raft.zig keep Raft's promise
\* whatever becomes of the commit index.
THEOREM ChosenEntriesStay == CommitSpec => []ChosenInLaterLogs
BY CommitIInvInit, HistoryIInvStep, HistoryIInvInherits, PTL DEF CommitSpec

\* No two replicas apply different entries at one index, every later leader
\* has what was committed, and no commit index leaves its log, wherever leaders
\* credit their peers with what these acknowledged and announce no commit index
\* beyond the batch.  Of raft.zig both hold until a client submits
\* (QuietCommitsAreSafe); run raft_lost_commit shows what may happen then.
THEOREM CommitsAreSafe ==
  CommitSpec /\ [](CreditsEarned /\ CommitsCarried)
    => [](StateMachineSafety /\ LeaderCompleteness /\ panicked = {})
<1>1. CommitIInv /\ [CommitNext]_commitVars /\ (CreditsEarned /\ CommitsCarried)
        /\ (CreditsEarned /\ CommitsCarried)' => CommitIInv'
  BY CommitIInvStep
<1> QED BY <1>1, CommitIInvInit, CommitIInvSafe, PTL DEF CommitSpec

-----------------------------------------------------------------------------
(***************************************************************************)
(* No clients.  Where the only entries are the leaders' own and there are  *)
(* no more terms than entries in a batch, a batch always reaches the end   *)
(* of the log, and what the code credits has been acknowledged.            *)
(***************************************************************************)

\* p has acknowledged a request of n in the term n is in.
Answered(p, n) ==
  \E m \in msgs : /\ m.type = "AppendEntriesResponse" /\ m.success
                  /\ m.from = p /\ m.to = n /\ m.term = current_term[n]

\* Whoever stands has a timer for that term.
Stands(n) ==
  state'[n] # "follower" =>
    \/ state[n] # "follower" /\ current_term'[n] = current_term[n]
    \/ <<n, current_term'[n]>> \in ElectionTimers /\ current_term'[n] > current_term[n]

\* A batch is cut at the end of the log, or at its own limit.
SendsFull(n) ==
  \A m \in msgs' \ msgs : m.type = "AppendEntries" =>
    m.prev_log_index + Len(m.entries) = least(m.prev_log_index + MaxEntriesPerRpc, Len(log'[n]))

Replies(n) ==
  \A m \in msgs' \ msgs : (m.type = "AppendEntriesResponse" /\ m.success) =>
    m.from = n /\ \E r \in msgs : Takes(n, r) /\ r.term = m.term

Credits(n) ==
  /\ \A x \in Node \ {n} : peer_states'[x] = peer_states[x]
  /\ state'[n] = "leader" => \A p \in Node \ {n} :
       \/ peer_states'[n][p].match_index = 0
       \/ /\ state[n] = "leader" /\ current_term'[n] = current_term[n]
          /\ peer_states'[n][p].match_index = peer_states[n][p].match_index \/ Answered(p, n)

\* A step of n while no client submits.
QuietMove(n) ==
  /\ (state[n] = "leader" /\ state'[n] = "leader") => log'[n] = log[n]
  /\ Stands(n) /\ SendsFull(n) /\ Replies(n) /\ Credits(n)

-----------------------------------------------------------------------------
(* Each handler makes such a step. *)

LEMMA SliceReaches ==
  ASSUME NEW l \in Seq(LogEntry), NEW next \in 1..(Len(l) + 1)
  PROVE  next - 1 + Len(entriesFrom(l, next)) = least(next - 1 + MaxEntriesPerRpc, Len(l))
<1>1. Len(l) \in Nat /\ next \in Nat \ {0} /\ MaxEntriesPerRpc \in Nat \ {0}
  BY LenProperties, KvRaftAssumption
<1>2. CASE next \in 1..Len(l)
  <2>1. PICK last : last = least(next + MaxEntriesPerRpc - 1, Len(l))
    OBVIOUS
  <2>2. last \in Nat /\ last <= Len(l) /\ next <= last
    BY <1>1, <1>2, <2>1 DEF least
  <2>3. \A i \in next..last : l[i] \in LogEntry
    BY <1>1, <2>2, ElementOfSeq
  <2>4. Len(SubSeq(l, next, last)) = last - next + 1
    BY <1>1, <2>2, <2>3, SubSeqProperties
  <2>5. entriesFrom(l, next) = SubSeq(l, next, last)
    BY <1>2, <2>1 DEF entriesFrom
  <2>6. next - 1 + (last - next + 1) = last
    BY <1>1, <2>2
  <2>7. last = least(next - 1 + MaxEntriesPerRpc, Len(l))
    <3>1. next + MaxEntriesPerRpc - 1 = next - 1 + MaxEntriesPerRpc
      BY <1>1
    <3> QED BY <2>1, <3>1
  <2> QED BY <2>4, <2>5, <2>6, <2>7
<1>3. CASE next \notin 1..Len(l)
  <2>1. next - 1 = Len(l) /\ Len(entriesFrom(l, next)) = 0
    BY <1>1, <1>3 DEF entriesFrom
  <2> QED BY <1>1, <2>1 DEF least
<1> QED BY <1>2, <1>3

LEMMA HeartbeatsFull ==
  ASSUME TypeOK, NEW n \in Node, NEW t, NEW l \in Seq(LogEntry),
         NEW peers \in [Node -> PeerState],
         \A p \in Node \ {n} : peers[p].next_index \in 1..(Len(l) + 1),
         l = log'[n], msgs' = msgs \union heartbeats(n, t, l, peers)
  PROVE  SendsFull(n) /\ Replies(n)
<1>1. ASSUME NEW m \in heartbeats(n, t, l, peers)
      PROVE  /\ m.type = "AppendEntries"
             /\ m.prev_log_index + Len(m.entries) = least(m.prev_log_index + MaxEntriesPerRpc, Len(l))
  <2>1. PICK p \in Node \ {n}, next \in 1..(Len(l) + 1) :
          /\ next = peers[p].next_index
          /\ m.prev_log_index = most(next, 1) - 1 /\ m.entries = entriesFrom(l, next)
          /\ m.type = "AppendEntries"
    BY DEF heartbeats
  <2>2. most(next, 1) = next
    BY LenProperties DEF most
  <2>3. m.prev_log_index = next - 1 /\ m.entries = entriesFrom(l, next)
    BY <2>1, <2>2
  <2>4. next - 1 + Len(entriesFrom(l, next)) = least(next - 1 + MaxEntriesPerRpc, Len(l))
    BY SliceReaches
  <2> QED BY <2>1, <2>3, <2>4
<1> QED BY <1>1 DEF SendsFull, Replies

LEMMA NoBatch ==
  ASSUME NEW n, \A m \in msgs' \ msgs : m.type \notin {"AppendEntries", "AppendEntriesResponse"}
  PROVE  SendsFull(n) /\ Replies(n)
BY DEF SendsFull, Replies

LEMMA TickQuiet ==
  ASSUME VoteInv, Several, LogsInv, NEW n \in Node, Tick(n) PROVE QuietMove(n)
<1>1. TypeOK
  BY DEF VoteInv
<1>2. PICK t \in Nat, l \in Seq(LogEntry), peers \in [Node -> PeerState] :
        t = current_term[n] /\ l = log[n] /\ peers = peer_states[n]
  BY <1>1 DEF TypeOK
<1>3. CASE startElection(n)
  <2>1. Cardinality(Node) # 1
    BY KvRaftAssumption, FS_Singleton, Zenon DEF Several
  <2>2. /\ state' = [state EXCEPT ![n] = "candidate"] /\ <<n, t + 1>> \in ElectionTimers
        /\ current_term' = [current_term EXCEPT ![n] = t + 1]
        /\ msgs' = msgs \union requestVotes(n, t + 1)
    BY <1>2, <1>3, <2>1, Zenon DEF startElection
  <2>3. state'[n] = "candidate" /\ current_term'[n] = t + 1 /\ t + 1 > t
    BY <1>1, <2>2 DEF TypeOK
  <2>4. \A x \in Node \ {n} : peer_states'[x] = peer_states[x]
    BY <1>1, <1>3, <2>1 DEF startElection, TypeOK
  <2>5. SendsFull(n) /\ Replies(n)
    <3>1. \A m \in requestVotes(n, t + 1) : m.type = "RequestVote"
      BY DEF requestVotes
    <3> QED BY <2>2, <3>1, NoBatch
  <2> QED BY <1>2, <2>2, <2>3, <2>4, <2>5 DEF QuietMove, Stands, Credits
<1>4. CASE sendHeartbeats(n)
  <2>1. /\ state[n] = "leader" /\ msgs' = msgs \union heartbeats(n, t, l, peers)
        /\ UNCHANGED <<current_term, state, log, commit_index, peer_states>>
    BY <1>2, <1>4 DEF sendHeartbeats, nodeVars
  <2>2. \A p \in Node \ {n} : peers[p].next_index \in 1..(Len(l) + 1)
    BY <1>2, <2>1 DEF LogsInv, IndexInv, ReplicationIndicesInLog
  <2>3. SendsFull(n) /\ Replies(n)
    BY <1>1, <1>2, <2>1, <2>2, HeartbeatsFull
  <2> QED BY <2>1, <2>3 DEF QuietMove, Stands, Credits
<1>5. CASE noTimeout(n)
  BY <1>5, NoBatch DEF noTimeout, nodeVars, QuietMove, Stands, Credits
<1> QED BY <1>3, <1>4, <1>5 DEF Tick

\* A step that sends no batch, and after which n is in the role and term it was
\* in, or follows.
LEMMA SettledQuiet ==
  ASSUME NEW n, UNCHANGED <<log, peer_states>>, SendsFull(n), Replies(n),
         state'[n] # "follower" => state'[n] = state[n] /\ current_term'[n] = current_term[n]
  PROVE  QuietMove(n)
BY DEF QuietMove, Stands, Credits

LEMMA HandleRequestVoteQuiet ==
  ASSUME VoteInv, NEW m \in msgs, HandleRequestVote(m) PROVE QuietMove(m.to)
<1>1. PICK n \in Node, t \in Nat : n = m.to /\ t = m.term
  BY MessageFields DEF VoteInv
<1>2. PICK u \in Nat : u = current_term[n]
  BY DEF VoteInv, TypeOK
<1>3. /\ current_term' = [current_term EXCEPT ![n] = most(u, t)]
      /\ state' = [state EXCEPT ![n] = IF t > u THEN "follower" ELSE state[n]]
      /\ UNCHANGED <<log, peer_states>>
  BY <1>1, <1>2 DEF HandleRequestVote, grants, VoteInv, TypeOK
<1>4. current_term'[n] = most(u, t) /\ state'[n] = IF t > u THEN "follower" ELSE state[n]
  BY <1>3 DEF VoteInv, TypeOK
<1>5. state'[n] # "follower" => state'[n] = state[n] /\ current_term'[n] = u
  BY <1>4 DEF most
<1>6. SendsFull(n) /\ Replies(n)
  <2>1. PICK granted :
          msgs' = msgs \union {[type |-> "RequestVoteResponse", from |-> n, to |-> m.from,
                                term |-> most(u, t), vote_granted |-> granted]}
    BY <1>1, <1>2 DEF HandleRequestVote, grants
  <2> QED BY <2>1, NoBatch
<1> QED BY <1>1, <1>2, <1>3, <1>5, <1>6, SettledQuiet

LEMMA StepDownQuiet ==
  ASSUME TypeOK, NEW n \in Node, NEW t, stepDown(n, t), UNCHANGED <<log, peer_states, msgs>>
  PROVE  QuietMove(n)
<1>1. state'[n] = "follower"
  BY DEF stepDown, TypeOK
<1>2. SendsFull(n) /\ Replies(n)
  BY NoBatch
<1> QED BY <1>1, <1>2, SettledQuiet

LEMMA HandleRequestVoteResponseQuiet ==
  ASSUME VoteInv, NEW m \in msgs, HandleRequestVoteResponse(m) PROVE QuietMove(m.to)
<1>1. PICK n \in Node, q \in Node, t \in Nat : q # n /\ m.to = n /\ m.from = q /\ m.term = t
  BY MessageFields DEF VoteInv, SentToOthers
<1>2. TypeOK
  BY DEF VoteInv
<1>3. PICK peers :
        \/ stepDown(n, t) /\ UNCHANGED <<log, peer_states, msgs>>
        \/ /\ state[n] = "candidate" /\ UNCHANGED <<current_term, log, state, msgs>>
           /\ peer_states' = [peer_states EXCEPT ![n] = peers]
        \/ /\ state[n] = "candidate"
           /\ becomeLeader(n, current_term[n]) /\ UNCHANGED current_term
  BY <1>1, Zenon DEF HandleRequestVoteResponse
<1>4. CASE stepDown(n, t) /\ UNCHANGED <<log, peer_states, msgs>>
  BY <1>1, <1>2, <1>4, StepDownQuiet
<1>5. CASE /\ state[n] = "candidate" /\ UNCHANGED <<current_term, log, state, msgs>>
           /\ peer_states' = [peer_states EXCEPT ![n] = peers]
  <2>1. \A x \in Node \ {n} : peer_states'[x] = peer_states[x]
    BY <1>2, <1>5 DEF TypeOK
  <2> QED BY <1>1, <1>5, <2>1, NoBatch DEF QuietMove, Stands, Credits
<1>6. CASE /\ state[n] = "candidate"
           /\ becomeLeader(n, current_term[n]) /\ UNCHANGED current_term
  <2>1. PICK u \in Nat, l \in Seq(LogEntry) : u = current_term[n] /\ l = log[n]
    BY <1>2 DEF TypeOK
  <2>2. PICK more : more = appendEntry(l, u, Noop)
    OBVIOUS
  <2>3. /\ state'[n] = "leader" /\ msgs' = msgs \union heartbeats(n, u, more, freshPeers(l))
        /\ log'[n] = more /\ peer_states'[n] = freshPeers(l)
        /\ \A x \in Node \ {n} : peer_states'[x] = peer_states[x]
    BY <1>2, <1>6, <2>1, <2>2 DEF becomeLeader, TypeOK
  <2>4. more \in Seq(LogEntry) /\ Len(more) = Len(l) + 1 /\ Len(l) \in Nat
    <3>1. more \in Seq(LogEntry) /\ Hi(Whole(more)) = Hi(Whole(l)) + 1
      BY <2>2, AppendContinues DEF Continues
    <3> QED BY <3>1, WholeType
  <2>5. /\ freshPeers(l) \in [Node -> PeerState]
        /\ \A p \in Node : freshPeers(l)[p].next_index = Len(l) + 1 /\ freshPeers(l)[p].match_index = 0
    BY FreshPeersType DEF freshPeers
  <2>6. \A p \in Node \ {n} : freshPeers(l)[p].next_index \in 1..(Len(more) + 1)
    BY <2>4, <2>5
  <2>7. SendsFull(n) /\ Replies(n)
    BY <1>2, <2>3, <2>4, <2>5, <2>6, HeartbeatsFull
  <2> QED BY <1>1, <1>6, <2>3, <2>5, <2>7 DEF QuietMove, Stands, Credits
<1> QED BY <1>3, <1>4, <1>5, <1>6

LEMMA HandleAppendEntriesQuiet ==
  ASSUME VoteInv, NEW m \in msgs, HandleAppendEntries(m),
         acked' = acked \union acknowledged(m), noteLed(m.to)
  PROVE  QuietMove(m.to)
<1>1. PICK n \in Node, t \in Nat : m.to = n /\ m.term = t
  BY MessageFields DEF VoteInv
<1>2. m.type = "AppendEntries" /\ m \in AppendEntriesRequest /\ TypeOK
  BY MessageFields DEF HandleAppendEntries, reaches, VoteInv
<1>3. PICK u \in Nat : u = current_term[n]
  BY <1>2 DEF TypeOK
<1>4. peer_states' = peer_states
  BY DEF HandleAppendEntries, nodeVars
<1>5. PICK r : /\ msgs' = msgs \union {r} /\ r.type = "AppendEntriesResponse" /\ r.from = n
               /\ r.success => r.term = t /\ accepts(m)
  <2> DEFINE answer(term, success, index, conflict) ==
               [type |-> "AppendEntriesResponse", from |-> n, to |-> m.from, term |-> term,
                success |-> success, conflict_index |-> index, conflict_term |-> conflict]
  <2>1. \/ msgs' = msgs \union {answer(current_term[n], FALSE, 0, 0)}
        \/ msgs' = msgs \union {answer(t, FALSE, Len(log[n]) + 1, 0)}
        \/ msgs' = msgs \union {answer(t, FALSE, firstOfRun(log[n], m.prev_log_index),
                                       getTermAt(log[n], m.prev_log_index))}
        \/ /\ msgs' = msgs \union {answer(t, TRUE, 0, 0)}
           /\ m.term >= current_term[n] /\ ~(m.prev_log_index > Len(log[n])) /\ ~mismatch(log[n], m)
    BY <1>1 DEF HandleAppendEntries
  <2>2. ~(m.prev_log_index > Len(log[n])) => m.prev_log_index <= Len(log[n])
    BY <1>2, LenProperties DEF TypeOK, AppendEntriesRequest
  <2>3. \A term, index, conflict :
          /\ answer(term, FALSE, index, conflict).type = "AppendEntriesResponse"
          /\ answer(term, FALSE, index, conflict).from = n
          /\ ~answer(term, FALSE, index, conflict).success
    OBVIOUS
  <2>4. /\ answer(t, TRUE, 0, 0).type = "AppendEntriesResponse"
        /\ answer(t, TRUE, 0, 0).from = n /\ answer(t, TRUE, 0, 0).term = t
    OBVIOUS
  <2> HIDE DEF answer
  <2>5. CASE \E term, index, conflict : msgs' = msgs \union {answer(term, FALSE, index, conflict)}
    BY <2>3, <2>5
  <2>6. CASE /\ msgs' = msgs \union {answer(t, TRUE, 0, 0)}
             /\ m.term >= current_term[n] /\ ~(m.prev_log_index > Len(log[n])) /\ ~mismatch(log[n], m)
    <3>1. accepts(m)
      BY <1>1, <2>2, <2>6 DEF accepts
    <3> QED BY <2>4, <2>6, <3>1
  <2> QED BY <2>1, <2>5, <2>6
<1>6. SendsFull(n) /\ Replies(n)
  <2>1. r.success => Takes(n, m)
    BY <1>1, <1>5, AcceptedTakes
  <2> QED BY <1>1, <1>5, <2>1 DEF SendsFull, Replies
<1>7. CASE UNCHANGED <<current_term, state, log>>
  BY <1>1, <1>4, <1>6, <1>7 DEF QuietMove, Stands, Credits
<1>8. CASE state'[n] = "follower"
  BY <1>1, <1>4, <1>6, <1>8 DEF QuietMove, Stands, Credits
<1>9. UNCHANGED <<current_term, state, log>> \/ state'[n] = "follower"
  <2>1. \/ UNCHANGED nodeVars
        \/ /\ t >= u
           /\ stepDown(n, t) \/ (~mustStepDown(n, t) /\ UNCHANGED <<current_term, state>>)
    BY <1>1, <1>3 DEF HandleAppendEntries
  <2>2. stepDown(n, t) => state'[n] = "follower"
    BY <1>2 DEF stepDown, TypeOK
  <2>3. ~mustStepDown(n, t) => state[n] = "follower"
    BY DEF mustStepDown
  <2> QED BY <2>1, <2>2, <2>3 DEF nodeVars
<1> QED BY <1>7, <1>8, <1>9

LEMMA HandleAppendEntriesResponseQuiet ==
  ASSUME VoteInv, NEW m \in msgs, HandleAppendEntriesResponse(m) PROVE QuietMove(m.to)
<1>1. PICK n \in Node, t \in Nat, q \in Node : m.to = n /\ m.term = t /\ m.from = q /\ q # n
  BY MessageFields DEF VoteInv, SentToOthers
<1>2. TypeOK /\ m.type = "AppendEntriesResponse"
  BY DEF VoteInv, HandleAppendEntriesResponse, reaches
<1>3. state[n] = "leader" /\ UNCHANGED <<log, msgs>> /\ SendsFull(n) /\ Replies(n)
  BY <1>1, NoBatch DEF HandleAppendEntriesResponse
<1> DEFINE peer == peer_states[n][q]
           match == new_match(peer, Len(log[n]))
           credited == [peer_states[n] EXCEPT ![q].match_index = match,
                                              ![q].next_index = match + 1]
           resumed == [peer_states EXCEPT ![n][q].next_index =
                         most(1, backtrack(log[n], m.conflict_index, m.conflict_term))]
<1>4. \/ stepDown(n, t) /\ UNCHANGED peer_states
      \/ /\ t = current_term[n] /\ m.success /\ UNCHANGED <<current_term, state>>
         /\ peer_states' = [peer_states EXCEPT ![n] = credited]
      \/ UNCHANGED <<current_term, state>> /\ peer_states' = resumed
  BY <1>1, Zenon DEF HandleAppendEntriesResponse
<1>5. \A p \in Node \ {q} : credited[p] = peer_states[n][p]
  BY <1>2 DEF TypeOK
<1>6. /\ \A x \in Node \ {n} : resumed[x] = peer_states[x]
      /\ \A p \in Node : resumed[n][p].match_index = peer_states[n][p].match_index
  BY <1>2 DEF TypeOK, PeerState
<1> HIDE DEF credited, resumed
<1>7. CASE stepDown(n, t) /\ UNCHANGED peer_states
  BY <1>1, <1>2, <1>3, <1>7, StepDownQuiet
<1>8. CASE /\ t = current_term[n] /\ m.success /\ UNCHANGED <<current_term, state>>
           /\ peer_states' = [peer_states EXCEPT ![n] = credited]
  <2>1. /\ \A x \in Node \ {n} : peer_states'[x] = peer_states[x]
        /\ \A p \in Node \ {q} : peer_states'[n][p] = peer_states[n][p]
    BY <1>2, <1>5, <1>8 DEF TypeOK
  <2>2. Answered(q, n)
    BY <1>1, <1>2, <1>8 DEF Answered
  <2> QED BY <1>1, <1>3, <1>8, <2>1, <2>2 DEF QuietMove, Stands, Credits
<1>9. CASE UNCHANGED <<current_term, state>> /\ peer_states' = resumed
  BY <1>1, <1>3, <1>6, <1>9 DEF QuietMove, Stands, Credits
<1> QED BY <1>4, <1>7, <1>8, <1>9

\* While no client submits, some node makes such a step.
LEMMA CommitNextQuiet ==
  ASSUME Command = {}, VoteInv, VoteInv', Several, LogsInv, LogsInv', HistoryInv,
         [CommitNext]_commitVars
  PROVE  \E n \in Node : StepMove(n) /\ QuietMove(n)
<1>1. ASSUME NEW m \in msgs PROVE m.to \in Node
  BY MessageFields DEF VoteInv
<1>2. CASE CommitNext
  BY <1>1, <1>2, TickStepMove, HandleRequestVoteStepMove, HandleRequestVoteResponseStepMove,
     HandleAppendEntriesStepMove, HandleAppendEntriesResponseStepMove, TickQuiet,
     HandleRequestVoteQuiet, HandleRequestVoteResponseQuiet, HandleAppendEntriesQuiet,
     HandleAppendEntriesResponseQuiet DEF CommitNext
<1>3. CASE UNCHANGED commitVars
  <2>1. UNCHANGED <<current_term, state, log, peer_states, msgs>>
    BY <1>3 DEF commitVars, vars, nodeVars
  <2>2. PICK n \in Node : StepMove(n)
    BY CommitNextMoves
  <2>3. QuietMove(n)
    BY <2>1, NoBatch, SettledQuiet
  <2> QED BY <2>2, <2>3
<1> QED BY <1>2, <1>3

-----------------------------------------------------------------------------
(* The inductive invariant. *)

\* Whoever stands or leads is in a term no larger than a batch.
Standing ==
  \A x \in Node : state[x] # "follower" => current_term[x] \in 1..MaxEntriesPerRpc

\* No log of a leader is longer than its term, nor than a batch.
LedShort ==
  \A t \in DOMAIN led : t <= MaxEntriesPerRpc /\ \A i \in 1..Len(led[t]) : i <= led[t][i].term

\* Every batch reaches the end of its leader's log, which no step extends.
RequestsWhole ==
  \A m \in Requests : /\ m.prev_log_index + Len(m.entries) = Len(led[m.term])
                      /\ m.leader_commit <= Len(led[m.term])

\* Hence a success acknowledges all of that log.
AnswersWhole ==
  \A m \in msgs : (m.type = "AppendEntriesResponse" /\ m.success) =>
    m.term \in DOMAIN led /\ <<m.from, m.term, Len(led[m.term])>> \in acked

QuietInv == Standing /\ LedShort /\ RequestsWhole /\ AnswersWhole /\ CreditsEarned

-----------------------------------------------------------------------------
(* QuietInv is kept. *)

LEMMA LedIsShort ==
  ASSUME HistoryInv, LedShort, NEW t \in DOMAIN led
  PROVE  Len(led[t]) \in Nat /\ Len(led[t]) <= t /\ Len(led[t]) <= MaxEntriesPerRpc
<1>1. /\ led[t] \in Seq(LogEntry) /\ Len(led[t]) > 0 /\ led[t][Len(led[t])].term = t /\ t \in Nat
  BY DEF HistoryInv, Ledger
<1>2. PICK k \in Nat : k = Len(led[t]) /\ k \in 1..Len(led[t])
  BY <1>1, LenProperties
<1>3. k <= t /\ t <= MaxEntriesPerRpc
  BY <1>1, <1>2 DEF LedShort
<1> QED BY <1>1, <1>2, <1>3, KvRaftAssumption

LedBounded == \A t \in DOMAIN led : Len(led[t]) \in Nat /\ Len(led[t]) <= MaxEntriesPerRpc

LEMMA ShortIsBounded == HistoryInv /\ LedShort => LedBounded
BY LedIsShort DEF LedBounded

\* The log of a term's leader, once there is one, stays as it is.
LEMMA LedFixed ==
  ASSUME VoteInv, VoteInv', Several, HistoryInv, NEW n \in Node, StepMove(n), QuietMove(n)
  PROVE  /\ Appends(n) => current_term[n] \notin DOMAIN led /\ state[n] = "candidate"
         /\ \A t \in DOMAIN led : t \in DOMAIN led' /\ led'[t] = led[t]
         /\ acked \subseteq acked'
<1>1. ASSUME Appends(n)
      PROVE  /\ current_term[n] \notin DOMAIN led /\ state[n] = "candidate"
             /\ \A t \in DOMAIN led : t \in DOMAIN led' /\ led'[t] = led[t]
  <2>1. log'[n] # log[n]
    <3>1. Len(log[n]) \in Nat /\ Len(log'[n]) = Len(log[n]) + 1
      BY <1>1, AppendsLed
    <3> QED BY <3>1
  <2>2. state'[n] = "leader" /\ (state[n] = "leader" \/ state[n] = "candidate")
    BY <1>1 DEF Appends
  <2>3. state[n] # "leader"
    BY <2>1, <2>2 DEF QuietMove
  <2>4. current_term[n] \notin DOMAIN led
    <3>1. PICK t \in Nat, l \in Seq(LogEntry), more \in Seq(LogEntry) :
             /\ t = current_term[n] /\ l = log[n] /\ more = log'[n]
             /\ \A x \in Node \ {n} : log'[x] = log[x]
             /\ t \in DOMAIN led => led[t] = l
             /\ state[n] = "leader" \/ t \notin DOMAIN led
             /\ Ledger(led') /\ Grows(led, led') /\ led'[t] = more
             /\ DOMAIN led' = DOMAIN led \union {t}
             /\ \A u \in DOMAIN led \ {t} : led'[u] = led[u]
             /\ led' = [u \in DOMAIN led' |-> led'[u]]
             /\ Len(more) = Len(l) + 1 /\ Len(l) \in Nat
             /\ SameTo(l, more, Len(l)) /\ more[Len(l) + 1].term = t
      BY <1>1, AppendsGrow
    <3> QED BY <2>3, <3>1
  <2>5. /\ DOMAIN led' = DOMAIN led \union {current_term[n]}
        /\ \A u \in DOMAIN led \ {current_term[n]} : led'[u] = led[u]
    BY <1>1, AppendsLed
  <2> QED BY <2>2, <2>3, <2>4, <2>5
<1>2. ~Appends(n) => led' = led
  BY DEF StepMove, LogMove, Keeps, Accepts, Takes
<1>3. acked \subseteq acked'
  BY DEF StepMove, LogMove, Keeps, Appends, Accepts, Takes
<1> QED BY <1>1, <1>2, <1>3

LEMMA StandingStep ==
  ASSUME \A e \in ElectionTimers : e[2] <= MaxEntriesPerRpc, VoteInv, VoteInv', Several, HistoryInv,
         NEW n \in Node, StepMove(n), QuietMove(n), Standing
  PROVE  Standing'
<1> SUFFICES ASSUME NEW x \in Node, state'[x] # "follower"
             PROVE  current_term'[x] \in 1..MaxEntriesPerRpc
  BY DEF Standing
<1>1. CASE x # n
  BY <1>1, StepGrows DEF Standing
<1>2. CASE x = n
  <2>1. current_term[n] \in Nat /\ current_term'[n] \in Nat /\ MaxEntriesPerRpc \in Nat
    BY StepGrows, KvRaftAssumption
  <2>2. CASE state[n] # "follower" /\ current_term'[n] = current_term[n]
    BY <1>2, <2>2 DEF Standing
  <2>3. CASE <<n, current_term'[n]>> \in ElectionTimers /\ current_term'[n] > current_term[n]
    <3>1. PICK e : e = <<n, current_term'[n]>> /\ e \in ElectionTimers /\ e[2] = current_term'[n]
      BY <2>3
    <3>2. current_term'[n] <= MaxEntriesPerRpc
      BY <3>1
    <3> QED BY <1>2, <2>1, <2>3, <3>2
  <2> QED BY <1>2, <2>2, <2>3 DEF QuietMove, Stands
<1> QED BY <1>1, <1>2

LEMMA LedShortStep ==
  ASSUME VoteInv, VoteInv', Several, HistoryInv, NEW n \in Node, StepMove(n), QuietMove(n),
         Standing, LedShort
  PROVE  LedShort'
<1> SUFFICES ASSUME NEW u \in DOMAIN led'
             PROVE  u <= MaxEntriesPerRpc /\ \A i \in 1..Len(led'[u]) : i <= led'[u][i].term
  BY DEF LedShort
<1>1. CASE u \in DOMAIN led
  <2>1. led'[u] = led[u]
    BY <1>1, LedFixed
  <2> QED BY <1>1, <2>1 DEF LedShort
<1>2. CASE u \notin DOMAIN led
  <2>1. Appends(n)
    BY <1>2 DEF StepMove, LogMove, Keeps, Accepts, Takes
  <2>2. PICK t \in Nat, l \in Seq(LogEntry), more \in Seq(LogEntry) :
           /\ t = current_term[n] /\ l = log[n] /\ more = log'[n]
           /\ \A x \in Node \ {n} : log'[x] = log[x]
           /\ t \in DOMAIN led => led[t] = l
           /\ state[n] = "leader" \/ t \notin DOMAIN led
           /\ Ledger(led') /\ Grows(led, led') /\ led'[t] = more
           /\ DOMAIN led' = DOMAIN led \union {t}
           /\ \A v \in DOMAIN led \ {t} : led'[v] = led[v]
           /\ led' = [v \in DOMAIN led' |-> led'[v]]
           /\ Len(more) = Len(l) + 1 /\ Len(l) \in Nat
           /\ SameTo(l, more, Len(l)) /\ more[Len(l) + 1].term = t
    BY <2>1, AppendsGrow
  <2>3. u = t /\ t \notin DOMAIN led
    BY <1>2, <2>2
  <2>4. t \in 1..MaxEntriesPerRpc
    <3>1. state[n] # "follower"
      BY <2>1 DEF Appends
    <3> QED BY <2>2, <3>1 DEF Standing
  <2>5. ASSUME NEW i \in 1..Len(l)
        PROVE  more[i] = l[i] /\ l[i].term \in Nat /\ i <= l[i].term /\ l[i].term < t
    <3>1. /\ l[i].term <= t /\ l[i].term \in DOMAIN led /\ SameTo(l, led[l[i].term], i)
      BY <2>2 DEF HistoryInv, LogsFromLed, FromLed
    <3>2. PICK v \in Nat : v = l[i].term /\ v \in DOMAIN led
      BY <3>1 DEF HistoryInv, Ledger
    <3>3. i \in Nat /\ i > 0 /\ i \in 1..i
      BY <2>2
    <3>4. led[v][i] = l[i] /\ i <= Len(led[v]) /\ Len(led[v]) \in Nat
      BY <3>1, <3>2, <3>3, LedIsShort DEF SameTo
    <3>5. i <= led[v][i].term
      BY <3>2, <3>3, <3>4 DEF LedShort
    <3>6. v # t
      BY <2>3, <3>2
    <3> QED BY <2>2, <3>1, <3>2, <3>4, <3>5, <3>6 DEF SameTo
  <2>6. Len(l) + 1 <= t
    <3>1. CASE Len(l) = 0
      BY <2>4, <3>1
    <3>2. CASE Len(l) # 0
      <4>1. Len(l) \in 1..Len(l)
        BY <2>2, <3>2
      <4>2. l[Len(l)].term \in Nat /\ Len(l) <= l[Len(l)].term /\ l[Len(l)].term < t
        BY <2>5, <4>1
      <4> QED BY <2>2, <4>2
    <3> QED BY <3>1, <3>2
  <2>7. ASSUME NEW i \in 1..Len(more) PROVE i <= more[i].term
    <3>1. CASE i \in 1..Len(l)
      BY <2>5, <3>1
    <3>2. CASE i = Len(l) + 1
      BY <2>2, <2>6, <3>2
    <3> QED BY <2>2, <3>1, <3>2
  <2>8. u <= MaxEntriesPerRpc
    BY <2>3, <2>4
  <2> QED BY <2>2, <2>3, <2>7, <2>8
<1> QED BY <1>1, <1>2

LEMMA RequestsWholeStep ==
  ASSUME VoteInv, VoteInv', Several, HistoryInv, HistoryInv', CommitInv, NEW n \in Node,
         StepMove(n), QuietMove(n), LedShort', RequestsWhole
  PROVE  RequestsWhole'
<1> SUFFICES ASSUME NEW m \in msgs', m.type = "AppendEntries"
             PROVE  /\ m.prev_log_index + Len(m.entries) = Len(led'[m.term])
                    /\ m.leader_commit <= Len(led'[m.term])
  BY DEF RequestsWhole, Requests
<1>1. CASE m \in msgs
  <2>1. m \in Requests /\ m.term \in DOMAIN led
    BY <1>1 DEF Requests, HistoryInv, RequestsFromLed
  <2>2. led'[m.term] = led[m.term]
    BY <2>1, LedFixed
  <2> QED BY <2>1, <2>2 DEF RequestsWhole
<1>2. CASE m \notin msgs
  <2>1. m \in AppendEntriesRequest
    <3>1. msgs' \subseteq Message
      BY DEF VoteInv, TypeOK
    <3> QED BY <3>1 DEF Message, RequestVoteRequest, RequestVoteResponse, AppendEntriesResponse
  <2>2. SendsBatch(n, m)
    BY <1>2 DEF StepMove, SendMove, SendsBallot, SendsVote
  <2>3. PICK t \in Nat, l \in Seq(LogEntry) :
          /\ t = m.term /\ t = current_term'[n] /\ l = log'[n]
          /\ state'[n] = "leader" /\ m.leader_commit = commit_index[n]
    BY <2>2 DEF SendsBatch, VoteInv, TypeOK
  <2>4. t \in DOMAIN led' /\ led'[t] = l
    BY <2>3 DEF HistoryInv, LeaderLed
  <2>5. Len(l) \in Nat /\ Len(l) <= MaxEntriesPerRpc
    <3>1. LedBounded'
      BY ShortIsBounded, PTL
    <3> QED BY <2>4, <3>1 DEF LedBounded
  <2>6. m.prev_log_index + Len(m.entries) = Len(l)
    <3>1. m.prev_log_index + Len(m.entries) = least(m.prev_log_index + MaxEntriesPerRpc, Len(l))
      BY <1>2, <2>3 DEF QuietMove, SendsFull
    <3>2. PICK prev \in Nat : prev = m.prev_log_index
      BY <2>1 DEF AppendEntriesRequest
    <3>3. least(prev + MaxEntriesPerRpc, Len(l)) = Len(l)
      BY <2>5, <3>2, KvRaftAssumption DEF least
    <3> QED BY <3>1, <3>2, <3>3
  <2>7. m.leader_commit <= Len(l)
    <3>1. PICK c \in Nat, k \in Nat : c = commit_index[n] /\ k = Len(log[n]) /\ c <= k
      BY CommitInLog, LenProperties DEF VoteInv, TypeOK
    <3>2. k <= Len(l)
      <4>1. CASE Appends(n)
        BY <2>3, <3>1, <4>1, AppendsLed DEF SameTo
      <4>2. CASE Keeps(n)
        BY <2>3, <3>1, <4>2 DEF Keeps
      <4>3. ~Accepts(n)
        BY <2>3 DEF Accepts, Takes
      <4> QED BY <4>1, <4>2, <4>3 DEF StepMove, LogMove
    <3> QED BY <2>3, <2>5, <3>1, <3>2
  <2> QED BY <2>3, <2>4, <2>6, <2>7
<1> QED BY <1>1, <1>2

LEMMA AnswersWholeStep ==
  ASSUME VoteInv, VoteInv', Several, HistoryInv, NEW n \in Node, StepMove(n), QuietMove(n),
         RequestsWhole, AnswersWhole
  PROVE  AnswersWhole'
<1> SUFFICES ASSUME NEW m \in msgs', m.type = "AppendEntriesResponse", m.success
             PROVE  m.term \in DOMAIN led' /\ <<m.from, m.term, Len(led'[m.term])>> \in acked'
  BY DEF AnswersWhole
<1>1. CASE m \in msgs
  BY <1>1, LedFixed DEF AnswersWhole
<1>2. CASE m \notin msgs
  <2>1. PICK r \in msgs : m.from = n /\ Takes(n, r) /\ r.term = m.term
    BY <1>2 DEF QuietMove, Replies
  <2>2. r \in Requests
    BY <2>1 DEF Takes, Requests
  <2>3. r.term \in DOMAIN led /\ r.prev_log_index + Len(r.entries) = Len(led[r.term])
    BY <2>2 DEF RequestsWhole, HistoryInv, RequestsFromLed
  <2>4. led' = led /\ acked' = acked \union {<<n, r.term, r.prev_log_index + Len(r.entries)>>}
    BY <2>1 DEF Takes
  <2> QED BY <2>1, <2>3, <2>4
<1> QED BY <1>1, <1>2

LEMMA CreditsEarnedStep ==
  ASSUME VoteInv, VoteInv', Several, LogsInv', HistoryInv, HistoryInv', NEW n \in Node,
         StepMove(n), QuietMove(n), AnswersWhole, CreditsEarned
  PROVE  CreditsEarned'
<1> SUFFICES ASSUME NEW x \in Node, NEW p \in Node, state'[x] = "leader", p # x,
                    peer_states'[x][p].match_index > 0
             PROVE  \E a \in acked' : /\ a[1] = p /\ a[2] = current_term'[x]
                                      /\ peer_states'[x][p].match_index <= a[3]
  BY DEF CreditsEarned
<1>1. acked \subseteq acked'
  BY LedFixed
<1>2. ASSUME state[x] = "leader", current_term'[x] = current_term[x],
             peer_states'[x][p].match_index = peer_states[x][p].match_index
      PROVE  \E a \in acked' : /\ a[1] = p /\ a[2] = current_term'[x]
                               /\ peer_states'[x][p].match_index <= a[3]
  BY <1>1, <1>2 DEF CreditsEarned
<1>3. CASE x # n
  BY <1>2, <1>3, StepGrows DEF QuietMove, Credits
<1>4. CASE x = n
  <2>1. PICK match \in Nat : match = peer_states'[n][p].match_index /\ match > 0
    BY <1>4 DEF VoteInv, TypeOK, PeerState
  <2>2. /\ state[n] = "leader" /\ current_term'[n] = current_term[n]
        /\ match = peer_states[n][p].match_index \/ Answered(p, n)
    BY <1>4, <2>1 DEF QuietMove, Credits
  <2>3. CASE match = peer_states[n][p].match_index
    BY <1>2, <1>4, <2>1, <2>2, <2>3
  <2>4. CASE Answered(p, n)
    <3>1. PICK t \in DOMAIN led : t = current_term[n] /\ <<p, t, Len(led[t])>> \in acked
      BY <2>4 DEF Answered, AnswersWhole
    <3>2. led'[t] = led[t] /\ led'[t] = log'[n]
      <4>1. led'[current_term'[n]] = log'[n]
        BY <1>4 DEF HistoryInv, LeaderLed
      <4> QED BY <2>2, <3>1, <4>1, LedFixed
    <3>3. match <= Len(log'[n])
      BY <1>4, <2>1, LenProperties DEF LogsInv, IndexInv, ReplicationIndicesInLog, VoteInv, TypeOK
    <3>4. PICK a : /\ a = <<p, t, Len(led[t])>> /\ a \in acked'
                   /\ a[1] = p /\ a[2] = t /\ a[3] = Len(led[t])
      BY <1>1, <3>1
    <3>5. match <= a[3] /\ a[2] = current_term'[n]
      BY <2>2, <3>1, <3>2, <3>3, <3>4
    <3> QED BY <1>4, <2>1, <3>4, <3>5
  <2> QED BY <2>2, <2>3, <2>4
<1> QED BY <1>3, <1>4

LEMMA QuietInvStep ==
  ASSUME \A e \in ElectionTimers : e[2] <= MaxEntriesPerRpc, VoteInv, VoteInv', Several,
         LogsInv', HistoryInv, HistoryInv', CommitInv, NEW n \in Node, StepMove(n), QuietMove(n),
         QuietInv
  PROVE  QuietInv'
<1>1. Standing' /\ LedShort'
  BY StandingStep, LedShortStep DEF QuietInv
<1>2. RequestsWhole' /\ AnswersWhole' /\ CreditsEarned'
  BY <1>1, RequestsWholeStep, AnswersWholeStep, CreditsEarnedStep DEF QuietInv
<1> QED BY <1>1, <1>2 DEF QuietInv

LEMMA QuietInvInit == CommitInit => QuietInv
<1> SUFFICES ASSUME CommitInit PROVE QuietInv
  OBVIOUS
<1>1. /\ msgs = {} /\ DOMAIN led = {} /\ \A x \in Node : state[x] = "follower"
  BY DEF CommitInit, Init
<1> QED BY <1>1 DEF QuietInv, Standing, LedShort, RequestsWhole, Requests, AnswersWhole, CreditsEarned

LEMMA QuietCarries == ASSUME VoteInv, QuietInv PROVE CreditsEarned /\ CommitsCarried
<1> SUFFICES ASSUME NEW m \in msgs, m.type = "AppendEntries"
             PROVE  m.leader_commit <= m.prev_log_index + Len(m.entries)
  BY DEF QuietInv, CommitsCarried
<1> QED BY DEF QuietInv, RequestsWhole, Requests

-----------------------------------------------------------------------------
(* The theorem. *)

QuietIInv == CommitIInv /\ (Several => QuietInv)

LEMMA QuietIInvStep ==
  ASSUME Command = {}, \A e \in ElectionTimers : e[2] <= MaxEntriesPerRpc,
         QuietIInv, [CommitNext]_commitVars
  PROVE  QuietIInv'
<1>1. HistoryIInv' /\ (Several' <=> Several)
  BY HistoryIInvStep DEF QuietIInv, CommitIInv, Several
<1>2. CASE Several
  <2>1. CommitIInv /\ HistoryIInv /\ ChosenInv /\ QuietInv
    BY <1>2 DEF QuietIInv, CommitIInv
  <2>2. VoteInv /\ VoteInv' /\ LogsInv /\ LogsInv' /\ HistoryInv /\ HistoryInv'
    BY <1>2, <2>1, OneMoves
  <2>3. PICK n \in Node : StepMove(n) /\ QuietMove(n)
    BY <1>2, <2>2, CommitNextQuiet
  <2>4. QuietInv'
    BY <1>2, <2>1, <2>2, <2>3, QuietInvStep DEF ChosenInv
  <2>5. CommitsCarried /\ CreditsEarned'
    BY <2>1, <2>2, <2>4, QuietCarries DEF QuietInv
  <2>6. CommitIInv'
    BY <2>1, <2>5, CommitIInvStep
  <2> QED BY <2>4, <2>6 DEF QuietIInv
<1>3. CASE ~Several
  BY <1>1, <1>3 DEF QuietIInv, CommitIInv
<1> QED BY <1>2, <1>3

LEMMA QuietIInvEarned == QuietIInv => CreditsEarned /\ CommitsCarried
<1> SUFFICES ASSUME QuietIInv PROVE CreditsEarned /\ CommitsCarried
  OBVIOUS
<1>1. VoteInv
  BY DEF QuietIInv, CommitIInv, HistoryIInv, LogsIInv
<1>2. CASE Several
  BY <1>1, <1>2, QuietCarries DEF QuietIInv
<1>3. CASE ~Several
  <2>1. msgs = {}
    BY <1>3 DEF QuietIInv, CommitIInv, HistoryIInv, Idle
  <2>2. CommitsCarried
    BY <2>1 DEF CommitsCarried
  <2>3. \A x, p \in Node : p = x
    BY <1>3 DEF Several
  <2> QED BY <2>2, <2>3 DEF CreditsEarned
<1> QED BY <1>2, <1>3

\* Where no client submits and no term is stood for that is larger than a batch,
\* what raft.zig guesses is right: a leader credits its peers with what they
\* acknowledged, and replicas apply the same entries, which all later leaders have.
THEOREM QuietCommitsAreSafe ==
  ASSUME Command = {}, \A e \in ElectionTimers : e[2] <= MaxEntriesPerRpc
  PROVE  CommitSpec => [](/\ CreditsEarned /\ CommitsCarried
                          /\ StateMachineSafety /\ LeaderCompleteness /\ panicked = {})
<1>1. CommitInit => QuietIInv
  BY CommitIInvInit, QuietInvInit DEF QuietIInv
<1>2. QuietIInv /\ [CommitNext]_commitVars => QuietIInv'
  BY QuietIInvStep
<1>3. QuietIInv => /\ CreditsEarned /\ CommitsCarried
                   /\ StateMachineSafety /\ LeaderCompleteness /\ panicked = {}
  BY QuietIInvEarned, CommitIInvSafe DEF QuietIInv
<1> QED BY <1>1, <1>2, <1>3, PTL DEF CommitSpec
=============================================================================
