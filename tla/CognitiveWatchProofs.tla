------------------------ MODULE CognitiveWatchProofs ------------------------
(***************************************************************************)
(* Proofs about CognitiveWatch, for any number of sessions and records,    *)
(* any frames and any run of failures and restarts: what the table holds,  *)
(* that the counters of probe and watcher account for every write, and,    *)
(* for frames of any glyphs and any length, that a frame is read by its    *)
(* words alone.                                                            *)
(***************************************************************************)
EXTENDS CognitiveWatch, FiniteSetTheorems, FunctionTheorems, SequenceTheorems, TLAPS

-----------------------------------------------------------------------------
(* Types. *)

Record == [by : Thread, frame : Frames, ready : BOOLEAN]
Steps == {"out", "detected", "filling", "counted", "latest"}

TypeInv ==
  /\ ring \in Seq(Record)
  /\ step \in [Thread -> Steps]
  /\ probes \in [Thread -> Frames \union {Nil}]
  /\ tracker = [current_thinking_state |-> tracker.current_thinking_state,
                state_start_time |-> tracker.state_start_time,
                tool_execution_count |-> tracker.tool_execution_count,
                tool_names |-> tracker.tool_names, is_active |-> tracker.is_active]
  /\ tracker.is_active \in BOOLEAN
  /\ count \in [events : Nat, saved : Nat, deduped : Nat]
  /\ stats \in [seen : Nat, claude : Nat, emitted : Nat]
  /\ {failed, dropped, abandoned, ended} \subseteq Nat

LEMMA OneType == \A b \in BOOLEAN : One(b) \in Nat /\ (b => One(b) = 1) /\ (~b => One(b) = 0)
BY DEF One

LEMMA InitTypes == Init => TypeInv
<1>. SUFFICES ASSUME Init PROVE TypeInv
  OBVIOUS
<1>1. ring \in Seq(Record)
  BY DEF Init
<1>2. probes \in [Thread -> Frames \union {Nil}] /\ step \in [Thread -> Steps]
  BY DEF Init, Steps
<1>3. /\ count \in [events : Nat, saved : Nat, deduped : Nat]
      /\ stats \in [seen : Nat, claude : Nat, emitted : Nat]
      /\ {failed, dropped, abandoned, ended} \subseteq Nat
  BY DEF Init, NoCount, NoStats
<1>. QED  BY <1>1, <1>2, <1>3 DEF Init, NoState, TypeInv

LEMMA HeadTypes ==
  ASSUME TypeInv, ring # <<>>
  PROVE  /\ Head(ring) \in Record /\ Tail(ring) \in Seq(Record)
         /\ Head(ring).frame \in Frames
<1>1. Head(ring) \in Record /\ Tail(ring) \in Seq(Record)
  BY DEF TypeInv
<1>. QED  BY <1>1 DEF Record

\* What saving a frame, of either kind and by either watcher, leaves in its types.
SavedTypes ==
  /\ tracker' = [current_thinking_state |-> tracker'.current_thinking_state,
                 state_start_time |-> tracker'.state_start_time,
                 tool_execution_count |-> tracker'.tool_execution_count,
                 tool_names |-> tracker'.tool_names, is_active |-> tracker'.is_active]
  /\ tracker'.is_active \in BOOLEAN
  /\ count' \in [events : Nat, saved : Nat, deduped : Nat]
  /\ {failed', ended'} \subseteq Nat

LEMMA FrameTypes ==
  ASSUME TypeInv, NEW b, NEW ok \in BOOLEAN, save_frame(b, ok)
  PROVE  SavedTypes
<1>1. One(ok) \in Nat /\ One(~ok) \in Nat /\ One(Hash(b) = last_hash) \in Nat
  BY OneType
<1>a. \E x, y \in Nat : count' = [events |-> count.events + 1, saved |-> count.saved + x,
                                  deduped |-> count.deduped + y]
  BY <1>1, Zenon DEF save_frame
<1>2. count' \in [events : Nat, saved : Nat, deduped : Nat]
  BY <1>a DEF TypeInv
<1>3. {failed', ended'} \subseteq Nat
  BY <1>1, SMTT(15) DEF save_frame, TypeInv
<1>. QED  BY <1>2, <1>3 DEF save_frame, TypeInv, SavedTypes

LEMMA ThinkingTypes ==
  ASSUME TypeInv, NEW b, NEW ok \in BOOLEAN, save_thinking(b, ok)
  PROVE  SavedTypes
<1>. DEFINE name == extract_thinking_state(b)
            starts_new == name # <<>> /\ (~tracker.is_active \/ name # tracker.current_thinking_state)
            ends == starts_new /\ tracker.is_active
<1>0. starts_new \in BOOLEAN /\ ends \in BOOLEAN
  OBVIOUS
<1>a. /\ tracker' = IF starts_new THEN StartTracking(name) ELSE tracker
      /\ ended' = ended + One(ends)
      /\ failed' = failed + One(ends /\ ~ok)
      /\ count' = [events |-> count.events + 1, saved |-> count.saved + One(ends /\ ok),
                   deduped |-> count.deduped + 1]
      /\ 1 \in Nat
  BY DEF save_thinking
<1>. HIDE DEF ends, starts_new, name
<1>1. One(ends) \in Nat /\ One(ends /\ ok) \in Nat /\ One(ends /\ ~ok) \in Nat
  BY <1>0, OneType
<1>b. \E x, y \in Nat : count' = [events |-> count.events + 1, saved |-> count.saved + x,
                                  deduped |-> count.deduped + y]
  BY <1>a, <1>1, Zenon
<1>2. count' \in [events : Nat, saved : Nat, deduped : Nat]
  BY <1>b DEF TypeInv
<1>3. {failed', ended'} \subseteq Nat
  BY <1>a, <1>1, SMTT(15) DEF TypeInv
<1>4. /\ tracker' = [current_thinking_state |-> tracker'.current_thinking_state,
                     state_start_time |-> tracker'.state_start_time,
                     tool_execution_count |-> tracker'.tool_execution_count,
                     tool_names |-> tracker'.tool_names, is_active |-> tracker'.is_active]
      /\ tracker'.is_active \in BOOLEAN
  BY <1>a DEF TypeInv, StartTracking
<1>. QED  BY <1>2, <1>3, <1>4 DEF SavedTypes

LEMMA ContentTypes ==
  ASSUME TypeInv, NEW b, NEW ok \in BOOLEAN, save_content(b, ok)
  PROVE  SavedTypes
<1>. DEFINE duplicate == Hash(b) = last_hash
            counted == ParseTool(b) # <<>> /\ tracker.is_active
<1>a. /\ tracker' = IF counted
                    THEN [tracker EXCEPT !.tool_execution_count = @ + 1,
                                         !.tool_names = add_tool_to_list(@, ParseTool(b))]
                    ELSE tracker
      /\ ended' = ended
      /\ failed' = failed + One(~duplicate /\ ~ok)
      /\ count' = [events |-> count.events + 1, saved |-> count.saved + One(~duplicate /\ ok),
                   deduped |-> count.deduped + One(duplicate)]
  BY DEF save_content, CountsAsDuplicate
<1>0. duplicate \in BOOLEAN
  OBVIOUS
<1>. HIDE DEF duplicate, counted
<1>1. One(~duplicate /\ ok) \in Nat /\ One(~duplicate /\ ~ok) \in Nat /\ One(duplicate) \in Nat
  BY <1>0, OneType
<1>b. \E x, y \in Nat : count' = [events |-> count.events + 1, saved |-> count.saved + x,
                                  deduped |-> count.deduped + y]
  BY <1>a, <1>1, Zenon
<1>2. count' \in [events : Nat, saved : Nat, deduped : Nat]
  BY <1>b DEF TypeInv
<1>3. {failed', ended'} \subseteq Nat
  BY <1>a, <1>1, SMTT(15) DEF TypeInv
<1>4. /\ tracker' = [current_thinking_state |-> tracker'.current_thinking_state,
                     state_start_time |-> tracker'.state_start_time,
                     tool_execution_count |-> tracker'.tool_execution_count,
                     tool_names |-> tracker'.tool_names, is_active |-> tracker'.is_active]
      /\ tracker'.is_active \in BOOLEAN
  BY <1>a DEF TypeInv
<1>. QED  BY <1>2, <1>3, <1>4 DEF SavedTypes

LEMMA HandleTypes ==
  ASSUME TypeInv, NEW ok \in BOOLEAN, handle_event(ok)
  PROVE  TypeInv'
<1>1. SavedTypes
  BY FrameTypes, ThinkingTypes, ContentTypes DEF handle_event, save_state
<1>2. ring' \in Seq(Record)
  BY HeadTypes DEF handle_event
<1>3. UNCHANGED <<stats, step, probes, dropped, abandoned>>
  BY DEF handle_event
<1>. QED  BY <1>1, <1>2, <1>3 DEF TypeInv, SavedTypes

LEMMA GoesTypes ==
  ASSUME TypeInv, NEW t \in Thread, NEW to \in Steps, Goes(t, to)
  PROVE  step' \in [Thread -> Steps]
BY DEF TypeInv, Goes

LEMMA EnterTypes ==
  ASSUME TypeInv, NEW t \in Thread, Enter(t)
  PROVE  TypeInv'
<1>1. stats' \in [seen : Nat, claude : Nat, emitted : Nat]
  <2>1. stats.claude \in Nat /\ stats.claude + 1 \in Nat /\ stats.seen + 1 \in Nat
    BY DEF TypeInv
  <2>2. PICK x \in Nat, y \in Nat : stats' = [stats EXCEPT !.seen = y, !.claude = x]
    BY <2>1, Zenon DEF Enter
  <2>3. stats \in [seen : Nat, claude : Nat, emitted : Nat]
    BY DEF TypeInv
  <2>. QED  BY <2>2, <2>3
<1>2. step' \in [Thread -> Steps]
  <2>1. Goes(t, "detected") \/ step' = step
    BY DEF Enter
  <2>2. "detected" \in Steps
    BY DEF Steps
  <2>. QED  BY <2>1, <2>2, GoesTypes DEF TypeInv
<1>. QED  BY <1>1, <1>2 DEF Enter, TypeInv, watcherVars

LEMMA ReserveTypes ==
  ASSUME TypeInv, NEW t \in Thread, NEW frame \in Frames, Reserve(t, frame)
  PROVE  TypeInv'
<1>1. step' \in [Thread -> Steps]
  <2>1. Goes(t, "out") \/ Goes(t, "filling")
    BY DEF Reserve
  <2>2. {"out", "filling"} \subseteq Steps
    BY DEF Steps
  <2>. QED  BY <2>1, <2>2, GoesTypes
<1>2. [by |-> t, frame |-> frame, ready |-> FALSE] \in Record
  BY DEF Record
<1>3. ring' \in Seq(Record)
  <2>1. PICK r \in Record : ring' = ring \/ ring' = Append(ring, r)
    BY <1>2, Zenon DEF Reserve
  <2>2. ring \in Seq(Record)
    BY DEF TypeInv
  <2>. QED  BY <2>1, <2>2
<1>4. probes' \in [Thread -> Frames \union {Nil}]
  BY DEF Reserve, TypeInv
<1>5. dropped' \in Nat
  BY DEF Reserve, TypeInv
<1>. QED  BY <1>1, <1>3, <1>4, <1>5 DEF Reserve, TypeInv, watcherVars

LEMMA SubmittedType ==
  ASSUME TypeInv, NEW t \in Thread
  PROVE  /\ Submitted(t) \in Seq(Record) /\ DOMAIN Submitted(t) = DOMAIN ring
         /\ \A i \in DOMAIN ring :
              /\ Submitted(t)[i].by = ring[i].by
              /\ Submitted(t)[i].ready <=> (ring[i].ready \/ ring[i].by = t)
<1>1. \A i \in DOMAIN ring : ring[i] \in Record
  BY DEF TypeInv
<1>2. \A i \in DOMAIN ring : Submitted(t)[i] = IF ring[i].by = t THEN [ring[i] EXCEPT !.ready = TRUE] ELSE ring[i]
  BY DEF Submitted
<1>3. \A i \in DOMAIN ring : Submitted(t)[i] \in Record
  BY <1>1, <1>2 DEF Record
<1>4. DOMAIN ring = 1..Len(ring) /\ Len(ring) \in Nat
  BY DEF TypeInv
<1>5. Submitted(t) = [i \in 1..Len(ring) |-> Submitted(t)[i]]
  BY <1>4 DEF Submitted
<1>6. \A i \in 1..Len(ring) : Submitted(t)[i] \in Record
  BY <1>3, <1>4
<1>7. Submitted(t) \in Seq(Record)
  BY <1>4, <1>5, <1>6
<1>8. \A i \in DOMAIN ring :
        /\ Submitted(t)[i].by = ring[i].by
        /\ Submitted(t)[i].ready <=> (ring[i].ready \/ ring[i].by = t)
  BY <1>1, <1>2 DEF Record
<1>. QED  BY <1>4, <1>5, <1>7, <1>8

LEMMA NextTypes == TypeInv /\ [Next]_vars => TypeInv'
<1>. SUFFICES ASSUME TypeInv, [Next]_vars PROVE TypeInv'
  OBVIOUS
<1>1. ASSUME NEW t \in Thread, Enter(t) \/ GoesOn(t) PROVE TypeInv'
  <2>1. CASE Enter(t)
    BY <2>1, EnterTypes
  <2>2. CASE \E frame \in Frames : Reserve(t, frame)
    BY <2>2, ReserveTypes
  <2>3. CASE Abandon(t)
    <3>1. step' \in [Thread -> Steps]
      BY <2>3, GoesTypes DEF Abandon, Steps
    <3>. QED  BY <2>3, <3>1 DEF Abandon, TypeInv, watcherVars
  <2>4. CASE CountEmitted(t)
    <3>1. step' \in [Thread -> Steps]
      BY <2>4, GoesTypes DEF CountEmitted, Steps
    <3>2. stats' \in [seen : Nat, claude : Nat, emitted : Nat]
      BY <2>4 DEF CountEmitted, TypeInv
    <3>. QED  BY <2>4, <3>1, <3>2 DEF CountEmitted, TypeInv, watcherVars
  <2>5. CASE UpdateLatest(t)
    <3>1. step' \in [Thread -> Steps]
      BY <2>5, GoesTypes DEF UpdateLatest, Steps
    <3>. QED  BY <2>5, <3>1 DEF UpdateLatest, TypeInv, watcherVars
  <2>6. CASE Submit(t)
    <3>1. ring' \in Seq(Record)
      BY <2>6, SubmittedType DEF Submit
    <3>2. probes' \in [Thread -> Frames \union {Nil}]
      BY <2>6 DEF Submit, TypeInv
    <3>3. step' \in [Thread -> Steps]
      BY <2>6, GoesTypes DEF Submit, Steps
    <3>. QED  BY <2>6, <3>1, <3>2, <3>3 DEF Submit, TypeInv, watcherVars
  <2>. QED  BY <1>1, <2>1, <2>2, <2>3, <2>4, <2>5, <2>6 DEF GoesOn
<1>2. CASE Handle
  BY <1>2, HandleTypes DEF Handle
<1>3. CASE Start \/ Enable \/ Poll \/ Tick
  BY <1>3 DEF Start, Enable, Poll, Tick, TypeInv, probeVars, watcherVars
<1>4. CASE Stop
  <2>1. ring' \in Seq(Record)
    BY <1>4 DEF Stop
  <2>2. probes' \in [Thread -> Frames \union {Nil}] /\ step' \in [Thread -> Steps]
    BY <1>4 DEF Stop, Steps
  <2>3. /\ count' \in [events : Nat, saved : Nat, deduped : Nat]
        /\ stats' \in [seen : Nat, claude : Nat, emitted : Nat]
        /\ {failed', dropped', abandoned', ended'} \subseteq Nat
    BY <1>4 DEF Stop, NoCount, NoStats
  <2>. QED  BY <1>4, <2>1, <2>2, <2>3 DEF Stop, NoState, TypeInv
<1>5. CASE UNCHANGED vars
  BY <1>5 DEF vars, TypeInv, probeVars, watcherVars
<1>. QED  BY <1>1, <1>2, <1>3, <1>4, <1>5 DEF Next

-----------------------------------------------------------------------------
(* What is answered for is stored. *)

LEMMA HandleStores ==
  ASSUME TypeInv, AnsweredIsStored, NEW ok \in BOOLEAN, handle_event(ok)
  PROVE  AnsweredIsStored'
<1>. DEFINE b == Head(ring).frame
<1>1. b \in Frames
  BY HeadTypes DEF handle_event
<1>2. Hash(b) # Nil
  BY <1>1, WatchAssumption DEF Hash
<1>3. save_frame(b, ok) \/ save_thinking(b, ok) \/ save_content(b, ok)
  BY DEF handle_event, save_state
<1>. HIDE DEF b
<1>4. CASE save_frame(b, ok)
  BY <1>4 DEF save_frame, Inserted, LastAfter, AnsweredIsStored
<1>5. CASE save_thinking(b, ok)
  <2>1. db \subseteq db' /\ stored' = stored /\ last_hash' = last_hash
    BY <1>5 DEF save_thinking, Inserted
  <2>. QED  BY <2>1 DEF AnsweredIsStored
<1>6. CASE save_content(b, ok)
  <2>1. CASE Hash(b) = last_hash
    BY <1>2, <1>6, <2>1 DEF save_content, AnsweredIsStored
  <2>2. CASE Hash(b) # last_hash
    BY <1>6, <2>2 DEF save_content, Inserted, LastAfter, AnsweredIsStored
  <2>. QED  BY <2>1, <2>2
<1>. QED  BY <1>3, <1>4, <1>5, <1>6

LEMMA NextStores == TypeInv /\ AnsweredIsStored /\ [Next]_vars => AnsweredIsStored'
<1>. SUFFICES ASSUME TypeInv, AnsweredIsStored, [Next]_vars PROVE AnsweredIsStored'
  OBVIOUS
<1>1. CASE Handle
  BY <1>1, HandleStores DEF Handle
<1>2. CASE Stop
  BY <1>2 DEF Stop, AnsweredIsStored
<1>3. CASE UNCHANGED <<db, stored, last_hash>>
  BY <1>3 DEF AnsweredIsStored
<1>4. Handle \/ Stop \/ UNCHANGED <<db, stored, last_hash>>
  BY DEF Next, Enter, GoesOn, Abandon, Reserve, CountEmitted, UpdateLatest, Submit,
         Start, Enable, Poll, Tick, vars, watcherVars
<1>. QED  BY <1>1, <1>2, <1>3, <1>4

\* What the watcher has answered for, by saving it or by skipping it as a duplicate,
\* is in the table, whatever inserts fail and however often the watcher is started
\* (save_state of both watchers).
THEOREM AnsweredStaysStored == FairSpec => []AnsweredIsStored
<1>1. Init => TypeInv /\ AnsweredIsStored
  BY InitTypes DEF Init, AnsweredIsStored
<1>2. TypeInv /\ AnsweredIsStored /\ [Next]_vars => (TypeInv /\ AnsweredIsStored)'
  BY NextTypes, NextStores
<1>. QED  BY <1>1, <1>2, PTL DEF FairSpec

-----------------------------------------------------------------------------
(* The row of a state that ends. *)

LEMMA EndedStep ==
  ASSUME TypeInv, [Next]_vars, tracker.is_active, tracker'.is_active,
         tracker'.current_thinking_state # tracker.current_thinking_state
  PROVE  \/ SummaryHash(tracker.current_thinking_state, Duration) \in db'
         \/ failed' = failed + 1
<1>1. Handle \/ Stop \/ UNCHANGED tracker
  BY DEF Next, Enter, GoesOn, Abandon, Reserve, CountEmitted, UpdateLatest, Submit,
         Start, Enable, Poll, Tick, vars, watcherVars
<1>2. ~Stop
  BY DEF Stop, NoState
<1>3. PICK ok \in BOOLEAN : handle_event(ok)
  BY <1>1, <1>2 DEF Handle
<1>. DEFINE b == Head(ring).frame
            name == extract_thinking_state(b)
<1>4. ~save_frame(b, ok)
  BY DEF save_frame
<1>5. ~save_content(b, ok)
  BY DEF save_content, TypeInv
<1>6. save_thinking(b, ok)
  BY <1>3, <1>4, <1>5 DEF handle_event, save_state
<1>7. name # <<>> /\ name # tracker.current_thinking_state
  BY <1>6 DEF save_thinking
<1>8. CASE ok
  BY <1>6, <1>7, <1>8 DEF save_thinking, Inserted, SummaryRow
<1>9. CASE ~ok
  BY <1>6, <1>7, <1>9 DEF save_thinking, One
<1>. QED  BY <1>8, <1>9

\* A thinking state that another one replaces leaves its row, with its own name and
\* duration, unless the insert failed and was reported (log_state_transition).
THEOREM EndedStatesAreStored == FairSpec => EndedStateIsStored
<1>1. TypeInv /\ [Next]_vars =>
        [(tracker.is_active /\ tracker'.is_active
            /\ tracker'.current_thinking_state # tracker.current_thinking_state)
         => \/ SummaryHash(tracker.current_thinking_state, Duration) \in db'
            \/ failed' = failed + 1]_vars
  BY EndedStep
<1>. QED  BY InitTypes, NextTypes, <1>1, PTL DEF FairSpec, EndedStateIsStored

-----------------------------------------------------------------------------
(* The counters.  EventsAccounted is not inductive as it stands: that submitting a  *)
(* record makes exactly one more of them ready needs that a thread that has         *)
(* reserved one has exactly one that is not, and any other thread none.             *)

\* Threads whose probe is at one of the steps of S.
At(S) == {t \in Thread : step[t] \in S}
Uncounted == {"detected", "filling"}
Unsubmitted == {"counted", "latest"}
Idle == {"out", "detected"}
ReadyPlaces == {i \in DOMAIN ring : ring[i].ready}
Open(t) == {i \in DOMAIN ring : ring[i].by = t /\ ~ring[i].ready}

OpenInv ==
  \A t \in Thread :
    /\ step[t] \in Idle => Open(t) = {}
    /\ step[t] \notin Idle => \E i \in DOMAIN ring : Open(t) = {i}

ProbeInv == stats.claude = stats.emitted + dropped + abandoned + Cardinality(At(Uncounted))
RingInv == stats.emitted = count.events + Cardinality(ReadyPlaces) + Cardinality(At(Unsubmitted))
SavedInv ==
  /\ tracking => count.events + ended = count.saved + count.deduped + failed
  /\ ~tracking => count.events = count.saved + failed

CountInv == OpenInv /\ ProbeInv /\ RingInv /\ SavedInv

LEMMA AtIsFinite ==
  ASSUME NEW S
  PROVE  IsFiniteSet(At(S)) /\ Cardinality(At(S)) \in Nat
<1>1. At(S) \subseteq Thread
  BY DEF At
<1>. QED  BY <1>1, WatchAssumption, FS_Subset, FS_CardinalityType

LEMMA ReadyIsFinite ==
  ASSUME TypeInv
  PROVE  IsFiniteSet(ReadyPlaces) /\ Cardinality(ReadyPlaces) \in Nat
<1>2. DOMAIN ring = 1..Len(ring) /\ Len(ring) \in Nat
  BY DEF TypeInv
<1>3. IsFiniteSet(DOMAIN ring)
  BY <1>2, FS_Interval
<1>4. IsFiniteSet(ReadyPlaces)
  BY <1>3, FS_Subset DEF ReadyPlaces
<1>. QED  BY <1>4, FS_CardinalityType

\* A step of one thread takes it into S or out of it.
LEMMA AtMoves ==
  ASSUME TypeInv, NEW t \in Thread, NEW to, Goes(t, to), NEW S
  PROVE  Cardinality(At(S)') = Cardinality(At(S)) + One(to \in S) - One(step[t] \in S)
<1>1. \A u \in Thread : step'[u] = IF u = t THEN to ELSE step[u]
  BY DEF TypeInv, Goes
<1>2. Cardinality(At(S)) \in Nat /\ IsFiniteSet(At(S))
  BY AtIsFinite
<1>3. CASE to \in S /\ step[t] \notin S
  <2>1. At(S)' = At(S) \union {t} /\ t \notin At(S)
    BY <1>1, <1>3 DEF At
  <2>2. Cardinality(At(S)') = Cardinality(At(S)) + 1
    BY <1>2, <2>1, FS_AddElement
  <2>. QED  BY <1>2, <1>3, <2>2 DEF One
<1>4. CASE to \notin S /\ step[t] \in S
  <2>1. At(S)' = At(S) \ {t} /\ t \in At(S)
    BY <1>1, <1>4 DEF At
  <2>2. Cardinality(At(S)') = Cardinality(At(S)) - 1
    BY <1>2, <2>1, FS_RemoveElement
  <2>. QED  BY <1>2, <1>4, <2>2 DEF One
<1>5. CASE to \in S <=> step[t] \in S
  <2>1. At(S)' = At(S)
    BY <1>1, <1>5 DEF At
  <2>2. One(to \in S) = One(step[t] \in S) /\ One(step[t] \in S) \in Nat
    BY <1>5 DEF One
  <2>. QED  BY <1>2, <2>1, <2>2
<1>. QED  BY <1>3, <1>4, <1>5

\* What a step of a thread from one place to another does to the two counts.
LEMMA StepCounts ==
  ASSUME TypeInv, NEW t \in Thread, NEW to, Goes(t, to), NEW from, step[t] = from
  PROVE  /\ <<from, to>> = <<"out", "detected">> =>
              /\ Cardinality(At(Uncounted)') = Cardinality(At(Uncounted)) + 1
              /\ Cardinality(At(Unsubmitted)') = Cardinality(At(Unsubmitted))
         /\ <<from, to>> = <<"detected", "out">> =>
              /\ Cardinality(At(Uncounted)') = Cardinality(At(Uncounted)) - 1
              /\ Cardinality(At(Unsubmitted)') = Cardinality(At(Unsubmitted))
         /\ <<from, to>> \in {<<"detected", "filling">>, <<"counted", "latest">>} =>
              /\ Cardinality(At(Uncounted)') = Cardinality(At(Uncounted))
              /\ Cardinality(At(Unsubmitted)') = Cardinality(At(Unsubmitted))
         /\ <<from, to>> = <<"filling", "counted">> =>
              /\ Cardinality(At(Uncounted)') = Cardinality(At(Uncounted)) - 1
              /\ Cardinality(At(Unsubmitted)') = Cardinality(At(Unsubmitted)) + 1
         /\ <<from, to>> = <<"latest", "out">> =>
              /\ Cardinality(At(Uncounted)') = Cardinality(At(Uncounted))
              /\ Cardinality(At(Unsubmitted)') = Cardinality(At(Unsubmitted)) - 1
<1>1. /\ Cardinality(At(Uncounted)') = Cardinality(At(Uncounted)) + One(to \in Uncounted) - One(from \in Uncounted)
      /\ Cardinality(At(Unsubmitted)')
           = Cardinality(At(Unsubmitted)) + One(to \in Unsubmitted) - One(from \in Unsubmitted)
  BY AtMoves
<1>2. Cardinality(At(Uncounted)) \in Nat /\ Cardinality(At(Unsubmitted)) \in Nat
  BY AtIsFinite
<1>3. /\ "detected" \in Uncounted /\ "filling" \in Uncounted
      /\ "out" \notin Uncounted /\ "counted" \notin Uncounted /\ "latest" \notin Uncounted
      /\ "counted" \in Unsubmitted /\ "latest" \in Unsubmitted
      /\ "out" \notin Unsubmitted /\ "detected" \notin Unsubmitted /\ "filling" \notin Unsubmitted
  BY DEF Uncounted, Unsubmitted
<1>. DEFINE a == Cardinality(At(Uncounted))
            b == Cardinality(At(Unsubmitted))
            c == Cardinality(At(Uncounted)')
            d == Cardinality(At(Unsubmitted)')
<1>4. /\ c = a + (IF to \in Uncounted THEN 1 ELSE 0) - (IF from \in Uncounted THEN 1 ELSE 0)
      /\ d = b + (IF to \in Unsubmitted THEN 1 ELSE 0) - (IF from \in Unsubmitted THEN 1 ELSE 0)
  BY <1>1 DEF One
<1>5. a \in Nat /\ b \in Nat
  BY <1>2
<1>. HIDE DEF a, b, c, d
<1>6. from = "out" /\ to = "detected" => c = a + 1 /\ d = b
  BY <1>3, <1>4, <1>5
<1>7. from = "detected" /\ to = "out" => c = a - 1 /\ d = b
  BY <1>3, <1>4, <1>5
<1>8. from = "detected" /\ to = "filling" => c = a /\ d = b
  BY <1>3, <1>4, <1>5
<1>9. from = "counted" /\ to = "latest" => c = a /\ d = b
  BY <1>3, <1>4, <1>5
<1>10. from = "filling" /\ to = "counted" => c = a - 1 /\ d = b + 1
  BY <1>3, <1>4, <1>5
<1>11. from = "latest" /\ to = "out" => c = a /\ d = b - 1
  BY <1>3, <1>4, <1>5
<1>. QED  BY <1>6, <1>7, <1>8, <1>9, <1>10, <1>11 DEF a, b, c, d

\* A step that leaves the ring alone, of a thread that holds a record before and after
\* it or neither.
LEMMA OpenKept ==
  ASSUME TypeInv, OpenInv, NEW t \in Thread, NEW to, Goes(t, to), ring' = ring,
         to \in Idle <=> step[t] \in Idle
  PROVE  OpenInv' /\ ReadyPlaces' = ReadyPlaces
<1>1. \A u \in Thread : step'[u] = IF u = t THEN to ELSE step[u]
  BY DEF TypeInv, Goes
<1>2. \A u \in Thread : step'[u] \in Idle <=> step[u] \in Idle
  BY <1>1
<1>3. \A u \in Thread : Open(u)' = Open(u)
  BY DEF Open
<1>. QED  BY <1>2, <1>3 DEF OpenInv, ReadyPlaces

LEMMA EmptyCounts ==
  ASSUME ring = <<>>, step = [t \in Thread |-> "out"]
  PROVE  /\ OpenInv /\ Cardinality(ReadyPlaces) = 0
         /\ Cardinality(At(Uncounted)) = 0 /\ Cardinality(At(Unsubmitted)) = 0
<1>1. At(Uncounted) = {} /\ At(Unsubmitted) = {} /\ ReadyPlaces = {}
  BY DEF At, Uncounted, Unsubmitted, ReadyPlaces
<1>2. OpenInv
  BY DEF OpenInv, Open, Idle
<1>. QED  BY <1>1, <1>2, FS_EmptySet

LEMMA InitCounts == Init => CountInv
<1>. SUFFICES ASSUME Init PROVE CountInv
  OBVIOUS
<1>1. /\ OpenInv /\ Cardinality(ReadyPlaces) = 0
      /\ Cardinality(At(Uncounted)) = 0 /\ Cardinality(At(Unsubmitted)) = 0
  BY EmptyCounts DEF Init
<1>. QED  BY <1>1 DEF Init, NoStats, NoCount, CountInv, ProbeInv, RingInv, SavedInv

LEMMA EnterCounts ==
  ASSUME TypeInv, CountInv, NEW t \in Thread, Enter(t)
  PROVE  CountInv'
<1>1. /\ UNCHANGED <<count, ended, failed, tracking, dropped, abandoned, ring>>
      /\ stats'.emitted = stats.emitted /\ step[t] = "out"
      /\ stats'.claude = IF Emits(t) THEN stats.claude + 1 ELSE stats.claude
  BY DEF Enter, watcherVars, TypeInv
<1>2. CASE ~Emits(t)
  <2>1. UNCHANGED step
    BY <1>2 DEF Enter
  <2>. QED  BY <1>1, <1>2, <2>1
       DEF CountInv, OpenInv, Open, ProbeInv, RingInv, SavedInv, At, ReadyPlaces
<1>3. CASE Emits(t)
  <2>1. Goes(t, "detected") /\ stats'.claude = stats.claude + 1
    BY <1>1, <1>3 DEF Enter
  <2>2. OpenInv' /\ ReadyPlaces' = ReadyPlaces
    BY <1>1, <2>1, OpenKept DEF CountInv, Idle
  <2>3. /\ Cardinality(At(Uncounted)') = Cardinality(At(Uncounted)) + 1
        /\ Cardinality(At(Unsubmitted)') = Cardinality(At(Unsubmitted))
    BY <1>1, <2>1, StepCounts
  <2>4. Cardinality(At(Uncounted)) \in Nat /\ {stats.claude, stats.emitted, dropped, abandoned} \subseteq Nat
    BY AtIsFinite DEF TypeInv
  <2>5. ProbeInv'
    BY <1>1, <2>1, <2>3, <2>4 DEF CountInv, ProbeInv
  <2>6. RingInv'
    BY <1>1, <2>2, <2>3 DEF CountInv, RingInv
  <2>. QED  BY <1>1, <2>2, <2>5, <2>6 DEF CountInv, SavedInv
<1>. QED  BY <1>2, <1>3

\* A write without a terminal, or one that found the ring full.
LEMMA GivenUpCounts ==
  ASSUME TypeInv, CountInv, NEW t \in Thread, step[t] = "detected", Goes(t, "out"),
         UNCHANGED <<stats, count, ended, failed, tracking, ring>>,
         dropped' + abandoned' = dropped + abandoned + 1,
         dropped' \in Nat, abandoned' \in Nat
  PROVE  CountInv'
<1>1. OpenInv' /\ ReadyPlaces' = ReadyPlaces
  BY OpenKept DEF CountInv, Idle
<1>2. /\ Cardinality(At(Uncounted)') = Cardinality(At(Uncounted)) - 1
      /\ Cardinality(At(Unsubmitted)') = Cardinality(At(Unsubmitted))
  BY StepCounts
<1>3. Cardinality(At(Uncounted)) \in Nat /\ {stats.claude, stats.emitted, dropped, abandoned} \subseteq Nat
  BY AtIsFinite DEF TypeInv
<1>4. ProbeInv'
  BY <1>2, <1>3 DEF CountInv, ProbeInv
<1>5. RingInv'
  BY <1>1, <1>2 DEF CountInv, RingInv
<1>. QED  BY <1>1, <1>4, <1>5 DEF CountInv, SavedInv

\* A reserved record gives a thread that had none its one open record.
LEMMA ReserveCounts ==
  ASSUME TypeInv, CountInv, NEW t \in Thread, NEW frame \in Frames, Reserve(t, frame)
  PROVE  CountInv'
<1>1. UNCHANGED <<count, ended, failed, tracking, stats, abandoned>> /\ step[t] = "detected"
  BY DEF Reserve, watcherVars
<1>2. CASE Len(ring) = RingSize
  <2>1. /\ Goes(t, "out") /\ dropped' = dropped + 1 /\ ring' = ring
        /\ dropped \in Nat /\ abandoned \in Nat
    BY <1>2 DEF Reserve, TypeInv
  <2>2. dropped' + abandoned' = dropped + abandoned + 1 /\ dropped' \in Nat /\ abandoned' \in Nat
    BY <1>1, <2>1
  <2>. QED  BY <1>1, <2>1, <2>2, GivenUpCounts
<1>3. CASE Len(ring) # RingSize
  <2>. DEFINE r == [by |-> t, frame |-> frame, ready |-> FALSE]
              last == Len(ring) + 1
  <2>1. Goes(t, "filling") /\ ring' = Append(ring, r) /\ dropped' = dropped
    BY <1>3 DEF Reserve
  <2>2. r.by = t /\ ~r.ready
    OBVIOUS
  <2>. HIDE DEF r
  <2>3. ring \in Seq(Record)
    BY DEF TypeInv
  <2>4. /\ DOMAIN ring' = DOMAIN ring \union {last} /\ last \notin DOMAIN ring
        /\ \A i \in DOMAIN ring : ring'[i] = ring[i]
        /\ ring'[last] = r
    BY <2>1, <2>3
  <2>. HIDE DEF last
  <2>5. ReadyPlaces' = ReadyPlaces
    BY <2>2, <2>4 DEF ReadyPlaces
  <2>6. Open(t)' = Open(t) \union {last} /\ last \in DOMAIN ring'
    BY <2>2, <2>4 DEF Open
  <2>7. Open(t) = {}
    BY <1>1 DEF CountInv, OpenInv, Idle
  <2>8. \A u \in Thread : step'[u] = IF u = t THEN "filling" ELSE step[u]
    BY <2>1 DEF Goes, TypeInv
  <2>9. \A u \in Thread \ {t} : Open(u)' = Open(u) /\ step'[u] = step[u]
    BY <2>2, <2>4, <2>8 DEF Open
  <2>10. OpenInv'
    <3>. SUFFICES ASSUME NEW u \in Thread
                  PROVE  /\ step'[u] \in Idle => Open(u)' = {}
                         /\ step'[u] \notin Idle => \E i \in DOMAIN ring' : Open(u)' = {i}
      BY DEF OpenInv
    <3>1. CASE u = t
      <4>1. Open(u)' = {last} /\ last \in DOMAIN ring' /\ step'[u] = "filling"
        BY <2>6, <2>7, <2>8, <3>1
      <4>. QED  BY <4>1 DEF Idle
    <3>2. CASE u # t
      BY <2>4, <2>9, <3>2 DEF CountInv, OpenInv
    <3>. QED  BY <3>1, <3>2
  <2>11. /\ Cardinality(At(Uncounted)') = Cardinality(At(Uncounted))
         /\ Cardinality(At(Unsubmitted)') = Cardinality(At(Unsubmitted))
    BY <1>1, <2>1, StepCounts
  <2>12. ProbeInv' /\ RingInv'
    BY <1>1, <2>1, <2>5, <2>11 DEF CountInv, ProbeInv, RingInv
  <2>. QED  BY <1>1, <2>10, <2>12 DEF CountInv, SavedInv
<1>. QED  BY <1>2, <1>3

LEMMA CountEmittedCounts ==
  ASSUME TypeInv, CountInv, NEW t \in Thread, CountEmitted(t)
  PROVE  CountInv'
<1>1. /\ UNCHANGED <<count, ended, failed, tracking, dropped, abandoned, ring>>
      /\ stats'.emitted = stats.emitted + 1 /\ stats'.claude = stats.claude
      /\ step[t] = "filling" /\ Goes(t, "counted")
  BY DEF CountEmitted, watcherVars, TypeInv
<1>2. OpenInv' /\ ReadyPlaces' = ReadyPlaces
  BY <1>1, OpenKept DEF CountInv, Idle
<1>3. /\ Cardinality(At(Uncounted)') = Cardinality(At(Uncounted)) - 1
      /\ Cardinality(At(Unsubmitted)') = Cardinality(At(Unsubmitted)) + 1
  BY <1>1, StepCounts
<1>4. /\ Cardinality(At(Uncounted)) \in Nat /\ Cardinality(At(Unsubmitted)) \in Nat
      /\ Cardinality(ReadyPlaces) \in Nat
      /\ {stats.claude, stats.emitted, dropped, abandoned, count.events} \subseteq Nat
  BY AtIsFinite, ReadyIsFinite DEF TypeInv
<1>5. ProbeInv'
  BY <1>1, <1>3, <1>4 DEF CountInv, ProbeInv
<1>6. RingInv'
  BY <1>1, <1>2, <1>3, <1>4 DEF CountInv, RingInv
<1>. QED  BY <1>1, <1>2, <1>5, <1>6 DEF CountInv, SavedInv

LEMMA UpdateLatestCounts ==
  ASSUME TypeInv, CountInv, NEW t \in Thread, UpdateLatest(t)
  PROVE  CountInv'
<1>1. /\ UNCHANGED <<stats, count, ended, failed, tracking, dropped, abandoned, ring>>
      /\ step[t] = "counted" /\ Goes(t, "latest")
  BY DEF UpdateLatest, watcherVars
<1>2. OpenInv' /\ ReadyPlaces' = ReadyPlaces
  BY <1>1, OpenKept DEF CountInv, Idle
<1>3. /\ Cardinality(At(Uncounted)') = Cardinality(At(Uncounted))
      /\ Cardinality(At(Unsubmitted)') = Cardinality(At(Unsubmitted))
  BY <1>1, StepCounts
<1>4. ProbeInv' /\ RingInv'
  BY <1>1, <1>2, <1>3 DEF CountInv, ProbeInv, RingInv
<1>. QED  BY <1>1, <1>2, <1>4 DEF CountInv, SavedInv

\* Submitting closes the thread's one open record: one more is ready.
LEMMA SubmitCounts ==
  ASSUME TypeInv, CountInv, NEW t \in Thread, Submit(t)
  PROVE  CountInv'
<1>1. /\ UNCHANGED <<stats, count, ended, failed, tracking, dropped, abandoned>>
      /\ step[t] = "latest" /\ Goes(t, "out")
  BY DEF Submit, watcherVars
<1>2. \A u \in Thread : step'[u] = IF u = t THEN "out" ELSE step[u]
  BY <1>1 DEF Goes, TypeInv
<1>3. /\ Cardinality(At(Uncounted)') = Cardinality(At(Uncounted))
      /\ Cardinality(At(Unsubmitted)') = Cardinality(At(Unsubmitted)) - 1
  BY <1>1, StepCounts
<1>4. PICK open \in DOMAIN ring : Open(t) = {open}
  BY <1>1 DEF CountInv, OpenInv, Idle
<1>5. /\ DOMAIN ring' = DOMAIN ring
      /\ \A i \in DOMAIN ring : /\ ring'[i].by = ring[i].by
                                /\ ring'[i].ready <=> (ring[i].ready \/ ring[i].by = t)
  BY SubmittedType DEF Submit
<1>6. \A i \in DOMAIN ring : i = open <=> (ring[i].by = t /\ ~ring[i].ready)
  BY <1>4 DEF Open
<1>7. ReadyPlaces' = ReadyPlaces \union {open} /\ open \notin ReadyPlaces
  BY <1>5, <1>6 DEF ReadyPlaces
<1>8. Cardinality(ReadyPlaces') = Cardinality(ReadyPlaces) + 1
  BY <1>7, ReadyIsFinite, FS_AddElement
<1>9. OpenInv'
  <2>. SUFFICES ASSUME NEW u \in Thread
                PROVE  /\ step'[u] \in Idle => Open(u)' = {}
                       /\ step'[u] \notin Idle => \E i \in DOMAIN ring' : Open(u)' = {i}
    BY DEF OpenInv
  <2>1. CASE u = t
    <3>1. Open(u)' = {} /\ step'[u] = "out"
      BY <1>2, <1>5, <2>1 DEF Open
    <3>. QED  BY <3>1 DEF Idle
  <2>2. CASE u # t
    <3>1. Open(u)' = Open(u) /\ step'[u] = step[u]
      BY <1>2, <1>5, <2>2 DEF Open
    <3>. QED  BY <1>5, <3>1 DEF CountInv, OpenInv
  <2>. QED  BY <2>1, <2>2
<1>10. {stats.emitted, count.events, Cardinality(At(Unsubmitted)), Cardinality(ReadyPlaces)} \subseteq Nat
  BY AtIsFinite, ReadyIsFinite DEF TypeInv
<1>11. ProbeInv'
  BY <1>1, <1>3 DEF CountInv, ProbeInv
<1>12. RingInv'
  BY <1>1, <1>3, <1>8, <1>10 DEF CountInv, RingInv
<1>. QED  BY <1>1, <1>9, <1>11, <1>12 DEF CountInv, SavedInv

\* Taking the oldest record out of the ring moves the others up by one place.
LEMMA TakenCounts ==
  ASSUME TypeInv, CountInv, ring # <<>>, Head(ring).ready, ring' = Tail(ring),
         UNCHANGED step, TypeInv'
  PROVE  OpenInv' /\ Cardinality(ReadyPlaces') = Cardinality(ReadyPlaces) - 1
<1>1. /\ ring \in Seq(Record) /\ DOMAIN ring = 1..Len(ring) /\ Len(ring) \in Nat \ {0}
      /\ DOMAIN ring' = 1..(Len(ring) - 1)
      /\ \A i \in DOMAIN ring' : ring'[i] = ring[i + 1]
      /\ ring[1] = Head(ring)
  BY DEF TypeInv
<1>2. ReadyPlaces \ {1} = {i \in 2..Len(ring) : ring[i].ready} /\ 1 \in ReadyPlaces
  BY <1>1 DEF ReadyPlaces
<1>3. Cardinality(ReadyPlaces \ {1}) = Cardinality(ReadyPlaces) - 1
  BY <1>2, ReadyIsFinite, FS_RemoveElement
<1>. DEFINE places == {i \in 1..(Len(ring) - 1) : ring[i + 1].ready}
            shifted == {i \in 2..Len(ring) : ring[i].ready}
            shift == [i \in places |-> i + 1]
<1>4. ReadyPlaces' = places
  BY <1>1 DEF ReadyPlaces
<1>5. IsFiniteSet(places)
  <2>1. IsFiniteSet(1..(Len(ring) - 1))
    BY <1>1, FS_Interval
  <2>2. places \in SUBSET (1..(Len(ring) - 1))
    OBVIOUS
  <2>. QED  BY <2>1, <2>2, FS_Subset
<1>6. /\ \A i \in places : shift[i] = i + 1 /\ shift[i] \in shifted /\ i \in Nat
      /\ \A j \in shifted : j - 1 \in places /\ j = shift[j - 1]
  BY <1>1
<1>7. shift \in Bijection(places, shifted)
  <2>1. shift \in [places -> shifted]
    BY <1>6
  <2>2. \A i, j \in places : shift[i] = shift[j] => i = j
    BY <1>6
  <2>3. \A j \in shifted : \E i \in places : shift[i] = j
    BY <1>6
  <2>. HIDE DEF shift, places, shifted
  <2>. QED  BY <2>1, <2>2, <2>3, Fun_IsBij
<1>8. Cardinality(ReadyPlaces') = Cardinality(ReadyPlaces \ {1})
  <2>. HIDE DEF places, shifted, shift
  <2>1. ExistsBijection(places, shifted)
    BY <1>7 DEF ExistsBijection
  <2>2. Cardinality(shifted) = Cardinality(places)
    BY <1>5, <2>1, FS_Bijection
  <2>3. ReadyPlaces \ {1} = shifted
    BY <1>2 DEF shifted
  <2>. QED  BY <1>4, <2>2, <2>3
<1>9. OpenInv'
  <2>. SUFFICES ASSUME NEW u \in Thread
                PROVE  /\ step'[u] \in Idle => Open(u)' = {}
                       /\ step'[u] \notin Idle => \E i \in DOMAIN ring' : Open(u)' = {i}
    BY DEF OpenInv
  <2>1. \A i : i \in Open(u)' <=> (i \in DOMAIN ring' /\ i + 1 \in Open(u))
    BY <1>1 DEF Open
  <2>2. 1 \notin Open(u)
    BY <1>1 DEF Open
  <2>3. CASE step[u] \in Idle
    BY <2>1, <2>3 DEF CountInv, OpenInv
  <2>4. CASE step[u] \notin Idle
    <3>1. PICK i \in DOMAIN ring : Open(u) = {i}
      BY <2>4 DEF CountInv, OpenInv
    <3>2. i - 1 \in DOMAIN ring'
      BY <1>1, <2>2, <3>1
    <3>3. \A j : j \in Open(u)' <=> j = i - 1
      BY <1>1, <2>1, <3>1, <3>2
    <3>. QED  BY <2>4, <3>2, <3>3
  <2>. QED  BY <2>3, <2>4
<1>. QED  BY <1>3, <1>8, <1>9

\* One frame handled, by either watcher: saved, skipped or failed, and a row more or
\* less for a state that ended.
LEMMA SavedCounts ==
  ASSUME TypeInv, SavedInv, NEW ok \in BOOLEAN, handle_event(ok)
  PROVE  SavedInv' /\ count'.events = count.events + 1
<1>. DEFINE b == Head(ring).frame
<1>0. {count.events, count.saved, count.deduped, failed, ended} \subseteq Nat
  BY DEF TypeInv
<1>1. UNCHANGED tracking
  BY DEF handle_event
<1>2. CASE ~tracking
  <2>1. save_frame(b, ok)
    BY <1>2 DEF handle_event
  <2>2. CASE ok
    BY <1>0, <1>1, <1>2, <2>1, <2>2 DEF save_frame, SavedInv, One
  <2>3. CASE ~ok
    BY <1>0, <1>1, <1>2, <2>1, <2>3 DEF save_frame, SavedInv, One
  <2>. QED  BY <2>2, <2>3
<1>3. CASE tracking /\ save_thinking(b, ok)
  <2>. DEFINE name == extract_thinking_state(b)
              starts_new == name # <<>> /\ (~tracker.is_active \/ name # tracker.current_thinking_state)
              ends == starts_new /\ tracker.is_active
  <2>1. /\ ended' = ended + One(ends)
        /\ failed' = failed + One(ends /\ ~ok)
        /\ count' = [events |-> count.events + 1, saved |-> count.saved + One(ends /\ ok),
                     deduped |-> count.deduped + 1]
    BY <1>3 DEF save_thinking
  <2>2. One(ends) = One(ends /\ ok) + One(ends /\ ~ok) /\ One(ends /\ ok) \in Nat /\ One(ends /\ ~ok) \in Nat
    BY DEF One
  <2>. HIDE DEF ends
  <2>3. count'.events = count.events + 1 /\ count'.saved = count.saved + One(ends /\ ok)
        /\ count'.deduped = count.deduped + 1
    BY <2>1
  <2>. QED  BY <1>0, <1>1, <1>3, <2>1, <2>2, <2>3 DEF SavedInv
<1>4. CASE tracking /\ save_content(b, ok)
  <2>. DEFINE duplicate == Hash(b) = last_hash
  <2>1. /\ ended' = ended
        /\ failed' = failed + One(~duplicate /\ ~ok)
        /\ count' = [events |-> count.events + 1, saved |-> count.saved + One(~duplicate /\ ok),
                     deduped |-> count.deduped + One(duplicate)]
    BY <1>4 DEF save_content, CountsAsDuplicate
  <2>2. /\ One(duplicate) + One(~duplicate /\ ok) + One(~duplicate /\ ~ok) = 1
        /\ One(duplicate) \in Nat /\ One(~duplicate /\ ok) \in Nat /\ One(~duplicate /\ ~ok) \in Nat
    BY DEF One
  <2>. HIDE DEF duplicate
  <2>3. count'.events = count.events + 1 /\ count'.saved = count.saved + One(~duplicate /\ ok)
        /\ count'.deduped = count.deduped + One(duplicate)
    BY <2>1
  <2>. QED  BY <1>0, <1>1, <1>4, <2>1, <2>2, <2>3 DEF SavedInv
<1>. QED  BY <1>2, <1>3, <1>4 DEF handle_event, save_state

LEMMA NextCounts == TypeInv /\ CountInv /\ [Next]_vars => CountInv'
<1>. SUFFICES ASSUME TypeInv, CountInv, [Next]_vars PROVE CountInv'
  OBVIOUS
<1>1. ASSUME NEW t \in Thread, Enter(t) \/ GoesOn(t) PROVE CountInv'
  <2>1. CASE Abandon(t)
    <3>1. /\ step[t] = "detected" /\ Goes(t, "out")
          /\ UNCHANGED <<stats, count, ended, failed, tracking, ring>>
          /\ dropped' = dropped /\ abandoned' = abandoned + 1 /\ dropped \in Nat /\ abandoned \in Nat
      BY <2>1 DEF Abandon, watcherVars, TypeInv
    <3>2. dropped' + abandoned' = dropped + abandoned + 1 /\ dropped' \in Nat /\ abandoned' \in Nat
      BY <3>1
    <3>. QED  BY <3>1, <3>2, GivenUpCounts
  <2>. QED  BY <1>1, <2>1, EnterCounts, ReserveCounts, CountEmittedCounts, UpdateLatestCounts,
               SubmitCounts DEF GoesOn
<1>2. ASSUME NEW ok \in BOOLEAN, handle_event(ok) PROVE CountInv'
  <2>1. OpenInv' /\ Cardinality(ReadyPlaces') = Cardinality(ReadyPlaces) - 1
    BY <1>2, HandleTypes, TakenCounts DEF handle_event
  <2>2. SavedInv' /\ count'.events = count.events + 1
    BY <1>2, SavedCounts DEF CountInv
  <2>3. UNCHANGED <<stats, dropped, abandoned>>
        /\ At(Uncounted)' = At(Uncounted) /\ At(Unsubmitted)' = At(Unsubmitted)
    BY <1>2 DEF handle_event, At
  <2>4. {Cardinality(ReadyPlaces), Cardinality(At(Unsubmitted)), count.events} \subseteq Nat
    BY ReadyIsFinite, AtIsFinite DEF TypeInv
  <2>5. RingInv'
    BY <2>1, <2>2, <2>3, <2>4 DEF CountInv, RingInv
  <2>6. ProbeInv'
    BY <2>3 DEF CountInv, ProbeInv
  <2>. QED  BY <2>1, <2>2, <2>5, <2>6 DEF CountInv
<1>3. CASE Stop
  <2>1. ring' = <<>> /\ step' = [t \in Thread |-> "out"]
    BY <1>3 DEF Stop
  <2>2. At(Uncounted)' = {} /\ At(Unsubmitted)' = {} /\ ReadyPlaces' = {} /\ OpenInv'
    BY <2>1 DEF At, Uncounted, Unsubmitted, ReadyPlaces, OpenInv, Open, Idle
  <2>3. /\ Cardinality(At(Uncounted)') = 0 /\ Cardinality(At(Unsubmitted)') = 0
        /\ Cardinality(ReadyPlaces') = 0
    BY <2>2, FS_EmptySet
  <2>. QED  BY <1>3, <2>2, <2>3
       DEF Stop, NoStats, NoCount, CountInv, ProbeInv, RingInv, SavedInv
<1>4. CASE UNCHANGED <<tracking, probeVars, watcherVars>>
  <2>1. At(Uncounted)' = At(Uncounted) /\ At(Unsubmitted)' = At(Unsubmitted) /\ ReadyPlaces' = ReadyPlaces
    BY <1>4 DEF At, ReadyPlaces, probeVars
  <2>. QED  BY <1>4, <2>1
       DEF probeVars, watcherVars, CountInv, OpenInv, Open, ProbeInv, RingInv, SavedInv
<1>5. \/ Handle \/ Stop \/ UNCHANGED <<tracking, probeVars, watcherVars>>
      \/ \E t \in Thread : Enter(t) \/ GoesOn(t)
  BY DEF Next, Start, Enable, Poll, Tick, vars
<1>. QED  BY <1>1, <1>2, <1>3, <1>4, <1>5 DEF Handle

\* Every write of a session is emitted, dropped, without a terminal or in a probe that
\* has not counted it, what is emitted is handled, ready or in a probe that has not
\* submitted it, and what is handled is saved, skipped or failed: for any number of
\* threads at any steps of the probe, any size of the ring and any failures
\* (probe_tty_write, save_state).
THEOREM EventsAlwaysAccounted == FairSpec => []EventsAccounted
<1>1. Init => TypeInv /\ CountInv
  BY InitTypes, InitCounts
<1>2. TypeInv /\ CountInv /\ [Next]_vars => (TypeInv /\ CountInv)'
  BY NextTypes, NextCounts
<1>3. CountInv => EventsAccounted
  BY DEF CountInv, ProbeInv, RingInv, SavedInv, EventsAccounted, At, Uncounted, Unsubmitted,
         ReadyPlaces
<1>. QED  BY <1>1, <1>2, <1>3, PTL DEF FairSpec

-----------------------------------------------------------------------------
(* How a frame is read: the first and the last place of a search. *)

\* Induction, for a set: the library's theorem takes an operator.
LEMMA Induction ==
  ASSUME NEW S, 0 \in S, \A n \in Nat : n \in S => n + 1 \in S
  PROVE  Nat \subseteq S
<1> SUFFICES ASSUME NEW k \in Nat, k \notin S PROVE FALSE
  OBVIOUS
<1> DEFINE T == {n \in 0..k : n \notin S}
           f == [n \in T |-> n - 1]
<1>1. IsFiniteSet(T)
  <2>1. IsFiniteSet(0..k)
    BY FS_Interval
  <2> QED BY <2>1, FS_Subset
<1>2. \A n \in T : n - 1 \in T /\ n \in 0..k
  <2> SUFFICES ASSUME NEW n \in T PROVE n - 1 \in T
    OBVIOUS
  <2>1. n \in 0..k /\ n \notin S /\ n # 0
    OBVIOUS
  <2>2. n - 1 \in Nat /\ (n - 1) + 1 = n /\ n - 1 \in 0..k
    BY <2>1
  <2>3. n - 1 \notin S
    BY <2>1, <2>2
  <2> QED BY <2>2, <2>3
<1>3. f \in Injection(T, T)
  <2>1. f \in [T -> T]
    BY <1>2
  <2>2. \A a, b \in T : f[a] = f[b] => a = b
    BY <1>2
  <2> HIDE DEF f, T
  <2> QED BY <2>1, <2>2 DEF Injection, IsInjective
<1>4. f \in Surjection(T, T)
  <2> HIDE DEF f, T
  <2> QED BY <1>1, <1>3, FS_Injection
<1>5. k \in T
  OBVIOUS
<1>6. PICK n \in T : f[n] = k
  <2> HIDE DEF f, T
  <2> QED BY <1>4, <1>5 DEF Surjection
<1> QED BY <1>2, <1>6

\* A set of naturals that is not empty has a least one.
LEMMA LeastOne ==
  ASSUME NEW S \in SUBSET Nat, S # {}
  PROVE  \E n \in S : \A m \in S : n <= m
<1> SUFFICES ASSUME \A n \in S : \E m \in S : ~(n <= m) PROVE FALSE
  OBVIOUS
<1> DEFINE Below == {n \in Nat : \A m \in S : m > n}
<1>1. 0 \in Below
  <2> SUFFICES ASSUME NEW m \in S, ~(m > 0) PROVE FALSE
    OBVIOUS
  <2>1. PICK n \in S : ~(m <= n)
    OBVIOUS
  <2> QED BY <2>1
<1>2. \A n \in Nat : n \in Below => n + 1 \in Below
  <2> SUFFICES ASSUME NEW n \in Nat, \A m \in S : m > n, NEW m \in S, ~(m > n + 1) PROVE FALSE
    OBVIOUS
  <2>1. PICK l \in S : ~(m <= l)
    OBVIOUS
  <2> QED BY <2>1
<1>3. Nat \subseteq Below
  <2> HIDE DEF Below
  <2> QED BY <1>1, <1>2, Induction
<1>4. PICK s \in S : TRUE
  OBVIOUS
<1> QED BY <1>3, <1>4
-----------------------------------------------------------------------------
(* Where the parsers look. *)

LEMMA MinIs ==
  ASSUME NEW S, NEW x \in S, S \subseteq Int, \A y \in S : x =< y
  PROVE  Min(S) = x
<1> DEFINE P(z) == \A y \in S : z =< y
<1>1. P(Min(S)) /\ Min(S) \in S
  BY Zenon DEF Min
<1>2. Min(S) =< x /\ x =< Min(S) /\ Min(S) \in Int /\ x \in Int
  BY <1>1
<1> QED BY <1>2

LEMMA MaxIs ==
  ASSUME NEW S, NEW x \in S, S \subseteq Int, \A y \in S : x >= y
  PROVE  Max(S) = x
<1> DEFINE P(z) == \A y \in S : z >= y
<1>1. P(Max(S)) /\ Max(S) \in S
  BY Zenon DEF Max
<1>2. Max(S) >= x /\ x >= Max(S) /\ Max(S) \in Int /\ x \in Int
  BY <1>1
<1> QED BY <1>2

LEMMA MinOf ==
  ASSUME NEW S \in SUBSET Nat, S # {}
  PROVE  Min(S) \in S /\ \A y \in S : Min(S) =< y
<1>1. PICK x \in S : \A y \in S : x =< y
  BY LeastOne
<1>2. Min(S) = x
  <2>1. S \subseteq Int
    OBVIOUS
  <2> QED BY <1>1, <2>1, MinIs
<1> QED BY <1>1, <1>2

LEMMA MaxOf ==
  ASSUME NEW S \in SUBSET Nat, S # {}, NEW k \in Nat, \A y \in S : y =< k
  PROVE  Max(S) \in S /\ \A y \in S : Max(S) >= y
<1> DEFINE T == {n \in Nat : k - n \in S}
<1>1. T # {}
  <2>1. PICK y \in S : TRUE
    OBVIOUS
  <2>2. k - y \in Nat /\ k - (k - y) = y
    BY <2>1
  <2>3. k - y \in T
    BY <2>1, <2>2
  <2> QED BY <2>3
<1>2. PICK n \in T : \A m \in T : n =< m
  BY <1>1, LeastOne
<1>3. k - n \in S /\ n \in Nat
  BY <1>2
<1>4. ASSUME NEW y \in S PROVE k - n >= y
  <2>1. y \in Nat /\ k - y \in Nat /\ k - (k - y) = y
    BY <1>4
  <2>2. k - y \in T
    BY <1>4, <2>1
  <2>3. n =< k - y
    BY <1>2, <2>2
  <2> QED BY <1>3, <2>1, <2>3
<1>5. Max(S) = k - n
  <2>1. S \subseteq Int
    OBVIOUS
  <2> QED BY <1>3, <1>4, <2>1, MaxIs
<1> QED BY <1>3, <1>4, <1>5

\* T is S moved to the right by one.
Shifts(S, T) ==
  /\ S \in SUBSET Nat /\ T \in SUBSET Nat /\ S # {}
  /\ \A i \in S : i + 1 \in T
  /\ \A i \in T : i - 1 \in S

LEMMA MinShift ==
  ASSUME NEW S, NEW T, Shifts(S, T)
  PROVE  Min(T) = Min(S) + 1
<1>1. Min(S) \in S /\ \A y \in S : Min(S) =< y
  BY MinOf DEF Shifts
<1>2. Min(S) \in Nat /\ Min(S) + 1 \in T /\ T \subseteq Int
  <2>1. PICK x \in S : x = Min(S)
    BY <1>1
  <2>2. x \in Nat /\ x + 1 \in T /\ T \subseteq Int
    BY DEF Shifts
  <2> QED BY <2>1, <2>2
<1>3. ASSUME NEW y \in T PROVE Min(S) + 1 =< y
  <2>1. y \in Nat /\ y - 1 \in S
    BY <1>3 DEF Shifts
  <2>2. Min(S) =< y - 1
    BY <1>1, <2>1
  <2> QED BY <1>2, <2>1, <2>2
<1> QED BY <1>2, <1>3, MinIs

LEMMA MaxShift ==
  ASSUME NEW S, NEW T, Shifts(S, T), NEW k \in Nat, \A y \in S : y =< k
  PROVE  Max(T) = Max(S) + 1
<1>1. Max(S) \in S /\ \A y \in S : Max(S) >= y
  BY MaxOf DEF Shifts
<1>2. Max(S) \in Nat /\ Max(S) + 1 \in T /\ T \subseteq Int
  <2>1. PICK x \in S : x = Max(S)
    BY <1>1
  <2>2. x \in Nat /\ x + 1 \in T /\ T \subseteq Int
    BY DEF Shifts
  <2> QED BY <2>1, <2>2
<1>3. ASSUME NEW y \in T PROVE Max(S) + 1 >= y
  <2>1. y \in Nat /\ y - 1 \in S
    BY <1>3 DEF Shifts
  <2>2. Max(S) >= y - 1
    BY <1>1, <2>1
  <2> QED BY <1>2, <2>1, <2>2
<1> QED BY <1>2, <1>3, MaxIs

\* The first place from p on where b has the glyph, or one of those outside W.
LEMMA FirstIs ==
  ASSUME NEW G, NEW b \in Seq(G), NEW p \in Nat \ {0}, NEW g
  PROVE  LET f == First(b, p, g) IN
         /\ f \in Nat \ {0} /\ f =< Len(b) + 1
         /\ f =< Len(b) => f >= p /\ b[f] = g
         /\ \A i \in p .. Len(b) : i < f => b[i] # g
<1> DEFINE S == {i \in p .. Len(b) : b[i] = g} \union {Len(b) + 1}
           f == Min(S)
<1>1. Len(b) \in Nat /\ S \in SUBSET Nat /\ S # {} /\ Len(b) + 1 \in S
  OBVIOUS
<1>2. f \in S /\ \A y \in S : f =< y
  <2> HIDE DEF S
  <2> QED BY <1>1, MinOf
<1>3. f = First(b, p, g)
  BY DEF First
<1>4. f \in Nat \ {0} /\ f =< Len(b) + 1
  <2> HIDE DEF f
  <2> QED BY <1>1, <1>2
<1>5. f =< Len(b) => f >= p /\ b[f] = g
  <2> HIDE DEF f
  <2> QED BY <1>1, <1>2
<1>6. ASSUME NEW i \in p .. Len(b), i < f PROVE b[i] # g
  <2>1. b[i] = g => f =< i
    <3> HIDE DEF f
    <3> QED BY <1>2
  <2> HIDE DEF f
  <2> QED BY <1>4, <1>6, <2>1
<1> HIDE DEF f
<1> QED BY <1>3, <1>4, <1>5, <1>6

LEMMA SkipIs ==
  ASSUME NEW G, NEW b \in Seq(G), NEW p \in Nat \ {0}, NEW W
  PROVE  LET f == Skip(b, p, W) IN
         /\ f \in Nat \ {0} /\ f =< Len(b) + 1
         /\ f =< Len(b) => f >= p /\ b[f] \notin W
<1> DEFINE S == {i \in p .. Len(b) : b[i] \notin W} \union {Len(b) + 1}
           f == Min(S)
<1>1. Len(b) \in Nat /\ S \in SUBSET Nat /\ S # {} /\ Len(b) + 1 \in S
  OBVIOUS
<1>2. f \in S /\ \A y \in S : f =< y
  <2> HIDE DEF S
  <2> QED BY <1>1, MinOf
<1>3. f = Skip(b, p, W)
  BY DEF Skip
<1>4. f \in Nat \ {0} /\ f =< Len(b) + 1
  <2> HIDE DEF f
  <2> QED BY <1>1, <1>2
<1>5. f =< Len(b) => f >= p /\ b[f] \notin W
  <2> HIDE DEF f
  <2> QED BY <1>1, <1>2
<1> HIDE DEF f
<1> QED BY <1>3, <1>4, <1>5

LEMMA SkipBackIs ==
  ASSUME NEW G, NEW b \in Seq(G), NEW p \in Nat \ {0}, NEW q \in Int, NEW W
  PROVE  /\ SkipBack(b, p, q, W) \in Nat \ {0} /\ SkipBack(b, p, q, W) >= p
         /\ SkipBack(b, p, q, W) =< q \/ SkipBack(b, p, q, W) = p
<1> DEFINE S == {i \in p .. q : b[i] \notin W} \union {p}
           k == IF q < p THEN p ELSE q
<1>1. S \in SUBSET Nat /\ S # {} /\ p \in S /\ k \in Nat /\ \A y \in S : y =< k
  OBVIOUS
<1>2. Max(S) \in S /\ \A y \in S : Max(S) >= y
  <2> HIDE DEF S, k
  <2> QED BY <1>1, MaxOf
<1>3. Max(S) = SkipBack(b, p, q, W)
  BY DEF SkipBack
<1>4. Max(S) \in Nat \ {0} /\ Max(S) >= p /\ (Max(S) =< q \/ Max(S) = p)
  BY <1>1, <1>2
<1> HIDE DEF S
<1> QED BY <1>3, <1>4

LEMMA CutIs ==
  ASSUME NEW G, NEW b \in Seq(G), NEW p \in Nat \ {0}, NEW q \in Int, q =< Len(b)
  PROVE  /\ Cut(b, p, q) \in Seq(G)
         /\ Len(Cut(b, p, q)) = IF p =< q THEN q - p + 1 ELSE 0
         /\ \A i \in 1 .. q - p + 1 : Cut(b, p, q)[i] = b[p + i - 1]
<1>1. \A i \in p .. q : b[i] \in G
  OBVIOUS
<1> QED BY <1>1, SubSeqProperties DEF Cut

-----------------------------------------------------------------------------
(* A frame that is told to be a thinking state has a name. *)

\* The name from p on: as long as what is before the parenthesis, without blanks.
LEMMA NameIs ==
  ASSUME NEW G, NEW b \in Seq(G), NEW p \in 1 .. Len(b), b[p] \in Capital,
         First(b, p, "(") =< Len(b)
  PROVE  LET name == Cut(b, p, NameEnd(b, p)) IN
         /\ Len(name) = NameEnd(b, p) - p + 1
         /\ name # <<>> /\ Head(name) \in Capital /\ ~Has(name, "(")
<1> DEFINE f == First(b, p, "(")
           e == NameEnd(b, p)
           name == Cut(b, p, e)
<1>1. /\ f \in Nat \ {0} /\ f =< Len(b) /\ f >= p /\ b[f] = "("
      /\ \A i \in p .. Len(b) : i < f => b[i] # "("
  BY FirstIs
<1>2. f > p
  BY <1>1 DEF Capital
<1>3. e \in Nat /\ e >= p /\ e =< f - 1
  <2>1. f - 1 \in Int
    BY <1>1
  <2>2. e = SkipBack(b, p, f - 1, Blank)
    BY DEF NameEnd
  <2> HIDE DEF e, f
  <2>3. e \in Nat \ {0} /\ e >= p /\ (e =< f - 1 \/ e = p)
    BY <2>1, <2>2, SkipBackIs
  <2> QED BY <1>1, <1>2, <2>3
<1>4. /\ name \in Seq(G) /\ Len(name) = e - p + 1
      /\ \A i \in 1 .. e - p + 1 : name[i] = b[p + i - 1]
  <2>1. e \in Int /\ e =< Len(b) /\ p \in Nat \ {0}
    BY <1>1, <1>3
  <2> HIDE DEF e
  <2>2. Len(name) = IF p =< e THEN e - p + 1 ELSE 0
    BY <2>1, CutIs
  <2> QED BY <1>3, <2>1, <2>2, CutIs
<1> HIDE DEF name, e, f
<1>5. name # <<>> /\ Head(name) = b[p]
  BY <1>3, <1>4
<1>6. ~Has(name, "(")
  <2> SUFFICES ASSUME NEW i \in DOMAIN name PROVE name[i] # "("
    BY DEF Has
  <2>1. i \in 1 .. e - p + 1
    BY <1>4
  <2>2. p + i - 1 \in p .. Len(b) /\ p + i - 1 < f
    BY <1>1, <1>3, <2>1
  <2> QED BY <1>1, <1>4, <2>1, <2>2
<1> QED BY <1>4, <1>5, <1>6 DEF name, e

LEMMA SeqOfType ==
  ASSUME NEW S, NEW n, NEW s \in SeqOf(S, n)
  PROVE  s \in Seq(S)
BY DEF SeqOf

LEMMA EveryThinkingHasName == ThinkingHasName
<1> SUFFICES ASSUME NEW b \in Frame, is_thinking_state(b)
             PROVE  LET name == extract_thinking_state(b)
                        p == Skip(b, 1, White)
                    IN \/ name # <<>> /\ Head(name) \in Capital /\ ~Has(name, "(")
                       \/ name = <<>> /\ (Has(b, "*") \/ NameEnd(b, p) - p + 1 >= StateNameSize)
  BY DEF ThinkingHasName
<1> DEFINE name == extract_thinking_state(b)
           p == Skip(b, 1, White)
           s == NameStart(b)
<1>1. b \in Seq(ParseGlyphs) /\ Len(b) \in Nat
  BY SeqOfType DEF Frame
<1>2. p \in Nat \ {0} /\ p =< Len(b) + 1
  BY <1>1, SkipIs
<1>3. s \in Nat \ {0}
  <2>1. p + 1 \in Nat \ {0}
    BY <1>2
  <2>2. Skip(b, p + 1, Blank) \in Nat \ {0}
    <3> HIDE DEF p
    <3> QED BY <1>1, <2>1, SkipIs
  <2>3. s \in {p, Skip(b, p + 1, Blank)}
    BY DEF NameStart
  <2> HIDE DEF p, s
  <2> QED BY <1>2, <2>2, <2>3
<1>4. ASSUME name # <<>> PROVE Head(name) \in Capital /\ ~Has(name, "(")
  <2>1. /\ s =< Len(b) /\ b[s] \in Capital /\ First(b, s, "(") =< Len(b)
        /\ name = Cut(b, s, NameEnd(b, s))
    BY <1>4 DEF extract_thinking_state
  <2>2. s \in 1 .. Len(b)
    BY <1>1, <1>3, <2>1
  <2> HIDE DEF name, s
  <2> QED BY <1>1, <2>1, <2>2, NameIs
<1>5. ASSUME name = <<>>, ~Has(b, "*") PROVE NameEnd(b, p) - p + 1 >= StateNameSize
  <2>1. p =< Len(b) /\ b[p] \in Capital /\ First(b, p, "(") =< Len(b)
    BY <1>1, <1>2, <1>5 DEF is_thinking_state
  <2>2. p \in 1 .. Len(b)
    <3> HIDE DEF p
    <3> QED BY <1>1, <1>2, <2>1
  <2>3. s = p
    BY <2>1 DEF NameStart, Capital
  <2> HIDE DEF p, s
  <2>4. /\ Cut(b, p, NameEnd(b, p)) # <<>>
        /\ Len(Cut(b, p, NameEnd(b, p))) = NameEnd(b, p) - p + 1
    BY <1>1, <2>1, <2>2, NameIs
  <2>5. ~(Len(Cut(b, p, NameEnd(b, p))) < StateNameSize)
    BY <1>5, <2>1, <2>3, <2>4 DEF extract_thinking_state, s
  <2>6. NameEnd(b, p) \in Int /\ p \in Int /\ StateNameSize \in Int
    <3>1. First(b, p, "(") - 1 \in Int
      <4>1. First(b, p, "(") \in Nat
        BY <1>1, <2>2, FirstIs
      <4> QED BY <4>1
    <3>2. NameEnd(b, p) \in Nat
      BY <1>1, <2>2, <3>1, SkipBackIs DEF NameEnd
    <3> QED BY <2>2, <3>2, FrameAssumption
  <2> QED BY <2>4, <2>5, <2>6
<1> HIDE DEF name, p
<1>6. \/ name # <<>> /\ Head(name) \in Capital /\ ~Has(name, "(")
      \/ name = <<>> /\ (Has(b, "*") \/ NameEnd(b, p) - p + 1 >= StateNameSize)
  BY <1>4, <1>5
<1> QED BY <1>6 DEF name, p

-----------------------------------------------------------------------------
(* A frame drawn one place further to the right. *)

\* m is b after one space.
Moved(b, m) ==
  /\ Len(m) = Len(b) + 1 /\ DOMAIN m = 1 .. Len(m) /\ m[1] = "sp"
  /\ \A i \in 1 .. Len(b) : m[i + 1] = b[i]

LEMMA FirstMoves ==
  ASSUME NEW G, NEW b \in Seq(G), NEW m, Moved(b, m), NEW p \in Nat \ {0}, NEW g
  PROVE  First(m, p + 1, g) = First(b, p, g) + 1
<1> DEFINE S == {i \in p .. Len(b) : b[i] = g} \union {Len(b) + 1}
           T == {i \in p + 1 .. Len(m) : m[i] = g} \union {Len(m) + 1}
<1>1. Len(b) \in Nat /\ Len(m) = Len(b) + 1 /\ \A i \in 1 .. Len(b) : m[i + 1] = b[i]
  BY DEF Moved
<1>2. ASSUME NEW i \in S PROVE i + 1 \in T
  <2>1. CASE i = Len(b) + 1
    BY <1>1, <2>1
  <2>2. CASE i \in p .. Len(b) /\ b[i] = g
    <3>1. i \in 1 .. Len(b) /\ i + 1 \in p + 1 .. Len(m)
      BY <1>1, <2>2
    <3> QED BY <1>1, <2>2, <3>1
  <2> QED BY <2>1, <2>2
<1>3. ASSUME NEW i \in T PROVE i - 1 \in S
  <2>1. CASE i = Len(m) + 1
    BY <1>1, <2>1
  <2>2. CASE i \in p + 1 .. Len(m) /\ m[i] = g
    <3>1. i - 1 \in 1 .. Len(b) /\ i - 1 \in p .. Len(b) /\ (i - 1) + 1 = i
      BY <1>1, <2>2
    <3> QED BY <1>1, <2>2, <3>1
  <2> QED BY <2>1, <2>2
<1>4. Shifts(S, T)
  <2>1. S \in SUBSET Nat /\ T \in SUBSET Nat /\ S # {}
    BY <1>1
  <2> HIDE DEF S, T
  <2> QED BY <1>2, <1>3, <2>1 DEF Shifts
<1>5. First(b, p, g) = Min(S) /\ First(m, p + 1, g) = Min(T)
  BY DEF First
<1> HIDE DEF S, T
<1> QED BY <1>4, <1>5, MinShift

LEMMA SkipMoves ==
  ASSUME NEW G, NEW b \in Seq(G), NEW m, Moved(b, m), NEW p \in Nat \ {0}, NEW W
  PROVE  Skip(m, p + 1, W) = Skip(b, p, W) + 1
<1> DEFINE S == {i \in p .. Len(b) : b[i] \notin W} \union {Len(b) + 1}
           T == {i \in p + 1 .. Len(m) : m[i] \notin W} \union {Len(m) + 1}
<1>1. Len(b) \in Nat /\ Len(m) = Len(b) + 1 /\ \A i \in 1 .. Len(b) : m[i + 1] = b[i]
  BY DEF Moved
<1>2. ASSUME NEW i \in S PROVE i + 1 \in T
  <2>1. CASE i = Len(b) + 1
    BY <1>1, <2>1
  <2>2. CASE i \in p .. Len(b) /\ b[i] \notin W
    <3>1. i \in 1 .. Len(b) /\ i + 1 \in p + 1 .. Len(m)
      BY <1>1, <2>2
    <3> QED BY <1>1, <2>2, <3>1
  <2> QED BY <2>1, <2>2
<1>3. ASSUME NEW i \in T PROVE i - 1 \in S
  <2>1. CASE i = Len(m) + 1
    BY <1>1, <2>1
  <2>2. CASE i \in p + 1 .. Len(m) /\ m[i] \notin W
    <3>1. i - 1 \in 1 .. Len(b) /\ i - 1 \in p .. Len(b) /\ (i - 1) + 1 = i
      BY <1>1, <2>2
    <3> QED BY <1>1, <2>2, <3>1
  <2> QED BY <2>1, <2>2
<1>4. Shifts(S, T)
  <2>1. S \in SUBSET Nat /\ T \in SUBSET Nat /\ S # {}
    BY <1>1
  <2> HIDE DEF S, T
  <2> QED BY <1>2, <1>3, <2>1 DEF Shifts
<1>5. Skip(b, p, W) = Min(S) /\ Skip(m, p + 1, W) = Min(T)
  BY DEF Skip
<1> HIDE DEF S, T
<1> QED BY <1>4, <1>5, MinShift

LEMMA SkipBackMoves ==
  ASSUME NEW G, NEW b \in Seq(G), NEW m, Moved(b, m), NEW p \in Nat \ {0}, NEW q \in Int,
         q =< Len(b), NEW W
  PROVE  SkipBack(m, p + 1, q + 1, W) = SkipBack(b, p, q, W) + 1
<1> DEFINE S == {i \in p .. q : b[i] \notin W} \union {p}
           T == {i \in p + 1 .. q + 1 : m[i] \notin W} \union {p + 1}
           k == IF q < p THEN p ELSE q
<1>1. Len(b) \in Nat /\ \A i \in 1 .. Len(b) : m[i + 1] = b[i]
  BY DEF Moved
<1>2. ASSUME NEW i \in S PROVE i + 1 \in T
  <2>1. CASE i = p
    BY <2>1
  <2>2. CASE i \in p .. q /\ b[i] \notin W
    <3>1. i \in 1 .. Len(b) /\ i + 1 \in p + 1 .. q + 1
      BY <1>1, <2>2
    <3> QED BY <1>1, <2>2, <3>1
  <2> QED BY <2>1, <2>2
<1>3. ASSUME NEW i \in T PROVE i - 1 \in S
  <2>1. CASE i = p + 1
    BY <2>1
  <2>2. CASE i \in p + 1 .. q + 1 /\ m[i] \notin W
    <3>1. i - 1 \in 1 .. Len(b) /\ i - 1 \in p .. q /\ (i - 1) + 1 = i
      BY <1>1, <2>2
    <3> QED BY <1>1, <2>2, <3>1
  <2> QED BY <2>1, <2>2
<1>4. Shifts(S, T) /\ k \in Nat /\ \A y \in S : y =< k
  <2>1. S \in SUBSET Nat /\ T \in SUBSET Nat /\ S # {} /\ k \in Nat /\ \A y \in S : y =< k
    OBVIOUS
  <2> HIDE DEF S, T, k
  <2> QED BY <1>2, <1>3, <2>1 DEF Shifts
<1>5. SkipBack(b, p, q, W) = Max(S) /\ SkipBack(m, p + 1, q + 1, W) = Max(T)
  BY DEF SkipBack
<1> HIDE DEF S, T, k
<1> QED BY <1>4, <1>5, MaxShift

LEMMA CutMoves ==
  ASSUME NEW G, NEW b \in Seq(G), NEW m \in Seq(G \union {"sp"}), Moved(b, m),
         NEW p \in Nat \ {0}, NEW q \in Int, q =< Len(b)
  PROVE  Cut(m, p + 1, q + 1) = Cut(b, p, q)
<1>1. /\ Len(b) \in Nat /\ Len(m) = Len(b) + 1 /\ \A i \in 1 .. Len(b) : m[i + 1] = b[i]
      /\ p + 1 \in Nat \ {0} /\ q + 1 \in Int /\ q + 1 =< Len(m)
  BY DEF Moved
<1>2. /\ Cut(b, p, q) \in Seq(G \union {"sp"})
      /\ Len(Cut(b, p, q)) = IF p =< q THEN q - p + 1 ELSE 0
      /\ \A i \in 1 .. q - p + 1 : Cut(b, p, q)[i] = b[p + i - 1]
  <2>1. b \in Seq(G \union {"sp"})
    OBVIOUS
  <2> QED BY <2>1, CutIs
<1>3. /\ Cut(m, p + 1, q + 1) \in Seq(G \union {"sp"})
      /\ Len(Cut(m, p + 1, q + 1)) = IF p + 1 =< q + 1 THEN (q + 1) - (p + 1) + 1 ELSE 0
      /\ \A i \in 1 .. (q + 1) - (p + 1) + 1 : Cut(m, p + 1, q + 1)[i] = m[(p + 1) + i - 1]
  <2>1. PICK c \in Nat \ {0}, d \in Int : c = p + 1 /\ d = q + 1
    BY <1>1
  <2>2. d =< Len(m)
    BY <1>1, <2>1
  <2>3. PICK H, w : H = G \union {"sp"} /\ w = m /\ w \in Seq(H)
    OBVIOUS
  <2>4. d =< Len(w)
    BY <2>2, <2>3
  <2>5. /\ Cut(w, c, d) \in Seq(H)
        /\ Len(Cut(w, c, d)) = IF c =< d THEN d - c + 1 ELSE 0
        /\ \A i \in 1 .. d - c + 1 : Cut(w, c, d)[i] = w[c + i - 1]
    BY <2>3, <2>4, CutIs
  <2> QED BY <2>1, <2>3, <2>5
<1> DEFINE s == Cut(b, p, q)
           t == Cut(m, p + 1, q + 1)
<1>4. Len(s) = Len(t)
  BY <1>2, <1>3
<1>5. ASSUME NEW i \in 1 .. Len(s) PROVE s[i] = t[i]
  <2>1. i \in 1 .. q - p + 1 /\ i \in 1 .. (q + 1) - (p + 1) + 1
    BY <1>2
  <2>2. p + i - 1 \in 1 .. Len(b) /\ (p + i - 1) + 1 = (p + 1) + i - 1
    BY <1>1, <2>1
  <2>3. t[i] = m[(p + 1) + i - 1] /\ s[i] = b[p + i - 1]
    BY <1>2, <1>3, <2>1
  <2> HIDE DEF s, t
  <2> QED BY <1>1, <2>2, <2>3
<1> HIDE DEF s, t
<1>6. s = t
  <2>1. s \in Seq(G \union {"sp"}) /\ t \in Seq(G \union {"sp"})
    BY <1>2, <1>3 DEF s, t
  <2> QED BY <1>4, <1>5, <2>1, SeqEqual
<1> QED BY <1>6 DEF s, t

LEMMA MovedIs ==
  ASSUME NEW G, NEW b \in Seq(G)
  PROVE  <<"sp">> \o b \in Seq(G \union {"sp"}) /\ Moved(b, <<"sp">> \o b)
<1> DEFINE s == <<"sp">>
           H == G \union {"sp"}
           m == s \o b
<1>1. s \in Seq(H) /\ b \in Seq(H) /\ Len(s) = 1 /\ s[1] = "sp" /\ Len(b) \in Nat
  OBVIOUS
<1>2. /\ m \in Seq(H) /\ Len(m) = Len(s) + Len(b)
      /\ \A i \in 1 .. Len(s) + Len(b) : m[i] = IF i =< Len(s) THEN s[i] ELSE b[i - Len(s)]
  <2> HIDE DEF s, H
  <2> QED BY <1>1, ConcatProperties
<1> HIDE DEF s, H, m
<1>3. Len(m) = Len(b) + 1 /\ DOMAIN m = 1 .. Len(m)
  BY <1>1, <1>2
<1>4. m[1] = "sp"
  BY <1>1, <1>2
<1>5. ASSUME NEW i \in 1 .. Len(b) PROVE m[i + 1] = b[i]
  <2>1. i + 1 \in 1 .. Len(s) + Len(b) /\ ~(i + 1 =< Len(s)) /\ (i + 1) - Len(s) = i
    BY <1>1
  <2> QED BY <1>2, <2>1
<1>6. Moved(b, m)
  BY <1>3, <1>4, <1>5 DEF Moved
<1> QED BY <1>2, <1>6 DEF s, H, m

\* From the start, too, if the space is not what is looked for.
LEMMA FromStart ==
  ASSUME NEW G, NEW b \in Seq(G), NEW m, Moved(b, m)
  PROVE  /\ \A g : g # "sp" => First(m, 1, g) = First(b, 1, g) + 1
         /\ \A W : "sp" \in W => Skip(m, 1, W) = Skip(b, 1, W) + 1
<1>1. m[1] = "sp" /\ Len(m) \in Nat /\ 1 + 1 = 2 /\ 1 \in Nat \ {0}
  BY DEF Moved
<1>2. ASSUME NEW g, g # "sp" PROVE First(m, 1, g) = First(b, 1, g) + 1
  <2>1. {i \in 1 .. Len(m) : m[i] = g} = {i \in 2 .. Len(m) : m[i] = g}
    BY <1>1, <1>2
  <2>2. First(m, 1, g) = First(m, 2, g)
    BY <2>1 DEF First
  <2>3. First(m, 1 + 1, g) = First(b, 1, g) + 1
    BY <1>1, FirstMoves
  <2> QED BY <1>1, <2>2, <2>3
<1>3. ASSUME NEW W, "sp" \in W PROVE Skip(m, 1, W) = Skip(b, 1, W) + 1
  <2>1. {i \in 1 .. Len(m) : m[i] \notin W} = {i \in 2 .. Len(m) : m[i] \notin W}
    BY <1>1, <1>3
  <2>2. Skip(m, 1, W) = Skip(m, 2, W)
    BY <2>1 DEF Skip
  <2>3. Skip(m, 1 + 1, W) = Skip(b, 1, W) + 1
    BY <1>1, SkipMoves
  <2> QED BY <1>1, <2>2, <2>3
<1> QED BY <1>2, <1>3

LEMMA HasMoves ==
  ASSUME NEW G, NEW b \in Seq(G), NEW m, Moved(b, m), NEW g, g # "sp"
  PROVE  Has(m, g) <=> Has(b, g)
<1>1. ASSUME NEW i \in DOMAIN b, b[i] = g PROVE Has(m, g)
  <2>1. i \in 1 .. Len(b) /\ i + 1 \in DOMAIN m /\ m[i + 1] = g
    BY <1>1 DEF Moved
  <2> QED BY <2>1 DEF Has
<1>2. ASSUME NEW i \in DOMAIN m, m[i] = g PROVE Has(b, g)
  <2>1. i \in 1 .. Len(b) + 1 /\ i # 1
    BY <1>2 DEF Moved
  <2>2. i - 1 \in 1 .. Len(b) /\ (i - 1) + 1 = i
    BY <2>1
  <2>3. b[i - 1] = g /\ i - 1 \in DOMAIN b
    BY <1>2, <2>2 DEF Moved
  <2> QED BY <2>3 DEF Has
<1> QED BY <1>1, <1>2 DEF Has

\* Where the name ends in m, that is b moved.
EndMoved(b, m, p) ==
  /\ NameEnd(m, p + 1) = NameEnd(b, p) + 1
  /\ NameEnd(b, p) \in Nat \ {0} /\ NameEnd(b, p) >= p
  /\ NameEnd(b, p) =< First(b, p, "(") - 1 \/ NameEnd(b, p) = p

LEMMA NameEndMoves ==
  ASSUME NEW G, NEW b \in Seq(G), NEW m, Moved(b, m), NEW p \in Nat \ {0}
  PROVE  EndMoved(b, m, p)
<1>1. PICK f \in Nat \ {0} : f = First(b, p, "(") /\ f =< Len(b) + 1
  BY FirstIs
<1>2. First(m, p + 1, "(") = f + 1
  BY <1>1, FirstMoves
<1>3. f - 1 \in Int /\ f - 1 =< Len(b) /\ (f + 1) - 1 = (f - 1) + 1
  BY <1>1
<1>4. SkipBack(m, p + 1, (f - 1) + 1, Blank) = SkipBack(b, p, f - 1, Blank) + 1
  BY <1>3, SkipBackMoves
<1>5. NameEnd(b, p) = SkipBack(b, p, f - 1, Blank) /\ NameEnd(m, p + 1) = SkipBack(m, p + 1, (f + 1) - 1, Blank)
  BY <1>1, <1>2 DEF NameEnd
<1>6. /\ SkipBack(b, p, f - 1, Blank) \in Nat \ {0} /\ SkipBack(b, p, f - 1, Blank) >= p
      /\ SkipBack(b, p, f - 1, Blank) =< f - 1 \/ SkipBack(b, p, f - 1, Blank) = p
  BY <1>3, SkipBackIs
<1> QED BY <1>1, <1>3, <1>4, <1>5, <1>6 DEF EndMoved

LEMMA CallMoves ==
  ASSUME NEW G, NEW b \in Seq(G), NEW m, Moved(b, m), NEW p \in Nat \ {0}
  PROVE  LooksLikeCall(m, p + 1) <=> LooksLikeCall(b, p)
<1>1. PICK f \in Nat \ {0} : f = First(b, p, "(")
  BY FirstIs
<1>2. First(m, p + 1, "(") = f + 1
  BY <1>1, FirstMoves
<1>3. PICK a \in Nat \ {0} : a = Skip(b, f + 1, Blank)
  <2>1. f + 1 \in Nat \ {0}
    OBVIOUS
  <2> QED BY <2>1, SkipIs
<1>4. Skip(m, (f + 1) + 1, Blank) = a + 1
  <2>1. f + 1 \in Nat \ {0}
    OBVIOUS
  <2> QED BY <1>3, <2>1, SkipMoves
<1>5. PICK e \in Nat \ {0} : e = NameEnd(b, p) /\ NameEnd(m, p + 1) = e + 1
  <2>1. NameEnd(b, p) \in Nat \ {0} /\ NameEnd(m, p + 1) = NameEnd(b, p) + 1
    <3>1. EndMoved(b, m, p)
      BY NameEndMoves
    <3> QED BY <3>1 DEF EndMoved
  <2> QED BY <2>1
<1>6. LooksLikeCall(b, p) <=> (e > p /\ a <= Len(b) /\ b[a] # "nl")
  BY <1>1, <1>3, <1>5 DEF LooksLikeCall
<1>7. LooksLikeCall(m, p + 1) <=> (e + 1 > p + 1 /\ a + 1 <= Len(m) /\ m[a + 1] # "nl")
  BY <1>2, <1>4, <1>5 DEF LooksLikeCall
<1>8. Len(b) \in Nat /\ Len(m) = Len(b) + 1 /\ \A i \in 1 .. Len(b) : m[i + 1] = b[i]
  BY DEF Moved
<1>9. (e + 1 > p + 1 <=> e > p) /\ (a + 1 <= Len(m) <=> a <= Len(b))
  BY <1>8
<1>10. a <= Len(b) => m[a + 1] = b[a]
  BY <1>8
<1> QED BY <1>6, <1>7, <1>9, <1>10

LEMMA ThinkingMoves ==
  ASSUME NEW G, NEW b \in Seq(G), NEW m, Moved(b, m)
  PROVE  is_thinking_state(m) <=> is_thinking_state(b)
<1>1. PICK p \in Nat \ {0} : p = Skip(b, 1, White)
  BY SkipIs
<1>2. Skip(m, 1, White) = p + 1
  <2>1. "sp" \in White
    BY DEF White, Blank
  <2> QED BY <1>1, <2>1, FromStart
<1>3. PICK f \in Nat : f = First(b, p, "(") /\ First(m, p + 1, "(") = f + 1
  <2>1. First(b, p, "(") \in Nat
    BY FirstIs
  <2> QED BY <2>1, FirstMoves
<1>4. /\ Has(m, "*") <=> Has(b, "*")
      /\ Has(m, "esc") <=> Has(b, "esc")
      /\ Has(m, "brand") <=> Has(b, "brand")
  BY HasMoves
<1>5. LooksLikeCall(m, p + 1) <=> LooksLikeCall(b, p)
  BY CallMoves
<1>6. Len(b) \in Nat /\ Len(m) = Len(b) + 1 /\ \A i \in 1 .. Len(b) : m[i + 1] = b[i]
  BY DEF Moved
<1>7. (p + 1 > Len(m) <=> p > Len(b)) /\ (f + 1 <= Len(m) <=> f <= Len(b))
  BY <1>6
<1>8. ~(p > Len(b)) => m[p + 1] = b[p]
  BY <1>6
<1>9. is_thinking_state(b) <=> IF p > Len(b) \/ b[p] \notin Capital
                               THEN Has(b, "*") /\ Has(b, "esc")
                               ELSE f <= Len(b) /\ ~LooksLikeCall(b, p) /\ ~Has(b, "brand")
  BY <1>1, <1>3 DEF is_thinking_state
<1>10. is_thinking_state(m) <=> IF p + 1 > Len(m) \/ m[p + 1] \notin Capital
                                THEN Has(m, "*") /\ Has(m, "esc")
                                ELSE f + 1 <= Len(m) /\ ~LooksLikeCall(m, p + 1) /\ ~Has(m, "brand")
  BY <1>2, <1>3 DEF is_thinking_state
<1> QED BY <1>4, <1>5, <1>7, <1>8, <1>9, <1>10

LEMMA NameStartMoves ==
  ASSUME NEW G, NEW b \in Seq(G), NEW m, Moved(b, m)
  PROVE  NameStart(b) \in Nat \ {0} /\ NameStart(m) = NameStart(b) + 1
<1>1. PICK p \in Nat \ {0} : p = Skip(b, 1, White)
  BY SkipIs
<1>2. Skip(m, 1, White) = p + 1
  <2>1. "sp" \in White
    BY DEF White, Blank
  <2> QED BY <1>1, <2>1, FromStart
<1>3. PICK r \in Nat \ {0} : r = Skip(b, p + 1, Blank) /\ Skip(m, (p + 1) + 1, Blank) = r + 1
  <2>1. p + 1 \in Nat \ {0}
    OBVIOUS
  <2> QED BY <2>1, SkipIs, SkipMoves
<1>4. Len(b) \in Nat /\ Len(m) = Len(b) + 1 /\ \A i \in 1 .. Len(b) : m[i + 1] = b[i]
  BY DEF Moved
<1>5. (p + 1 <= Len(m) <=> p <= Len(b)) /\ (p <= Len(b) => m[p + 1] = b[p])
  BY <1>4
<1>6. NameStart(b) = IF p <= Len(b) /\ b[p] = "*" THEN r ELSE p
  BY <1>1, <1>3 DEF NameStart
<1>7. NameStart(m) = IF p + 1 <= Len(m) /\ m[p + 1] = "*" THEN r + 1 ELSE p + 1
  BY <1>2, <1>3 DEF NameStart
<1> QED BY <1>5, <1>6, <1>7

LEMMA NameMoves ==
  ASSUME NEW G, NEW b \in Seq(G), NEW m \in Seq(G \union {"sp"}), Moved(b, m)
  PROVE  extract_thinking_state(m) = extract_thinking_state(b)
<1>1. PICK p \in Nat \ {0} : p = NameStart(b) /\ NameStart(m) = p + 1
  BY NameStartMoves
<1>2. PICK e \in Nat \ {0} : /\ e = NameEnd(b, p) /\ NameEnd(m, p + 1) = e + 1
                             /\ e =< First(b, p, "(") - 1 \/ e = p
  <2>1. EndMoved(b, m, p)
    BY NameEndMoves
  <2> QED BY <2>1 DEF EndMoved
<1>3. PICK f \in Nat : f = First(b, p, "(") /\ First(m, p + 1, "(") = f + 1
  <2>1. First(b, p, "(") \in Nat
    BY FirstIs
  <2> QED BY <2>1, FirstMoves
<1>4. Len(b) \in Nat /\ Len(m) = Len(b) + 1 /\ \A i \in 1 .. Len(b) : m[i + 1] = b[i]
  BY DEF Moved
<1>5. (p + 1 <= Len(m) <=> p <= Len(b)) /\ (f + 1 <= Len(m) <=> f <= Len(b))
      /\ (p <= Len(b) => m[p + 1] = b[p])
  BY <1>4
<1>6. ASSUME p <= Len(b), f <= Len(b) PROVE Cut(m, p + 1, e + 1) = Cut(b, p, e)
  <2>1. e =< Len(b) /\ e \in Int
    BY <1>2, <1>3, <1>4, <1>6
  <2> QED BY <2>1, CutMoves
<1>7. extract_thinking_state(b) =
        IF p <= Len(b) /\ b[p] \in Capital /\ f <= Len(b) /\ Len(Cut(b, p, e)) < StateNameSize
        THEN Cut(b, p, e) ELSE <<>>
  BY <1>1, <1>2, <1>3 DEF extract_thinking_state
<1>8. extract_thinking_state(m) =
        IF p + 1 <= Len(m) /\ m[p + 1] \in Capital /\ f + 1 <= Len(m) /\ Len(Cut(m, p + 1, e + 1)) < StateNameSize
        THEN Cut(m, p + 1, e + 1) ELSE <<>>
  BY <1>1, <1>2, <1>3 DEF extract_thinking_state
<1> QED BY <1>5, <1>6, <1>7, <1>8

LEMMA ToolMoves ==
  ASSUME NEW G, NEW b \in Seq(G), NEW m \in Seq(G \union {"sp"}), Moved(b, m),
         First(b, 1, "(") < ToolNameSize - 1
  PROVE  ParseTool(m) = ParseTool(b)
<1>1. PICK f \in Nat \ {0} : f = First(b, 1, "(") /\ f =< Len(b) + 1
  BY FirstIs
<1>2. First(m, 1, "(") = f + 1
  BY <1>1, FromStart
<1>3. PICK s \in Nat \ {0} : s = Skip(b, 1, {"sp", "nl"}) /\ Skip(m, 1, {"sp", "nl"}) = s + 1
  <2>1. Skip(b, 1, {"sp", "nl"}) \in Nat \ {0}
    BY SkipIs
  <2> QED BY <2>1, FromStart
<1>4. Len(b) \in Nat /\ Len(m) = Len(b) + 1 /\ ToolNameSize \in Nat
  BY FrameAssumption DEF Moved
<1>5. Cut(m, s + 1, (f - 1) + 1) = Cut(b, s, f - 1)
  <2>1. f - 1 \in Int /\ f - 1 =< Len(b)
    BY <1>1, <1>4
  <2> QED BY <2>1, CutMoves
<1>6. (f + 1) - 1 = (f - 1) + 1
  OBVIOUS
<1>7. ParseTool(b) = IF f \in 2 .. ToolNameSize - 1 /\ f <= Len(b) THEN Cut(b, s, f - 1) ELSE <<>>
  BY <1>1, <1>3 DEF ParseTool
<1>8. ParseTool(m) = IF f + 1 \in 2 .. ToolNameSize - 1 /\ f + 1 <= Len(m)
                     THEN Cut(m, s + 1, (f - 1) + 1) ELSE <<>>
  BY <1>2, <1>3, <1>6 DEF ParseTool
<1>9. CASE f = 1
  <2>1. 0 \in Int /\ s \in Int /\ 0 < s /\ f - 1 = 0
    BY <1>9
  <2>2. Cut(b, s, 0) = <<>>
    BY <2>1, SubSeqEmpty DEF Cut
  <2> QED BY <1>5, <1>7, <1>8, <1>9, <2>1, <2>2
<1>10. CASE f # 1
  <2>1. f \in 2 .. ToolNameSize - 1 /\ f + 1 \in 2 .. ToolNameSize - 1
    BY <1>1, <1>4, <1>10
  <2>2. f + 1 <= Len(m) <=> f <= Len(b)
    BY <1>4
  <2> QED BY <1>5, <1>7, <1>8, <2>1, <2>2
<1> QED BY <1>9, <1>10

LEMMA ArgsMove ==
  ASSUME NEW G, NEW b \in Seq(G), NEW m \in Seq(G \union {"sp"}), Moved(b, m)
  PROVE  ParseArgs(m) = ParseArgs(b)
<1>1. PICK f \in Nat \ {0} : f = First(b, 1, "(")
  BY FirstIs
<1>2. First(m, 1, "(") = f + 1
  BY <1>1, FromStart
<1> DEFINE S == {i \in DOMAIN b : b[i] = ")"}
           T == {i \in DOMAIN m : m[i] = ")"}
<1>3. /\ Len(b) \in Nat /\ Len(m) = Len(b) + 1 /\ DOMAIN m = 1 .. Len(b) + 1
      /\ DOMAIN b = 1 .. Len(b) /\ m[1] = "sp" /\ \A i \in 1 .. Len(b) : m[i + 1] = b[i]
  BY DEF Moved
<1>4. \A i \in S : i + 1 \in T
  BY <1>3
<1>5. ASSUME NEW i \in T PROVE i - 1 \in S
  <2>1. i \in 1 .. Len(b) + 1 /\ m[i] = ")" /\ i # 1
    BY <1>3
  <2>2. i - 1 \in 1 .. Len(b) /\ (i - 1) + 1 = i
    BY <1>3, <2>1
  <2> QED BY <1>3, <2>1, <2>2
<1>6. S \in SUBSET Nat /\ T \in SUBSET Nat /\ \A y \in S : y =< Len(b)
  BY <1>3
<1>7. ParseArgs(b) = IF f <= Len(b) /\ S # {} /\ Max(S) > f THEN Cut(b, f + 1, Max(S) - 1) ELSE <<>>
  BY <1>1 DEF ParseArgs
<1>8. ParseArgs(m) = IF f + 1 <= Len(m) /\ T # {} /\ Max(T) > f + 1
                     THEN Cut(m, (f + 1) + 1, Max(T) - 1) ELSE <<>>
  BY <1>2 DEF ParseArgs
<1> HIDE DEF S, T
<1>9. CASE S = {}
  <2>1. T = {}
    BY <1>5, <1>9
  <2> QED BY <1>7, <1>8, <1>9, <2>1
<1>10. CASE S # {}
  <2>1. Shifts(S, T)
    BY <1>4, <1>5, <1>6, <1>10 DEF Shifts
  <2>2. Max(T) = Max(S) + 1
    BY <1>3, <1>6, <2>1, MaxShift
  <2>3. PICK k \in Nat : k = Max(S) /\ k =< Len(b)
    BY <1>3, <1>6, <1>10, MaxOf
  <2>4. T # {}
    BY <1>4, <1>10
  <2>5. Cut(m, (f + 1) + 1, (k - 1) + 1) = Cut(b, f + 1, k - 1)
    <3>1. f + 1 \in Nat \ {0} /\ k - 1 \in Int /\ k - 1 =< Len(b)
      BY <1>3, <2>3
    <3> QED BY <3>1, CutMoves
  <2>6. (k + 1) - 1 = (k - 1) + 1 /\ (k + 1 > f + 1 <=> k > f) /\ (f + 1 <= Len(m) <=> f <= Len(b))
    BY <1>3
  <2> QED BY <1>7, <1>8, <1>10, <2>2, <2>3, <2>4, <2>5, <2>6
<1> QED BY <1>9, <1>10

LEMMA MinOfTwo ==
  ASSUME NEW x \in Int, NEW y \in Int
  PROVE  Min({x, y}) = IF x =< y THEN x ELSE y
<1>1. {x, y} \subseteq Int /\ x \in {x, y} /\ y \in {x, y}
  OBVIOUS
<1>2. CASE x =< y
  <2>1. \A z \in {x, y} : x =< z
    BY <1>2
  <2> QED BY <1>1, <1>2, <2>1, MinIs
<1>3. CASE ~(x =< y)
  <2>1. \A z \in {x, y} : y =< z
    BY <1>3
  <2> QED BY <1>1, <1>3, <2>1, MinIs
<1> QED BY <1>2, <1>3

LEMMA StatusMoves ==
  ASSUME NEW G, NEW b \in Seq(G), NEW m \in Seq(G \union {"sp"}), Moved(b, m)
  PROVE  ParseStatus(m) = ParseStatus(b)
<1>1. PICK f \in Nat \ {0} : f = First(b, 1, "nl") /\ First(m, 1, "nl") = f + 1
  <2>1. First(b, 1, "nl") \in Nat \ {0}
    BY FirstIs
  <2> QED BY <2>1, FromStart
<1>2. PICK s \in Nat \ {0} : s = Skip(b, f + 1, Blank) /\ Skip(m, (f + 1) + 1, Blank) = s + 1
  <2>1. f + 1 \in Nat \ {0}
    OBVIOUS
  <2>2. Skip(b, f + 1, Blank) \in Nat \ {0}
    BY <2>1, SkipIs
  <2> QED BY <2>1, <2>2, SkipMoves
<1>3. Len(b) \in Nat /\ Len(m) = Len(b) + 1 /\ StatusSize \in Nat
  BY FrameAssumption DEF Moved
<1>4. PICK q \in Int : q = IF Len(b) =< s + StatusSize - 2 THEN Len(b) ELSE s + StatusSize - 2
  <2>1. Len(b) \in Int /\ s + StatusSize - 2 \in Int
    BY <1>3
  <2> QED BY <2>1
<1>5. Min({Len(b), s + StatusSize - 2}) = q
  <2>1. s + StatusSize - 2 \in Int /\ Len(b) \in Int
    BY <1>3
  <2> QED BY <1>4, <2>1, MinOfTwo
<1>6. Min({Len(m), (s + 1) + StatusSize - 2}) = q + 1
  <2>1. (s + 1) + StatusSize - 2 \in Int /\ Len(m) \in Int
    BY <1>3
  <2>2. Min({Len(m), (s + 1) + StatusSize - 2})
          = IF Len(m) =< (s + 1) + StatusSize - 2 THEN Len(m) ELSE (s + 1) + StatusSize - 2
    BY <2>1, MinOfTwo
  <2> QED BY <1>3, <1>4, <2>2
<1>7. PICK e \in Nat \ {0} : /\ e = SkipBack(b, s, q, {"sp", "nl"})
                             /\ SkipBack(m, s + 1, q + 1, {"sp", "nl"}) = e + 1
                             /\ e =< q \/ e = s
  <2>1. q =< Len(b)
    BY <1>3, <1>4
  <2>2. SkipBack(m, s + 1, q + 1, {"sp", "nl"}) = SkipBack(b, s, q, {"sp", "nl"}) + 1
    BY <2>1, SkipBackMoves
  <2>3. /\ SkipBack(b, s, q, {"sp", "nl"}) \in Nat \ {0}
        /\ SkipBack(b, s, q, {"sp", "nl"}) =< q \/ SkipBack(b, s, q, {"sp", "nl"}) = s
    BY SkipBackIs
  <2> QED BY <2>2, <2>3
<1>8. s <= Len(b) => Cut(m, s + 1, e + 1) = Cut(b, s, e)
  <2> SUFFICES ASSUME s <= Len(b) PROVE Cut(m, s + 1, e + 1) = Cut(b, s, e)
    OBVIOUS
  <2>1. e =< Len(b) /\ e \in Int
    BY <1>3, <1>4, <1>7
  <2> QED BY <2>1, CutMoves
<1>9. ParseStatus(b) = IF f < Len(b) /\ s <= Len(b) THEN Cut(b, s, e) ELSE <<>>
  BY <1>1, <1>2, <1>5, <1>7 DEF ParseStatus
<1>10. ParseStatus(m) = IF f + 1 < Len(m) /\ s + 1 <= Len(m) THEN Cut(m, s + 1, e + 1) ELSE <<>>
  BY <1>1, <1>2, <1>6, <1>7 DEF ParseStatus
<1>11. (f + 1 < Len(m) <=> f < Len(b)) /\ (s + 1 <= Len(m) <=> s <= Len(b))
  BY <1>3
<1> QED BY <1>8, <1>9, <1>10, <1>11

LEMMA IndentNeverMatters == IndentDoesNotMatter
<1> SUFFICES ASSUME NEW b \in Frame
             PROVE  LET moved == <<"sp">> \o b
                    IN /\ is_thinking_state(moved) <=> is_thinking_state(b)
                       /\ extract_thinking_state(moved) = extract_thinking_state(b)
                       /\ First(b, 1, "(") < ToolNameSize - 1 => parse_state(moved) = parse_state(b)
  BY DEF IndentDoesNotMatter
<1>1. b \in Seq(ParseGlyphs)
  BY SeqOfType DEF Frame
<1> DEFINE m == <<"sp">> \o b
<1>2. m \in Seq(ParseGlyphs \union {"sp"}) /\ Moved(b, m)
  BY <1>1, MovedIs
<1> HIDE DEF m
<1>3. is_thinking_state(m) <=> is_thinking_state(b)
  BY <1>1, <1>2, ThinkingMoves
<1>4. extract_thinking_state(m) = extract_thinking_state(b)
  BY <1>1, <1>2, NameMoves
<1>5. First(b, 1, "(") < ToolNameSize - 1 => parse_state(m) = parse_state(b)
  BY <1>1, <1>2, ToolMoves, ArgsMove, StatusMoves DEF parse_state
<1> QED BY <1>3, <1>4, <1>5 DEF m

-----------------------------------------------------------------------------
(* What is left of a row of texts and control sequences. *)

\* f takes the glyphs of s in whose numbers are in D, for every D within N.
Takes(f, b, s, N) ==
  f = [D \in SUBSET N |-> IF D = {} THEN b ELSE StripStep(f[D \ {Max(D)}], s[Max(D)])]

LEMMA FoldEquation ==
  ASSUME NEW s, NEW b, \E f : Takes(f, b, s, DOMAIN s)
  PROVE  \E g : Takes(g, b, s, DOMAIN s) /\ FoldLeft(StripStep, b, s) = g[DOMAIN s]
<1> DEFINE whole == CHOOSE g : Takes(g, b, s, DOMAIN s)
<1>1. FoldLeft(StripStep, b, s) = whole[DOMAIN s]
  BY DEF FoldLeft, MapThenFoldSet, Takes
<1>2. Takes(whole, b, s, DOMAIN s)
  OBVIOUS
<1> QED BY <1>1, <1>2

LEMMA FoldExists ==
  ASSUME NEW n \in Nat, NEW s, NEW b
  PROVE  \E f : Takes(f, b, s, 1..n)
<1> DEFINE Body(f, k) == [D \in SUBSET (1..k) |->
                        IF D = {} THEN b ELSE StripStep(f[D \ {Max(D)}], s[Max(D)])]
           S == {k \in Nat : \E f : f = Body(f, k)}
<1>1. 0 \in S
  <2> DEFINE f == [D \in SUBSET (1..0) |-> b]
  <2>1. \A D \in SUBSET (1..0) : D = {}
    OBVIOUS
  <2>2. f = Body(f, 0)
    BY <2>1
  <2> HIDE DEF f, Body
  <2> QED BY <2>2
<1>2. ASSUME NEW k \in Nat, k \in S PROVE k + 1 \in S
  <2>1. PICK f : f = Body(f, k)
    BY <1>2
  <2> DEFINE h == [D \in SUBSET (1..(k + 1)) |->
                      IF k + 1 \in D THEN StripStep(f[D \ {k + 1}], s[k + 1]) ELSE f[D]]
  <2>2. ASSUME NEW D \in SUBSET (1..(k + 1))
        PROVE  h[D] = IF D = {} THEN b ELSE StripStep(h[D \ {Max(D)}], s[Max(D)])
    <3>1. CASE k + 1 \in D
      <4>1. Max(D) = k + 1
        <5>1. D \subseteq Int /\ \A y \in D : k + 1 >= y
          OBVIOUS
        <5> QED BY <3>1, <5>1, MaxIs
      <4>2. D \ {k + 1} \in SUBSET (1..(k + 1)) /\ k + 1 \notin D \ {k + 1}
        OBVIOUS
      <4>3. h[D \ {k + 1}] = f[D \ {k + 1}]
        BY <4>2
      <4>4. h[D] = StripStep(f[D \ {k + 1}], s[k + 1])
        BY <3>1
      <4> HIDE DEF h
      <4> QED BY <3>1, <4>1, <4>3, <4>4
    <3>2. CASE k + 1 \notin D
      <4>1. D \in SUBSET (1..k) /\ D \ {Max(D)} \in SUBSET (1..(k + 1)) /\ k + 1 \notin D \ {Max(D)}
        <5>1. \A y \in D : y \in 1..(k + 1) /\ y # k + 1
          BY <3>2
        <5>2. \A y \in D : y \in 1..k
          BY <5>1
        <5> QED BY <5>1, <5>2
      <4>2. h[D] = f[D] /\ h[D \ {Max(D)}] = f[D \ {Max(D)}]
        BY <3>2, <4>1
      <4>3. f[D] = IF D = {} THEN b ELSE StripStep(f[D \ {Max(D)}], s[Max(D)])
        BY <2>1, <4>1
      <4> HIDE DEF h
      <4> QED BY <4>2, <4>3
    <3> QED BY <3>1, <3>2
  <2>3. h = Body(h, k + 1)
    <3>1. h = [D \in SUBSET (1..(k + 1)) |-> h[D]]
      OBVIOUS
    <3> HIDE DEF h
    <3> QED BY <2>2, <3>1
  <2> HIDE DEF h, Body
  <2> QED BY <2>3
<1>3. Nat \subseteq S
  <2> HIDE DEF S
  <2> QED BY <1>1, <1>2, Induction
<1> QED BY <1>3 DEF Takes

\* g counts the glyphs of s in: the fold is what it comes to.
Folding(g, b, s, n) ==
  /\ g[0] = b
  /\ \A i \in 1..n : g[i] = StripStep(g[i - 1], s[i])

LEMMA FoldTerms ==
  ASSUME NEW n \in Nat, NEW s, DOMAIN s = 1..n, NEW b
  PROVE  \E g : Folding(g, b, s, n) /\ FoldLeft(StripStep, b, s) = g[n]
<1>1. PICK g : Takes(g, b, s, DOMAIN s) /\ FoldLeft(StripStep, b, s) = g[DOMAIN s]
  BY FoldExists, FoldEquation
<1>2. g = [D \in SUBSET DOMAIN s |-> IF D = {} THEN b ELSE StripStep(g[D \ {Max(D)}], s[Max(D)])]
  BY <1>1 DEF Takes
<1> DEFINE h == [k \in 0..n |-> g[1..k]]
<1>3. h[0] = b
  <2>1. 1..0 = {} /\ 0 \in 0..n
    OBVIOUS
  <2>2. g[{}] = b
    BY <1>2
  <2> QED BY <2>1, <2>2
<1>4. ASSUME NEW i \in 1..n PROVE h[i] = StripStep(h[i - 1], s[i])
  <2>1. Max(1..i) = i
    <3>1. 1..i \subseteq Int /\ i \in 1..i /\ \A y \in 1..i : i >= y
      OBVIOUS
    <3> QED BY <3>1, MaxIs
  <2>2. (1..i) \ {i} = 1..(i - 1) /\ 1..i # {} /\ 1..i \in SUBSET DOMAIN s
    <3>1. i \in 1..i /\ \A y \in 1..i : y \in 1..n
      OBVIOUS
    <3>2. \A y \in 1..i : y # i => y \in 1..(i - 1)
      OBVIOUS
    <3>3. \A y \in 1..(i - 1) : y \in 1..i /\ y # i
      OBVIOUS
    <3> QED BY <3>1, <3>2, <3>3
  <2>3. g[1..i] = StripStep(g[1..(i - 1)], s[i])
    BY <1>2, <2>1, <2>2
  <2>4. i \in 0..n /\ i - 1 \in 0..n
    OBVIOUS
  <2> QED BY <2>3, <2>4
<1>5. h[n] = FoldLeft(StripStep, b, s)
  BY <1>1
<1> HIDE DEF h
<1> QED BY <1>3, <1>4, <1>5 DEF Folding

\* g and h begin alike and take the same n glyphs in.
Alike(g, h, n) ==
  /\ g[0] = h[0]
  /\ \A i \in 1..n : \E e : g[i] = StripStep(g[i - 1], e) /\ h[i] = StripStep(h[i - 1], e)

LEMMA FoldingsAgree ==
  ASSUME NEW n \in Nat, NEW g, NEW h, Alike(g, h, n)
  PROVE  \A i \in 0..n : g[i] = h[i]
<1> DEFINE S == {i \in Nat : i \in 0..n => g[i] = h[i]}
<1>1. 0 \in S
  BY DEF Alike
<1>2. ASSUME NEW k \in Nat, k \in S PROVE k + 1 \in S
  <2> SUFFICES ASSUME k + 1 \in 0..n PROVE g[k + 1] = h[k + 1]
    OBVIOUS
  <2>1. g[k] = h[k] /\ k + 1 \in 1..n
    BY <1>2
  <2>2. PICK e : g[k + 1] = StripStep(g[(k + 1) - 1], e) /\ h[k + 1] = StripStep(h[(k + 1) - 1], e)
    BY <2>1 DEF Alike
  <2>3. (k + 1) - 1 = k
    OBVIOUS
  <2> QED BY <2>1, <2>2, <2>3
<1>3. Nat \subseteq S
  <2> HIDE DEF S
  <2> QED BY <1>1, <1>2, Induction
<1> QED BY <1>3


\* A row of two parts leaves what the second leaves after the first.
LEMMA FoldConcat ==
  ASSUME NEW G, NEW s \in Seq(G), NEW t \in Seq(G), NEW b
  PROVE  FoldLeft(StripStep, b, s \o t) = FoldLeft(StripStep, FoldLeft(StripStep, b, s), t)
<1> DEFINE n == Len(s)
           k == Len(t)
           u == s \o t
           a == FoldLeft(StripStep, b, s)
<1>1. /\ n \in Nat /\ k \in Nat /\ n + k \in Nat /\ DOMAIN s = 1..n /\ DOMAIN t = 1..k
      /\ u \in Seq(G) /\ DOMAIN u = 1..(n + k)
      /\ \A i \in 1..(n + k) : u[i] = IF i <= n THEN s[i] ELSE t[i - n]
  <2>1. /\ s \o t \in Seq(G) /\ Len(s \o t) = Len(s) + Len(t)
        /\ \A i \in 1 .. Len(s) + Len(t) : (s \o t)[i] = IF i <= Len(s) THEN s[i] ELSE t[i - Len(s)]
    BY ConcatProperties
  <2> QED BY <2>1
<1> HIDE DEF n, k, u
<1>2. PICK f : Folding(f, b, s, n) /\ a = f[n]
  BY <1>1, FoldTerms
<1> HIDE DEF a
<1>3. PICK g : Folding(g, a, t, k) /\ FoldLeft(StripStep, a, t) = g[k]
  BY <1>1, FoldTerms
<1>4. PICK h : Folding(h, b, u, n + k) /\ FoldLeft(StripStep, b, u) = h[n + k]
  BY <1>1, FoldTerms
<1>5. f[n] = h[n]
  <2>1. ASSUME NEW i \in 1..n PROVE \E e : f[i] = StripStep(f[i - 1], e) /\ h[i] = StripStep(h[i - 1], e)
    <3>1. i \in 1..(n + k) /\ u[i] = s[i]
      BY <1>1
    <3> QED BY <1>2, <1>4, <3>1 DEF Folding
  <2>2. f[0] = h[0]
    BY <1>2, <1>4 DEF Folding
  <2>3. Alike(f, h, n)
    BY <2>1, <2>2 DEF Alike
  <2> QED BY <1>1, <2>3, FoldingsAgree
<1> DEFINE v == [i \in 0..k |-> h[n + i]]
<1>6. v[0] = g[0]
  <2>1. 0 \in 0..k /\ n + 0 = n
    BY <1>1
  <2> QED BY <1>2, <1>3, <1>5, <2>1 DEF Folding
<1>7. ASSUME NEW i \in 1..k PROVE \E e : v[i] = StripStep(v[i - 1], e) /\ g[i] = StripStep(g[i - 1], e)
  <2>1. /\ i \in 0..k /\ i - 1 \in 0..k /\ n + i \in 1..(n + k) /\ ~(n + i <= n)
        /\ (n + i) - n = i /\ (n + i) - 1 = n + (i - 1)
    BY <1>1
  <2>2. v[i] = h[n + i] /\ v[i - 1] = h[n + (i - 1)]
    BY <2>1
  <2> HIDE DEF v
  <2>3. h[n + i] = StripStep(h[(n + i) - 1], u[n + i]) /\ u[n + i] = t[i]
    BY <1>1, <1>4, <2>1 DEF Folding
  <2>4. g[i] = StripStep(g[i - 1], t[i])
    BY <1>3 DEF Folding
  <2> QED BY <2>1, <2>2, <2>3, <2>4
<1>8. v[k] = h[n + k] /\ k \in 0..k
  BY <1>1
<1> HIDE DEF v
<1>9. v[k] = g[k]
  <2>1. Alike(v, g, k)
    BY <1>6, <1>7 DEF Alike
  <2>2. \A i \in 0..k : v[i] = g[i]
    BY <1>1, <2>1, FoldingsAgree
  <2> QED BY <1>8, <2>2
<1>10. FoldLeft(StripStep, b, u) = FoldLeft(StripStep, a, t)
  BY <1>3, <1>4, <1>8, <1>9
<1> QED BY <1>10 DEF u, a

Scan(m, o) == [mode |-> m, out |-> o]

LEMMA StepIs ==
  ASSUME NEW o, NEW g, NEW m
  PROVE  /\ g \notin Dropped \union {"ESC", "NUL"} =>
              StripStep(Scan("text", o), g) = Scan("text", Append(o, g))
         /\ g \in Dropped => StripStep(Scan("text", o), g) = Scan("text", o)
         /\ StripStep(Scan("text", o), "ESC") = Scan("esc", o)
         /\ StripStep(Scan("esc", o), "[") = Scan("csi", o)
         /\ StripStep(Scan("esc", o), "]") = Scan("osc", o)
         /\ StripStep(Scan(m, o), "NUL") = Scan("end", o)
         /\ StripStep(Scan("end", o), g) = Scan("end", o)
<1>1. \A k : /\ Scan(k, o).mode = k /\ Scan(k, o).out = o
             /\ [Scan(k, o) EXCEPT !.mode = "end"] = Scan("end", o)
             /\ [Scan(k, o) EXCEPT !.mode = "esc"] = Scan("esc", o)
             /\ [Scan(k, o) EXCEPT !.mode = "csi"] = Scan("csi", o)
             /\ [Scan(k, o) EXCEPT !.mode = "osc"] = Scan("osc", o)
             /\ [Scan(k, o) EXCEPT !.mode = "text"] = Scan("text", o)
  BY DEF Scan
<1>2. \A h : h # "NUL" => StripStep(Scan("text", o), h) = Text(Scan("text", o), h)
  BY <1>1 DEF StripStep
<1>3. g \notin Dropped \union {"ESC", "NUL"} => Text(Scan("text", o), g) = Scan("text", Append(o, g))
  <2>1. Scan("text", Append(o, g)) = [mode |-> "text", out |-> Append(o, g)]
    BY DEF Scan
  <2> QED BY <1>1, <2>1 DEF Text
<1>4. g \in Dropped => g \notin {"ESC", "NUL"} /\ Text(Scan("text", o), g) = Scan("text", o)
  BY <1>1 DEF Text, Dropped
<1>5. StripStep(Scan("text", o), "ESC") = Scan("esc", o)
  BY <1>1, <1>2 DEF Text, Dropped
<1>6. StripStep(Scan("esc", o), "[") = Scan("csi", o)
  BY <1>1 DEF StripStep
<1>7. StripStep(Scan("esc", o), "]") = Scan("osc", o)
  BY <1>1 DEF StripStep
<1>8. StripStep(Scan(m, o), "NUL") = Scan("end", o)
  BY <1>1 DEF StripStep
<1>9. StripStep(Scan("end", o), g) = Scan("end", o)
  BY <1>1 DEF StripStep
<1> QED BY <1>2, <1>3, <1>4, <1>5, <1>6, <1>7, <1>8, <1>9

\* The kind of sequence that an opening byte begins.
Kind(opens) == IF opens = "[" THEN "csi" ELSE "osc"

LEMMA InsideIs ==
  ASSUME NEW o, NEW g, NEW opens \in {"[", "]"}, g # "NUL"
  PROVE  StripStep(Scan(Kind(opens), o), g)
           = IF g \in Closers(opens) THEN Scan("text", o) ELSE Scan(Kind(opens), o)
BY DEF StripStep, Scan, Kind, Closers

\* The counts g from place m on do not leave X.
Within(g, s, X, m, n) ==
  /\ g[m] \in X
  /\ \A i \in (m + 1)..n : g[i] = StripStep(g[i - 1], s[i])
  /\ \A i \in (m + 1)..n : \A x \in X : StripStep(x, s[i]) \in X

LEMMA StaysWithin ==
  ASSUME NEW m \in Nat, NEW n \in Nat, m =< n, NEW g, NEW s, NEW X, Within(g, s, X, m, n)
  PROVE  g[n] \in X
<1> DEFINE S == {i \in Nat : i \in m..n => g[i] \in X}
<1>1. 0 \in S
  BY DEF Within
<1>2. ASSUME NEW k \in Nat, k \in S PROVE k + 1 \in S
  <2> SUFFICES ASSUME k + 1 \in m..n PROVE g[k + 1] \in X
    OBVIOUS
  <2>1. CASE k + 1 = m
    BY <2>1 DEF Within
  <2>2. CASE k + 1 # m
    <3>1. k + 1 \in (m + 1)..n /\ (k + 1) - 1 = k /\ g[k] \in X
      BY <1>2, <2>2
    <3> QED BY <3>1 DEF Within
  <2> QED BY <2>1, <2>2
<1>3. Nat \subseteq S
  <2> HIDE DEF S
  <2> QED BY <1>1, <1>2, Induction
<1> QED BY <1>3

\* Dropped bytes add nothing.
LEMMA NoiseGoes ==
  ASSUME NEW G, NEW s \in Seq(G), NEW o, IsNoise(s)
  PROVE  FoldLeft(StripStep, Scan("text", o), s) = Scan("text", o)
<1> DEFINE n == Len(s)
           X == {Scan("text", o)}
<1>1. n \in Nat /\ DOMAIN s = 1..n /\ \A i \in 1..n : s[i] \in Dropped
  BY DEF IsNoise
<1> HIDE DEF n
<1>2. PICK g : Folding(g, Scan("text", o), s, n) /\ FoldLeft(StripStep, Scan("text", o), s) = g[n]
  BY <1>1, FoldTerms
<1>3. \A i \in 1..n : \A x \in X : StripStep(x, s[i]) \in X
  BY <1>1, StepIs
<1>4. Within(g, s, X, 0, n)
  <2>1. 0 + 1 = 1 /\ g[0] \in X
    BY <1>2 DEF Folding
  <2> HIDE DEF X
  <2> QED BY <1>2, <1>3, <2>1 DEF Within, Folding
<1>5. g[n] \in X
  <2> HIDE DEF X
  <2> QED BY <1>1, <1>4, StaysWithin
<1> QED BY <1>2, <1>5

\* A text is added to what is left so far.
LEMMA TextStays ==
  ASSUME NEW G, NEW s \in Seq(G), NEW o \in Seq(G), IsText(s)
  PROVE  FoldLeft(StripStep, Scan("text", o), s) = Scan("text", o \o s)
<1> DEFINE n == Len(s)
<1>1. n \in Nat /\ DOMAIN s = 1..n /\ \A i \in 1..n : s[i] \in G
  OBVIOUS
<1>2. PICK g : Folding(g, Scan("text", o), s, n) /\ FoldLeft(StripStep, Scan("text", o), s) = g[n]
  BY <1>1, FoldTerms
<1> DEFINE Left(i) == o \o SubSeq(s, 1, i)
           S == {i \in Nat : i \in 0..n => g[i] = Scan("text", Left(i))}
<1>3. 0 \in S
  <2>1. SubSeq(s, 1, 0) = <<>> /\ o \o <<>> = o
    OBVIOUS
  <2>2. g[0] = Scan("text", o)
    BY <1>2 DEF Folding
  <2> QED BY <2>1, <2>2
<1>4. ASSUME NEW k \in Nat, k \in S PROVE k + 1 \in S
  <2> SUFFICES ASSUME k + 1 \in 0..n PROVE g[k + 1] = Scan("text", Left(k + 1))
    OBVIOUS
  <2>1. k + 1 \in 1..n /\ (k + 1) - 1 = k /\ g[k] = Scan("text", Left(k))
    BY <1>1, <1>4
  <2>2. Append(Left(k), s[k + 1]) = Left(k + 1)
    <3>1. SubSeq(s, 1, k + 1) = SubSeq(s, 1, k) \o <<s[k + 1]>>
      <4>1. PICK j \in 1..Len(s) : j = k + 1 /\ 1 \in 1..Len(s) /\ j \in 1..Len(s) /\ j - 1 = k
        BY <2>1
      <4>2. SubSeq(s, 1, j) = SubSeq(s, 1, j - 1) \o <<s[j]>>
        BY <4>1, SubSeqRecursiveSecond
      <4> QED BY <4>1, <4>2
    <3>2. SubSeq(s, 1, k) \in Seq(G) /\ s[k + 1] \in G
      BY <1>1, <2>1
    <3>3. PICK r \in Seq(G) : r = SubSeq(s, 1, k)
      BY <3>2
    <3>4. Append(o \o r, s[k + 1]) = o \o (r \o <<s[k + 1]>>)
      <4>1. PICK e \in G : e = s[k + 1]
        BY <3>2
      <4>2. o \o r \in Seq(G) /\ <<e>> \in Seq(G)
        OBVIOUS
      <4>3. Append(o \o r, e) = (o \o r) \o <<e>>
        BY <4>2, AppendIsConcat
      <4>4. (o \o r) \o <<e>> = o \o (r \o <<e>>)
        BY <4>2, ConcatAssociative
      <4> QED BY <4>1, <4>3, <4>4
    <3> QED BY <3>1, <3>3, <3>4
  <2>3. g[k + 1] = StripStep(g[k], s[k + 1])
    <3> HIDE DEF n
    <3> QED BY <1>2, <2>1 DEF Folding
  <2>4. s[k + 1] \notin Dropped \union {"ESC", "NUL"}
    BY <1>1, <2>1 DEF IsText
  <2>5. StripStep(Scan("text", Left(k)), s[k + 1]) = Scan("text", Append(Left(k), s[k + 1]))
    <3> HIDE DEF Left
    <3> QED BY <2>4, StepIs
  <2> HIDE DEF Left, n
  <2> QED BY <2>1, <2>2, <2>3, <2>5
<1>5. Nat \subseteq S
  <2> HIDE DEF S
  <2> QED BY <1>3, <1>4, Induction
<1>6. g[n] = Scan("text", Left(n)) /\ Left(n) = o \o s
  <2>1. n \in S /\ n \in 0..n /\ SubSeq(s, 1, n) = s
    BY <1>1, <1>5
  <2> QED BY <2>1
<1> QED BY <1>2, <1>6

\* What opens a sequence leads into it.
LEMMA OpensInto ==
  ASSUME NEW s, NEW n \in Nat, n > 1, NEW o, NEW g, s[1] = "ESC", s[2] \in {"[", "]"},
         Folding(g, Scan("text", o), s, n)
  PROVE  g[2] = Scan(Kind(s[2]), o)
<1>1. 1 \in 1..n /\ 2 \in 1..n /\ 1 - 1 = 0 /\ 2 - 1 = 1
  OBVIOUS
<1>2. g[0] = Scan("text", o) /\ g[1] = StripStep(g[0], s[1]) /\ g[2] = StripStep(g[1], s[2])
  BY <1>1 DEF Folding
<1>3. g[1] = Scan("esc", o)
  BY <1>2, StepIs
<1>4. CASE s[2] = "["
  <2>1. StripStep(Scan("esc", o), "[") = Scan("csi", o)
    BY StepIs
  <2> QED BY <1>2, <1>3, <1>4, <2>1 DEF Kind
<1>5. CASE s[2] = "]"
  <2>1. StripStep(Scan("esc", o), "]") = Scan("osc", o)
    BY StepIs
  <2> QED BY <1>2, <1>3, <1>5, <2>1 DEF Kind
<1> QED BY <1>4, <1>5

\* A control sequence adds nothing.
LEMMA ControlGoes ==
  ASSUME NEW G, NEW s \in Seq(G), NEW o, IsControl(s)
  PROVE  FoldLeft(StripStep, Scan("text", o), s) = Scan("text", o)
<1> DEFINE n == Len(s)
           X == {Scan(Kind(s[2]), o)}
<1>1. /\ n \in Nat /\ DOMAIN s = 1..n /\ n > 2 /\ s[1] = "ESC" /\ s[2] \in {"[", "]"}
      /\ \A i \in 3..n : s[i] # "NUL" /\ (s[i] \in Closers(s[2]) <=> i = n)
  BY DEF IsControl, Opens
<1> HIDE DEF n
<1>2. PICK g : Folding(g, Scan("text", o), s, n) /\ FoldLeft(StripStep, Scan("text", o), s) = g[n]
  BY <1>1, FoldTerms
<1>3. g[2] = Scan(Kind(s[2]), o)
  BY <1>1, <1>2, OpensInto
<1>4. \A i \in 3..n : StripStep(Scan(Kind(s[2]), o), s[i])
                        = IF i = n THEN Scan("text", o) ELSE Scan(Kind(s[2]), o)
  BY <1>1, InsideIs
<1>5. Within(g, s, X, 2, n - 1)
  <2>1. \A i \in (2 + 1)..(n - 1) : i \in 3..n /\ i # n /\ i \in 1..n
    BY <1>1
  <2>2. \A i \in (2 + 1)..(n - 1) : g[i] = StripStep(g[i - 1], s[i])
    BY <1>2, <2>1 DEF Folding
  <2>3. \A i \in (2 + 1)..(n - 1) : StripStep(Scan(Kind(s[2]), o), s[i]) = Scan(Kind(s[2]), o)
    BY <1>4, <2>1
  <2>4. \A i \in (2 + 1)..(n - 1) : \A x \in X : StripStep(x, s[i]) \in X
    BY <2>3
  <2>5. g[2] \in X
    BY <1>3
  <2> HIDE DEF X
  <2> QED BY <2>2, <2>4, <2>5 DEF Within
<1>6. g[n - 1] \in X
  <2>1. 2 \in Nat /\ n - 1 \in Nat /\ 2 =< n - 1
    BY <1>1
  <2> HIDE DEF X
  <2> QED BY <1>5, <2>1, StaysWithin
<1>7. g[n] = Scan("text", o)
  <2>1. n \in 3..n /\ n \in 1..n
    BY <1>1
  <2>2. g[n] = StripStep(g[n - 1], s[n]) /\ g[n - 1] = Scan(Kind(s[2]), o)
    BY <1>2, <1>6, <2>1 DEF Folding
  <2> QED BY <1>4, <2>1, <2>2
<1> QED BY <1>2, <1>7

\* Nor does what a frame is cut off in, or what stands behind a NUL.
LEMMA CutGoes ==
  ASSUME NEW G, NEW s \in Seq(G), NEW o, IsCut(s)
  PROVE  FoldLeft(StripStep, Scan("text", o), s).out = o
<1> DEFINE n == Len(s)
           X == {Scan(m, o) : m \in {Kind(s[2]), "end"}}
<1>1. n \in Nat /\ DOMAIN s = 1..n
  OBVIOUS
<1>2. PICK g : Folding(g, Scan("text", o), s, n) /\ FoldLeft(StripStep, Scan("text", o), s) = g[n]
  <2> HIDE DEF n
  <2> QED BY <1>1, FoldTerms
<1>3. g[0] = Scan("text", o) /\ \A i \in 1..n : g[i] = StripStep(g[i - 1], s[i])
  BY <1>2 DEF Folding
<1>4. CASE s = <<>>
  <2>1. n = 0
    BY <1>4
  <2> QED BY <1>2, <1>3, <2>1 DEF Scan
<1>5. CASE s # <<>> /\ s[1] = "NUL"
  <2> DEFINE Y == {Scan("end", o)}
  <2>1. n >= 1 /\ 1 \in 1..n /\ 1 - 1 = 0
    BY <1>5
  <2>2. g[1] \in Y
    <3>1. StripStep(Scan("text", o), "NUL") = Scan("end", o)
      BY StepIs
    <3> QED BY <1>3, <1>5, <2>1, <3>1
  <2>3. \A i \in (1 + 1)..n : \A x \in Y : StripStep(x, s[i]) \in Y
    BY StepIs
  <2>4. Within(g, s, Y, 1, n)
    <3>1. \A i \in (1 + 1)..n : i \in 1..n
      BY <1>1
    <3> HIDE DEF Y, n
    <3> QED BY <1>3, <2>2, <2>3, <3>1 DEF Within
  <2>5. g[n] \in Y
    <3> HIDE DEF Y, n
    <3> QED BY <1>1, <2>1, <2>4, StaysWithin
  <2> QED BY <1>2, <2>5 DEF Scan
<1>6. CASE s = <<"ESC">>
  <2>1. n = 1 /\ s[1] = "ESC" /\ 1 \in 1..n /\ 1 - 1 = 0
    BY <1>6
  <2>2. g[1] = Scan("esc", o)
    <3>1. StripStep(Scan("text", o), "ESC") = Scan("esc", o)
      BY StepIs
    <3> QED BY <1>3, <2>1, <3>1
  <2> QED BY <1>2, <2>1, <2>2 DEF Scan
<1>7. CASE Opens(s) /\ \A i \in 3..Len(s) : s[i] \notin Closers(s[2])
  <2>1. n > 1 /\ s[1] = "ESC" /\ s[2] \in {"[", "]"} /\ \A i \in 3..n : s[i] \notin Closers(s[2])
    BY <1>7 DEF Opens
  <2> HIDE DEF n
  <2>2. g[2] = Scan(Kind(s[2]), o)
    BY <1>1, <1>2, <2>1, OpensInto
  <2>3. ASSUME NEW i \in (2 + 1)..n, NEW x \in X
        PROVE  StripStep(x, s[i]) \in X
    <3>1. i \in 3..n /\ s[i] \notin Closers(s[2])
      BY <1>1, <2>1
    <3>2. StripStep(Scan("end", o), s[i]) = Scan("end", o)
      BY StepIs
    <3>3. s[i] = "NUL" => StripStep(Scan(Kind(s[2]), o), s[i]) = Scan("end", o)
      <4>1. StripStep(Scan(Kind(s[2]), o), "NUL") = Scan("end", o)
        BY StepIs
      <4> QED BY <4>1
    <3>4. s[i] # "NUL" => StripStep(Scan(Kind(s[2]), o), s[i]) = Scan(Kind(s[2]), o)
      BY <2>1, <3>1, InsideIs
    <3>5. Scan("end", o) \in X /\ Scan(Kind(s[2]), o) \in X
      OBVIOUS
    <3>6. x = Scan("end", o) \/ x = Scan(Kind(s[2]), o)
      OBVIOUS
    <3> HIDE DEF X
    <3> QED BY <3>2, <3>3, <3>4, <3>5, <3>6
  <2>4. Within(g, s, X, 2, n)
    <3>1. \A i \in (2 + 1)..n : i \in 1..n
      BY <1>1
    <3>2. g[2] \in X
      BY <2>2
    <3> HIDE DEF X
    <3> QED BY <1>3, <2>3, <3>1, <3>2 DEF Within
  <2>5. g[n] \in X
    <3>1. 2 \in Nat /\ 2 =< n
      BY <1>1, <2>1
    <3> HIDE DEF X
    <3> QED BY <1>1, <2>4, <3>1, StaysWithin
  <2> QED BY <1>2, <2>5 DEF Scan
<1> QED BY <1>4, <1>5, <1>6, <1>7 DEF IsCut

\* g joins the pieces of a row one after the other.
Joins(g, row) ==
  /\ g[0] = <<>>
  /\ \A i \in 1..Len(row) : g[i] = g[i - 1] \o row[i]

LEMMA FlattenIs ==
  ASSUME NEW G, NEW row \in Seq(Seq(G))
  PROVE  \E g : Joins(g, row) /\ FlattenSeq(row) = g[Len(row)]
<1> DEFINE n == Len(row)
           Body(f, k) == [i \in 1..k |-> IF i = 1 THEN row[i] ELSE f[i - 1] \o row[i]]
           S == {k \in Nat : \E f : f = Body(f, k)}
<1>1. n \in Nat /\ \A i \in 1..n : row[i] \in Seq(G)
  OBVIOUS
<1>2. 0 \in S
  <2> DEFINE f == [i \in 1..0 |-> 0]
  <2>1. f = Body(f, 0)
    OBVIOUS
  <2> HIDE DEF f, Body
  <2> QED BY <2>1
<1>3. ASSUME NEW k \in Nat, k \in S PROVE k + 1 \in S
  <2>1. PICK f : f = Body(f, k)
    BY <1>3
  <2> DEFINE h == [i \in 1..(k + 1) |->
                     IF i = k + 1 THEN IF i = 1 THEN row[i] ELSE f[i - 1] \o row[i] ELSE f[i]]
  <2>2. ASSUME NEW i \in 1..(k + 1)
        PROVE  h[i] = IF i = 1 THEN row[i] ELSE h[i - 1] \o row[i]
    <3>1. i # 1 => i - 1 \in 1..(k + 1) /\ i - 1 # k + 1
      OBVIOUS
    <3>2. i # 1 => h[i - 1] = f[i - 1]
      BY <3>1
    <3>3. CASE i = k + 1
      <4>1. h[i] = IF i = 1 THEN row[i] ELSE f[i - 1] \o row[i]
        BY <3>3
      <4> HIDE DEF h
      <4> QED BY <3>2, <4>1
    <3>4. CASE i # k + 1
      <4>1. i \in 1..k /\ h[i] = f[i]
        BY <3>4
      <4>2. f[i] = IF i = 1 THEN row[i] ELSE f[i - 1] \o row[i]
        BY <2>1, <4>1
      <4> HIDE DEF h
      <4> QED BY <3>2, <4>1, <4>2
    <3> QED BY <3>3, <3>4
  <2>3. h = Body(h, k + 1)
    <3>1. h = [i \in 1..(k + 1) |-> h[i]]
      OBVIOUS
    <3> HIDE DEF h
    <3> QED BY <2>2, <3>1
  <2> HIDE DEF h, Body
  <2> QED BY <2>3
<1>4. Nat \subseteq S
  <2> HIDE DEF S
  <2> QED BY <1>2, <1>3, Induction
<1>5. \E f : f = Body(f, n)
  <2> HIDE DEF Body, n
  <2> QED BY <1>1, <1>4
<1> DEFINE whole == CHOOSE f : f = Body(f, n)
<1>6. whole = Body(whole, n)
  <2> HIDE DEF Body, n
  <2> QED BY <1>5
<1>7. n # 0 => FlattenSeq(row) = whole[n]
  BY DEF FlattenSeq
<1>8. n = 0 => FlattenSeq(row) = <<>>
  BY DEF FlattenSeq
<1> HIDE DEF whole
<1> DEFINE g == [i \in 0..n |-> IF i = 0 THEN <<>> ELSE whole[i]]
<1>9. ASSUME NEW i \in 1..n PROVE g[i] = g[i - 1] \o row[i]
  <2>1. i \in 0..n /\ i - 1 \in 0..n /\ i # 0
    BY <1>1
  <2>2. g[i] = whole[i] /\ (i # 1 => g[i - 1] = whole[i - 1]) /\ (i = 1 => g[i - 1] = <<>>)
    BY <2>1
  <2>3. whole[i] = IF i = 1 THEN row[i] ELSE whole[i - 1] \o row[i]
    BY <1>6
  <2>4. <<>> \o row[i] = row[i]
    BY <1>1, ConcatEmptySeq
  <2> HIDE DEF g
  <2> QED BY <2>2, <2>3, <2>4
<1>10. g[0] = <<>> /\ FlattenSeq(row) = g[n]
  BY <1>1, <1>7, <1>8
<1> HIDE DEF g
<1>11. Joins(g, row)
  BY <1>9, <1>10 DEF Joins
<1> QED BY <1>10, <1>11

\* What is to be left of a piece.
Shown(piece) == IF IsText(piece) THEN piece ELSE <<>>

LEMMA PieceLeaves ==
  ASSUME NEW piece \in Pieces, NEW o \in Seq(Byte)
  PROVE  /\ piece \in Seq(Byte) /\ Shown(piece) \in Seq(Byte)
         /\ FoldLeft(StripStep, Scan("text", o), piece) = Scan("text", o \o Shown(piece))
<1>1. piece \in Seq(Byte)
  BY PieceAssumption
<1>2. CASE IsText(piece)
  BY <1>1, <1>2, TextStays DEF Shown
<1>3. CASE ~IsText(piece)
  <2>1. FoldLeft(StripStep, Scan("text", o), piece) = Scan("text", o)
    <3>1. IsNoise(piece) \/ IsControl(piece)
      BY <1>3, PieceAssumption
    <3> QED BY <1>1, <3>1, NoiseGoes, ControlGoes
  <2>2. Shown(piece) = <<>> /\ <<>> \in Seq(Byte) /\ o \o <<>> = o
    BY <1>3 DEF Shown
  <2> QED BY <1>1, <2>1, <2>2
<1> QED BY <1>2, <1>3

\* However long the row, and wherever it is cut: the texts are what is left.
LEMMA RowLeavesTexts ==
  ASSUME NEW row \in Seq(Pieces), NEW last \in Cuts
  PROVE  strip_ansi(FlattenSeq(row) \o last) = FlattenSeq([i \in DOMAIN row |-> Shown(row[i])])
<1> DEFINE n == Len(row)
           texts == [i \in DOMAIN row |-> Shown(row[i])]
<1>1. n \in Nat /\ DOMAIN row = 1..n /\ \A i \in 1..n : row[i] \in Pieces
  OBVIOUS
<1>2. <<>> \in Seq(Byte)
  OBVIOUS
<1>3. row \in Seq(Seq(Byte))
  <2>1. \A i \in 1..n : row[i] \in Seq(Byte)
    BY <1>1, <1>2, PieceLeaves
  <2> QED BY <1>1, <2>1
<1>4. texts \in Seq(Seq(Byte)) /\ Len(texts) = n
  <2>1. \A i \in 1..n : Shown(row[i]) \in Seq(Byte)
    BY <1>1, <1>2, PieceLeaves
  <2>2. texts \in [1..n -> Seq(Byte)]
    BY <1>1, <2>1
  <2> QED BY <1>1, <2>2
<1>5. \A i \in 1..n : texts[i] = Shown(row[i])
  BY <1>1
<1> HIDE DEF n, texts
<1>6. PICK g : Joins(g, row) /\ FlattenSeq(row) = g[n]
  BY <1>3, FlattenIs DEF n
<1>7. PICK h : Joins(h, texts) /\ FlattenSeq(texts) = h[n]
  BY <1>4, FlattenIs
<1> DEFINE S == {i \in Nat : i \in 0..n =>
                   /\ g[i] \in Seq(Byte) /\ h[i] \in Seq(Byte)
                   /\ FoldLeft(StripStep, Scan("text", <<>>), g[i]) = Scan("text", h[i])}
<1>8. 0 \in S
  <2>1. g[0] = <<>> /\ h[0] = <<>>
    BY <1>6, <1>7 DEF Joins
  <2>2. PICK s \in Seq(Byte) : s = <<>>
    BY <1>2
  <2>3. IsText(s) /\ s \o s = s
    BY <2>2 DEF IsText
  <2>4. FoldLeft(StripStep, Scan("text", s), s) = Scan("text", s \o s)
    BY <2>3, TextStays
  <2> QED BY <2>1, <2>2, <2>3, <2>4
<1>9. ASSUME NEW k \in Nat, k \in S PROVE k + 1 \in S
  <2> SUFFICES ASSUME k + 1 \in 0..n
               PROVE  /\ g[k + 1] \in Seq(Byte) /\ h[k + 1] \in Seq(Byte)
                      /\ FoldLeft(StripStep, Scan("text", <<>>), g[k + 1]) = Scan("text", h[k + 1])
    OBVIOUS
  <2>1. k + 1 \in 1..n /\ (k + 1) - 1 = k /\ k \in 0..n
    BY <1>1
  <2>2. PICK a \in Seq(Byte), c \in Seq(Byte) :
          a = g[k] /\ c = h[k] /\ FoldLeft(StripStep, Scan("text", <<>>), a) = Scan("text", c)
    BY <1>9, <2>1
  <2>3. PICK piece \in Pieces : piece = row[k + 1]
    BY <1>1, <2>1
  <2>4. g[k + 1] = a \o piece /\ h[k + 1] = c \o Shown(piece)
    BY <1>4, <1>5, <1>6, <1>7, <2>1, <2>2, <2>3 DEF Joins, n
  <2>5. /\ piece \in Seq(Byte) /\ Shown(piece) \in Seq(Byte)
        /\ FoldLeft(StripStep, Scan("text", c), piece) = Scan("text", c \o Shown(piece))
    BY PieceLeaves
  <2>6. FoldLeft(StripStep, Scan("text", <<>>), a \o piece)
          = FoldLeft(StripStep, FoldLeft(StripStep, Scan("text", <<>>), a), piece)
    BY <2>5, FoldConcat
  <2> QED BY <2>2, <2>4, <2>5, <2>6
<1>10. Nat \subseteq S
  <2> HIDE DEF S
  <2> QED BY <1>8, <1>9, Induction
<1>11. g[n] \in Seq(Byte) /\ FoldLeft(StripStep, Scan("text", <<>>), g[n]) = Scan("text", h[n])
  <2>1. n \in S /\ n \in 0..n
    BY <1>1, <1>10
  <2> QED BY <2>1
<1>12. strip_ansi(g[n] \o last) = h[n]
  <2>1. last \in Seq(Byte) /\ IsCut(last)
    BY PieceAssumption
  <2>2. FoldLeft(StripStep, Scan("text", <<>>), g[n] \o last)
          = FoldLeft(StripStep, FoldLeft(StripStep, Scan("text", <<>>), g[n]), last)
    BY <1>11, <2>1, FoldConcat
  <2>3. FoldLeft(StripStep, Scan("text", h[n]), last).out = h[n]
    BY <2>1, CutGoes
  <2>4. FoldLeft(StripStep, Scan("text", <<>>), g[n] \o last).out = h[n]
    BY <1>11, <2>2, <2>3
  <2> QED BY <2>4 DEF strip_ansi, Scan
<1> QED BY <1>6, <1>7, <1>12 DEF texts

LEMMA TextAlwaysSurvives == TextSurvives
<1> SUFFICES ASSUME NEW row \in SeqOf(Pieces, 4), NEW last \in Cuts
             PROVE  LET texts == [i \in DOMAIN row |-> IF IsText(row[i]) THEN row[i] ELSE <<>>]
                    IN strip_ansi(FlattenSeq(row) \o last) = FlattenSeq(texts)
  BY DEF TextSurvives
<1>1. row \in Seq(Pieces)
  BY SeqOfType
<1>2. strip_ansi(FlattenSeq(row) \o last) = FlattenSeq([i \in DOMAIN row |-> Shown(row[i])])
  BY <1>1, RowLeavesTexts
<1> QED BY <1>2 DEF Shown

\* A watcher reads a frame by its words: a thinking state has its name, a frame
\* drawn one place further to the right is the same frame, and of texts among dropped
\* bytes and whole control sequences the texts are left, however long a row they are
\* written in and wherever the frame is cut off, whatever the length of a frame and
\* the sizes of the buffers (strip_ansi, is_thinking_state,
\* extract_thinking_state, parse_state).
THEOREM FramesAreAlwaysRead == FairSpec => []FramesAreRead
<1>1. FramesAreRead
  BY EveryThinkingHasName, IndentNeverMatters, TextAlwaysSurvives DEF FramesAreRead
<1>. QED  BY <1>1, PTL
=============================================================================
