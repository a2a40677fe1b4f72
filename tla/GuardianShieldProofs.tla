------------------------ MODULE GuardianShieldProofs ------------------------
(***************************************************************************)
(* Proofs about GuardianShield, for every policy, every set of processes   *)
(* and files and every configuration: types, the tags of the process tree, *)
(* the guards that travel with a file's entries, and when a call may be    *)
(* refused.                                                                *)
(***************************************************************************)
EXTENDS GuardianShield, Integers, FiniteSetTheorems, SequenceTheorems, TLAPS

-----------------------------------------------------------------------------
(* The policy. *)

\* What a hit means in terms of the guarded set: the operation is in it.
LEMMA HitIsGuarded ==
  ASSUME NEW rules, NEW op, NEW q
  PROVE  Hit(rules, op, q) <=> op \in path_guard_ops(rules, q)
BY DEF Hit, path_guard_ops, path_is_protected

\* Where a guarded set is not empty its operations are protected, free names or not.
LEMMA GuardedIsProtected ==
  ASSUME NEW rules, NEW op, NEW q, op \in path_guard_ops(rules, q)
  PROVE  path_is_protected(rules, q, op)
BY DEF path_guard_ops, path_is_protected

\* How far the loader is: the trie holds rules as configured, all of them once a
\* program is attached, and enforcement begins with every program attached.
PolicyInv ==
  /\ protected_paths = [P \in DOMAIN protected_paths |-> Rules[P]]
  /\ attached # {} => DOMAIN protected_paths = DOMAIN Rules
  /\ cfg.ready => attached = Programs

\* A path, and a path as a hook sees it.
Sights == Path \union {Seen[r] : r \in Path}

LEMMA LongestExists ==
  ASSUME NEW stored \in SUBSET DOMAIN Rules, NEW q \in Sights, Matches(stored, q) # {}
  PROVE  /\ LongestMatch(stored, q) \in Matches(stored, q)
         /\ \A Q \in Matches(stored, q) : LongestMatch(stored, q) = Q
                                           \/ LongerMatch(LongestMatch(stored, q), Q)
<1>1. PICK P \in Matches(stored, q) : \A Q \in Matches(stored, q) : P = Q \/ LongerMatch(P, Q)
  BY LongestMatchExists DEF Sights
<1>. QED  BY <1>1 DEF LongestMatch

LEMMA GuardOpsType ==
  ASSUME TypeOK, PolicyInv, NEW q \in Sights
  PROVE  path_guard_ops(protected_paths, q) \subseteq Op
<1>1. CASE Within(DOMAIN protected_paths, q)
  <2>1. DOMAIN protected_paths \in SUBSET DOMAIN Rules
    BY DEF TypeOK
  <2>2. Matches(DOMAIN protected_paths, q) # {}
    BY <1>1 DEF Within
  <2>3. LongestMatch(DOMAIN protected_paths, q) \in Matches(DOMAIN protected_paths, q)
    BY <2>1, <2>2, LongestExists
  <2>4. LongestMatch(DOMAIN protected_paths, q) \in DOMAIN protected_paths
    BY <2>3 DEF Matches
  <2>5. protected_paths[LongestMatch(DOMAIN protected_paths, q)] \subseteq Op
    BY <2>1, <2>4, ShieldAssumption DEF PolicyInv
  <2>. QED  BY <2>5 DEF path_guard_ops
<1>2. CASE ~Within(DOMAIN protected_paths, q)
  BY <1>2 DEF path_guard_ops
<1>. QED  BY <1>1, <1>2

LEMMA GuardsType ==
  ASSUME TypeOK, PolicyInv, NEW q \in Path
  PROVE  Guards(q) \in SUBSET Op
BY GuardOpsType DEF Guards, Sights

-----------------------------------------------------------------------------
(* What every call does: it leaves the loader and the process tree alone, and *)
(* reports or refuses only when enforcement has begun.                        *)

Judged(p) ==
  \E n \in Nat, e \in {"0", "EPERM", "EACCES"} :
    Judge(p, n, e) /\ (n > 0 => cfg.ready)

LEMMA OtherCallFrame ==
  ASSUME TypeOK, NEW p \in Pid, OtherCall(p)
  PROVE  UNCHANGED <<loaderVars, processVars, fileVars>> /\ Judged(p) /\ taken' = {}
<1>. USE DEF Judged, Refuse, One, TakesNothing
<1>1. ASSUME NEW target \in Pid, gs_ptrace(p, target)
      PROVE  UNCHANGED <<loaderVars, processVars, fileVars>> /\ Judged(p) /\ taken' = {}
  BY <1>1 DEF gs_ptrace
<1>2. CASE gs_kernel_read_file(p)
  BY <1>2 DEF gs_kernel_read_file
<1>3. CASE gs_bpf(p)
  BY <1>3 DEF gs_bpf
<1>4. CASE gs_mount(p)
  BY <1>4 DEF gs_mount
<1>5. ASSUME NEW cap, gs_capable(p, cap)
      PROVE  UNCHANGED <<loaderVars, processVars, fileVars>> /\ Judged(p) /\ taken' = {}
  BY <1>5 DEF gs_capable
<1>6. ASSUME NEW privileged \in BOOLEAN, gs_unix_connect(p, privileged)
      PROVE  UNCHANGED <<loaderVars, processVars, fileVars>> /\ Judged(p) /\ taken' = {}
  BY <1>6 DEF gs_unix_connect
<1>7. ASSUME NEW allowed \in BOOLEAN, gs_socket_connect(p, allowed)
      PROVE  UNCHANGED <<loaderVars, processVars, fileVars>> /\ Judged(p) /\ taken' = {}
  BY <1>7 DEF gs_socket_connect
<1>. QED  BY <1>1, <1>2, <1>3, <1>4, <1>5, <1>6, <1>7 DEF OtherCall

\* file_open reports nothing unless enforcement has begun, and whenever it does not
\* report a guarded write is not under way.
Found(p, q, writing) ==
  {i \in 1..3 : <<CredentialRead(p, q), DeviceOpen(p, q), writing /\ WriteOpen(p, q)>>[i]}

LEMMA FoundCount ==
  ASSUME NEW p \in Pid, NEW q \in Path, NEW writing \in BOOLEAN
  PROVE  /\ Cardinality(Found(p, q, writing)) \in Nat
         /\ Cardinality(Found(p, q, writing)) > 0 => cfg.ready
         /\ Cardinality(Found(p, q, writing)) = 0 => ~(writing /\ WriteOpen(p, q))
<1>1. IsFiniteSet(Found(p, q, writing))
  BY FS_Interval, FS_Subset DEF Found
<1>2. Cardinality(Found(p, q, writing)) \in Nat
  BY <1>1, FS_CardinalityType
<1>. DEFINE found == <<CredentialRead(p, q), DeviceOpen(p, q), writing /\ WriteOpen(p, q)>>
<1>6. /\ found[1] <=> CredentialRead(p, q)
      /\ found[2] <=> DeviceOpen(p, q)
      /\ found[3] <=> (writing /\ WriteOpen(p, q))
  OBVIOUS
<1>7. \A i : i \in Found(p, q, writing) <=> (i \in 1..3 /\ found[i])
  BY DEF Found
<1>. HIDE DEF found
<1>3. ASSUME ~cfg.ready
      PROVE  Found(p, q, writing) = {}
  <2>1. ~found[1] /\ ~found[2] /\ ~found[3]
    BY <1>3, <1>6 DEF CredentialRead, DeviceOpen, WriteOpen, Guarding
  <2>2. \A i \in 1..3 : i = 1 \/ i = 2 \/ i = 3
    OBVIOUS
  <2>3. \A i : i \notin Found(p, q, writing)
    BY <1>7, <2>1, <2>2, Zenon
  <2>. QED  BY <2>3, Zenon
<1>4. ASSUME writing, WriteOpen(p, q)
      PROVE  3 \in Found(p, q, writing)
  <2>1. 3 \in 1..3
    OBVIOUS
  <2>. QED  BY <1>4, <1>6, <1>7, <2>1, Zenon
<1>5. Cardinality(Found(p, q, writing)) = 0 <=> Found(p, q, writing) = {}
  BY <1>1, FS_EmptySet
<1>. QED  BY <1>2, <1>3, <1>4, <1>5

LEMMA PathCallFrame ==
  ASSUME TypeOK, NEW p \in Pid, NEW q \in Path, PathCall(p, q)
  PROVE  UNCHANGED <<loaderVars, processVars>> /\ Judged(p)
<1>. USE DEF Judged, One, PathBlocked, MoveBlocked, TruncateBlocked, Guarding
<1>1. CASE gs_path_unlink(p, q)
  BY <1>1 DEF gs_path_unlink
<1>2. ASSUME NEW r \in Path, NEW exchange \in BOOLEAN, gs_path_rename(p, q, r, exchange)
      PROVE  UNCHANGED <<loaderVars, processVars>> /\ Judged(p)
  BY <1>2 DEF gs_path_rename
<1>3. ASSUME NEW r \in Path, gs_path_link(p, q, r)
      PROVE  UNCHANGED <<loaderVars, processVars>> /\ Judged(p)
  BY <1>3 DEF gs_path_link
<1>4. CASE gs_path_mknod(p, q)
  BY <1>4 DEF gs_path_mknod
<1>5. CASE gs_path_chmod(p, q)
  BY <1>5 DEF gs_path_chmod
<1>6. ASSUME NEW op, gs_path_dir(p, op, q)
      PROVE  UNCHANGED <<loaderVars, processVars>> /\ Judged(p)
  BY <1>6 DEF gs_path_dir
<1>7. CASE gs_path_truncate(p, q)
  BY <1>7 DEF gs_path_truncate
<1>8. ASSUME NEW writing \in BOOLEAN, gs_file_open(p, q, writing)
      PROVE  UNCHANGED <<loaderVars, processVars>> /\ Judged(p)
  <2>. DEFINE reports == Cardinality(Found(p, q, writing))
  <2>1. reports \in Nat /\ (reports > 0 => cfg.ready)
    BY FoundCount
  <2>2. \E e \in {"EPERM", "EACCES"} :
          Judge(p, IF cfg.log_only THEN reports ELSE One(reports > 0), e)
    BY <1>8 DEF gs_file_open, Found
  <2>3. UNCHANGED <<loaderVars, processVars>>
    BY <1>8 DEF gs_file_open
  <2>. HIDE DEF reports
  <2>. QED  BY <2>1, <2>2, <2>3
<1>. QED  BY <1>1, <1>2, <1>3, <1>4, <1>5, <1>6, <1>7, <1>8 DEF PathCall

LEMMA CallFrame ==
  ASSUME TypeOK, NEW p \in Pid, Call(p)
  PROVE  UNCHANGED <<loaderVars, processVars>> /\ Judged(p)
BY OtherCallFrame, PathCallFrame DEF Call

-----------------------------------------------------------------------------
(* Types. *)

LEMMA FeedType ==
  ASSUME TypeOK, NEW n \in Nat
  PROVE  FeedAfter(n) \in 0..FeedSize
BY ShieldAssumption DEF TypeOK, FeedAfter

LEMMA JudgedType ==
  ASSUME TypeOK, NEW p \in Pid, Judged(p)
  PROVE  /\ violation_events' \in 0..FeedSize
         /\ refusal' \in {"0", "EPERM", "EACCES"}
BY FeedType DEF Judged, Judge, NoRefusal

LEMMA InitType == Init => TypeOK /\ PolicyInv
<1>. SUFFICES ASSUME Init PROVE TypeOK /\ PolicyInv
  OBVIOUS
<1>1. cfg \in Settings /\ ~cfg.ready
  BY ShieldAssumption DEF Init, Settings
<1>2. DOMAIN protected_paths = {} /\ attached = {}
  BY DEF Init
<1>3. agent_pids \in [Pid -> Tag] /\ lineage \in [Pid -> SUBSET ExeList]
  BY DEF Init, Tag
<1>4. at \in [Path -> File \union {Nil}] /\ owed \in [Path -> SUBSET Op]
  BY ShieldAssumption DEF Init
<1>5. threads \in [Pid -> SUBSET Thread] /\ lost \subseteq Pid /\ missed \in BOOLEAN
  <2>1. PICK p \in Pid : threads = [q \in Pid |-> IF q = p THEN {"leader"} ELSE {}]
    BY DEF Init
  <2>. QED  BY <2>1 DEF Init, Thread
<1>9. violation_events \in 0..FeedSize
  BY ShieldAssumption DEF Init
<1>6. refusal \in {"0", "EPERM", "EACCES"}
  BY DEF Init, NoRefusal
<1>7. TypeOK
  BY <1>1, <1>2, <1>3, <1>4, <1>5, <1>6, <1>9 DEF TypeOK
<1>8. PolicyInv
  BY <1>1, <1>2 DEF Init, PolicyInv
<1>. QED  BY <1>7, <1>8
\* The program tags the tree knows: exec keeps to them.
LEMMA ExecTagType ==
  ASSUME NEW tag \in Tag, NEW lists
  PROVE  ExecTag(tag, lists) \in Tag
BY DEF ExecTag, Tag

LEMMA LineageType ==
  ASSUME NEW l \in SUBSET ExeList, NEW lists \in SUBSET ExeList
  PROVE  Lineage(l, lists) \in SUBSET ExeList
BY DEF Lineage, ExeList

LEMMA LoaderType ==
  ASSUME TypeOK, PolicyInv, Loader
  PROVE  TypeOK' /\ PolicyInv'
<1>. USE ShieldAssumption
<1>1. ASSUME NEW P \in DOMAIN Rules, LoadRule(P)
      PROVE  TypeOK' /\ PolicyInv'
  <2>1. protected_paths' = [Q \in DOMAIN protected_paths \union {P} |-> Rules[Q]]
    BY <1>1 DEF LoadRule
  <2>2. DOMAIN protected_paths' \subseteq DOMAIN Rules
    BY <2>1 DEF TypeOK
  <2>3. refusal' \in {"0", "EPERM", "EACCES"}
    BY <1>1 DEF LoadRule, Quiet, NoRefusal
  <2>4. TypeOK'
    BY <1>1, <2>2, <2>3 DEF TypeOK, LoadRule, processVars, fileVars
  <2>5. PolicyInv'
    BY <1>1, <2>1 DEF LoadRule, PolicyInv, Programs
  <2>. QED  BY <2>4, <2>5
<1>2. ASSUME NEW g \in Programs, Attach(g)
      PROVE  TypeOK' /\ PolicyInv'
  <2>1. refusal' \in {"0", "EPERM", "EACCES"}
    BY <1>2 DEF Attach, Quiet, NoRefusal
  <2>2. TypeOK'
    BY <1>2, <2>1 DEF TypeOK, Attach, processVars, fileVars
  <2>3. PolicyInv'
    BY <1>2 DEF Attach, PolicyInv
  <2>. QED  BY <2>2, <2>3
<1>3. CASE AttachFails
  <2>1. refusal' \in {"0", "EPERM", "EACCES"}
    BY <1>3 DEF AttachFails, Quiet, NoRefusal
  <2>2. agent_pids' \in [Pid -> Tag] /\ lineage' \in [Pid -> SUBSET ExeList]
    BY <1>3 DEF AttachFails, Tag
  <2>3. DOMAIN protected_paths' = {} /\ attached' = {} /\ violation_events' \in 0..FeedSize
    BY <1>3 DEF AttachFails
  <2>4. TypeOK'
    BY <1>3, <2>1, <2>2, <2>3 DEF TypeOK, AttachFails, fileVars
  <2>5. PolicyInv'
    BY <1>3, <2>3 DEF AttachFails, PolicyInv
  <2>. QED  BY <2>4, <2>5
<1>4. CASE setReady
  <2>1. refusal' \in {"0", "EPERM", "EACCES"}
    BY <1>4 DEF setReady, Quiet, NoRefusal
  <2>2. cfg' \in Settings /\ attached = Programs
    BY <1>4 DEF setReady, AllAttached, TypeOK, Settings
  <2>3. owed' \in [Path -> SUBSET Op]
    BY <1>4, GuardsType DEF setReady
  <2>4. TypeOK'
    BY <1>4, <2>1, <2>2, <2>3 DEF TypeOK, setReady, processVars
  <2>5. PolicyInv'
    BY <1>4, <2>2 DEF setReady, PolicyInv
  <2>. QED  BY <2>4, <2>5
<1>5. CASE handleViolation
  <2>1. refusal' \in {"0", "EPERM", "EACCES"}
    BY <1>5 DEF handleViolation, Quiet, NoRefusal
  <2>2. violation_events' \in 0..FeedSize
    BY <1>5 DEF handleViolation, TypeOK
  <2>. QED
    BY <1>5, <2>1, <2>2 DEF TypeOK, PolicyInv, handleViolation, loaderVars, processVars, fileVars
<1>. QED  BY <1>1, <1>2, <1>3, <1>4, <1>5 DEF Loader

\* What the steps of processes have in common.
LEMMA ProcessFrame ==
  ASSUME NEW p \in Pid, Process(p)
  PROVE  UNCHANGED <<loaderVars, fileVars, violation_events>> /\ Quiet
BY DEF Process, gs_exec, gs_fork, gs_clone, gs_exit

LEMMA TaggedType ==
  ASSUME TypeOK, NEW p \in Pid, NEW tag \in Tag, NEW room
  PROVE  Tagged(p, tag, room) \in [Pid -> Tag]
BY DEF Tagged, TypeOK

LEMMA RecordType ==
  ASSUME TypeOK, NEW l \in [Pid -> SUBSET ExeList], NEW gone \in SUBSET Pid, Record(l, gone)
  PROVE  lineage' \in [Pid -> SUBSET ExeList] /\ lost' \in SUBSET Pid /\ missed' \in BOOLEAN
BY DEF Record, TypeOK

TagType ==
  /\ agent_pids \in [Pid -> Tag] /\ threads \in [Pid -> SUBSET Thread]
  /\ lineage \in [Pid -> SUBSET ExeList] /\ lost \in SUBSET Pid /\ missed \in BOOLEAN

LEMMA ExecType ==
  ASSUME TypeOK, NEW p \in Pid, NEW lists \in Exes, gs_exec(p, lists)
  PROVE  TagType'
<1>1. PICK tag : tag = IF "gs_exec" \in attached THEN ExecTag(agent_pids[p], lists) ELSE agent_pids[p]
  OBVIOUS
<1>2. tag \in Tag
  BY <1>1, ExecTagType DEF TypeOK
<1>3. PICK l : l = [lineage EXCEPT ![p] = IF "gs_exec" \in attached THEN Lineage(@, lists) ELSE @]
  OBVIOUS
<1>4. l \in [Pid -> SUBSET ExeList]
  <2>1. lineage[p] \in SUBSET ExeList /\ lists \in SUBSET ExeList
    BY ShieldAssumption DEF TypeOK
  <2>2. Lineage(lineage[p], lists) \in SUBSET ExeList
    BY <2>1, LineageType
  <2>. QED  BY <1>3, <2>2 DEF TypeOK
<1>5. PICK room \in BOOLEAN, gone \in SUBSET Pid : agent_pids' = Tagged(p, tag, room) /\ Record(l, gone)
  BY <1>1, <1>3 DEF gs_exec, TypeOK
<1>6. threads' \in [Pid -> SUBSET Thread]
  BY DEF gs_exec, TypeOK, Thread
<1>. QED  BY <1>2, <1>4, <1>5, <1>6, TaggedType, RecordType DEF TagType

LEMMA ForkType ==
  ASSUME TypeOK, NEW p \in Pid, NEW child \in Pid, gs_fork(p, child)
  PROVE  TagType'
<1>1. PICK tag : tag = IF "gs_fork" \in attached /\ agent_pids[p] # "NONE"
                       THEN agent_pids[p] ELSE agent_pids[child]
  OBVIOUS
<1>2. tag \in Tag
  BY <1>1 DEF TypeOK
<1>3. PICK l : l = [lineage EXCEPT ![child] = lineage[p]]
  OBVIOUS
<1>4. l \in [Pid -> SUBSET ExeList]
  BY <1>3 DEF TypeOK
<1>5. PICK room \in BOOLEAN, gone \in SUBSET Pid :
        agent_pids' = Tagged(child, tag, room) /\ Record(l, gone)
  BY <1>1, <1>3 DEF gs_fork, TypeOK
<1>6. threads' \in [Pid -> SUBSET Thread]
  BY DEF gs_fork, TypeOK, Thread
<1>. QED  BY <1>2, <1>4, <1>5, <1>6, TaggedType, RecordType DEF TagType

LEMMA ExitType ==
  ASSUME TypeOK, NEW p \in Pid, NEW thread \in Thread, gs_exit(p, thread)
  PROVE  TagType'
<1>1. threads' \in [Pid -> SUBSET Thread] /\ agent_pids' \in [Pid -> Tag]
  BY DEF gs_exit, TypeOK, Tag
<1>2. PICK l \in [Pid -> SUBSET ExeList], gone \in SUBSET Pid : Record(l, gone)
  <2>1. [lineage EXCEPT ![p] = {}] \in [Pid -> SUBSET ExeList] /\ lineage \in [Pid -> SUBSET ExeList]
    BY DEF TypeOK
  <2>2. lost \ {p} \in SUBSET Pid /\ lost \in SUBSET Pid /\ lost \union {p} \in SUBSET Pid
    BY DEF TypeOK
  <2>. QED  BY <2>1, <2>2 DEF gs_exit
<1>. QED  BY <1>1, <1>2, RecordType DEF TagType

LEMMA ProcessType ==
  ASSUME TypeOK, PolicyInv, NEW p \in Pid, Process(p)
  PROVE  TypeOK' /\ PolicyInv'
<1>1. UNCHANGED <<loaderVars, fileVars, violation_events>> /\ refusal' \in {"0", "EPERM", "EACCES"}
  BY ProcessFrame DEF Quiet, NoRefusal
<1>2. TagType'
  <2>1. CASE gs_clone(p)
    BY <2>1 DEF gs_clone, TagType, TypeOK, Thread
  <2>. QED  BY <2>1, ExecType, ForkType, ExitType DEF Process
<1>. QED  BY <1>1, <1>2 DEF TypeOK, PolicyInv, TagType, loaderVars, fileVars

\* What calls do to directory entries keeps to the types.
FileType ==
  /\ at \in [Path -> File \union {Nil}]
  /\ owed \in [Path -> SUBSET Op]

LEMMA PutType ==
  ASSUME TypeOK, PolicyInv, NEW p \in Pid, NEW q \in Path, NEW f \in File,
         NEW due \in SUBSET Op, Put(p, q, f, due)
  PROVE  FileType'
BY GuardsType DEF Put, DueAt, FileType, TypeOK

LEMMA PathCallType ==
  ASSUME TypeOK, PolicyInv, NEW p \in Pid, NEW q \in Path, PathCall(p, q)
  PROVE  FileType'
<1>. USE DEF TypeOK
<1>1. CASE gs_path_unlink(p, q)
  BY <1>1 DEF gs_path_unlink, TakesNothing, fileVars, FileType
<1>2. ASSUME NEW r \in Path, NEW exchange \in BOOLEAN, gs_path_rename(p, q, r, exchange)
      PROVE  FileType'
  <2>1. CASE UNCHANGED fileVars
    BY <2>1 DEF fileVars, FileType
  <2>2. CASE /\ at' = [at EXCEPT ![q] = IF exchange THEN at[r] ELSE Nil, ![r] = at[q]]
             /\ owed' = [owed EXCEPT ![q] = IF exchange THEN Guards(q) ELSE {},
                                     ![r] = DueAt(p, r, owed[q])]
    <3>1. Guards(q) \in SUBSET Op /\ DueAt(p, r, owed[q]) \in SUBSET Op
      BY GuardsType DEF DueAt
    <3>. QED  BY <2>2, <3>1 DEF FileType
  <2>. QED  BY <1>2, <2>1, <2>2 DEF gs_path_rename, TakesNothing
<1>3. ASSUME NEW r \in Path, gs_path_link(p, q, r)
      PROVE  FileType'
  <2>1. CASE UNCHANGED fileVars
    BY <2>1 DEF fileVars, FileType
  <2>2. CASE Put(p, r, at[q], owed[q])
    <3>1. at[q] \in File /\ owed[q] \in SUBSET Op
      BY <1>3 DEF gs_path_link
    <3>. QED  BY <2>2, <3>1, PutType
  <2>. QED  BY <1>3, <2>1, <2>2 DEF gs_path_link, TakesNothing
<1>4. CASE gs_path_mknod(p, q)
  <2>1. CASE UNCHANGED fileVars
    BY <2>1 DEF fileVars, FileType
  <2>2. ASSUME NEW f \in File, Put(p, q, f, {})
        PROVE  FileType'
    BY <2>2, PutType
  <2>. QED  BY <1>4, <2>1, <2>2 DEF gs_path_mknod, TakesNothing
<1>5. CASE gs_path_chmod(p, q)
  BY <1>5 DEF gs_path_chmod, fileVars, FileType
<1>6. ASSUME NEW op, gs_path_dir(p, op, q)
      PROVE  FileType'
  BY <1>6 DEF gs_path_dir, TakesNothing, fileVars, FileType
<1>7. CASE gs_path_truncate(p, q)
  BY <1>7 DEF gs_path_truncate, fileVars, FileType
<1>8. ASSUME NEW writing \in BOOLEAN, gs_file_open(p, q, writing)
      PROVE  FileType'
  BY <1>8 DEF gs_file_open, fileVars, FileType
<1>. QED  BY <1>1, <1>2, <1>3, <1>4, <1>5, <1>6, <1>7, <1>8 DEF PathCall

LEMMA CallType ==
  ASSUME TypeOK, PolicyInv, NEW p \in Pid, Call(p)
  PROVE  TypeOK' /\ PolicyInv'
<1>1. UNCHANGED <<loaderVars, processVars>> /\ Judged(p)
  BY CallFrame
<1>2. FileType'
  <2>1. CASE OtherCall(p)
    BY <2>1, OtherCallFrame DEF fileVars, FileType, TypeOK
  <2>2. ASSUME NEW q \in Path, PathCall(p, q)
        PROVE  FileType'
    BY <2>2, PathCallType
  <2>. QED  BY <2>1, <2>2 DEF Call
<1>3. /\ violation_events' \in 0..FeedSize
      /\ refusal' \in {"0", "EPERM", "EACCES"}
  BY <1>1, JudgedType
<1>. QED  BY <1>1, <1>2, <1>3 DEF TypeOK, PolicyInv, loaderVars, processVars, FileType

LEMMA NextType ==
  ASSUME TypeOK, PolicyInv, [Next]_vars
  PROVE  TypeOK' /\ PolicyInv'
<1>1. CASE UNCHANGED vars
  BY <1>1 DEF vars, loaderVars, processVars, fileVars, TypeOK, PolicyInv
<1>. QED  BY <1>1, LoaderType, ProcessType, CallType DEF Next

\* The maps, the tags, the entries and the verdicts keep to their types whatever the
\* loader, the processes and the calls do, and the loader's state is one of the
\* orders attachAndPin and setReady allow.
THEOREM TypeCorrect == Spec => [](TypeOK /\ PolicyInv)
<1>1. Init => TypeOK /\ PolicyInv
  BY InitType
<1>2. (TypeOK /\ PolicyInv) /\ [Next]_vars => (TypeOK /\ PolicyInv)'
  BY NextType
<1>. QED  BY <1>1, <1>2, PTL DEF Spec
-----------------------------------------------------------------------------
(* Refusals. *)

LEMMA RefusalStep ==
  ASSUME TypeOK, PolicyInv, [Next]_vars, refusal' # NoRefusal, ~UNCHANGED vars
  PROVE  protected_paths' = Rules /\ attached' = Programs /\ ~cfg'.log_only
<1>1. PICK p \in Pid : Call(p)
  <2>1. Loader => Quiet
    BY DEF Loader, LoadRule, Attach, AttachFails, setReady, handleViolation
  <2>. QED  BY <2>1, ProcessFrame DEF Next, Quiet
<1>2. UNCHANGED loaderVars /\ Judged(p)
  BY <1>1, CallFrame
<1>3. cfg.ready /\ ~cfg.log_only
  BY <1>2 DEF Judged, Judge
<1>4. attached = Programs /\ DOMAIN protected_paths = DOMAIN Rules
  BY <1>3 DEF PolicyInv, Programs, Tracepoints
<1>5. protected_paths = Rules
  BY <1>4, ShieldAssumption DEF PolicyInv
<1>. QED  BY <1>2, <1>3, <1>4, <1>5 DEF loaderVars

\* A call is refused only under the complete policy, with every program attached and
\* outside a dry run: attachAndPin has returned and setReady has been called.
THEOREM RefusalsAreDeliberate == Spec => RefusesUnderFullPolicy
<1>1. Init => TypeOK /\ PolicyInv
  BY InitType
<1>2. (TypeOK /\ PolicyInv) /\ [Next]_vars => (TypeOK /\ PolicyInv)'
  BY NextType
<1>3. (TypeOK /\ PolicyInv) /\ [Next]_vars =>
        [refusal' # NoRefusal => /\ protected_paths' = Rules /\ attached' = Programs
                                 /\ ~cfg'.log_only]_vars
  BY RefusalStep
<1>. QED  BY <1>1, <1>2, <1>3, PTL DEF Spec, RefusesUnderFullPolicy

-----------------------------------------------------------------------------
(* Tags. *)

\* An override starts a lineage and is forgotten at the next agent or build tool.
Lineages == {l \in SUBSET ExeList : /\ "trusted" \in l => l = {"trusted"}
                                    /\ "exempt" \in l => l = {"exempt"}}

LEMMA AgentTag ==
  ASSUME NEW l \in Lineages
  PROVE  TagOf(l) = "AGENT" <=> "agent" \in l
<1>1. CASE "agent" \in l
  BY <1>1 DEF TagOf
<1>2. CASE "agent" \notin l
  <2>1. "build" \in l \/ l = {} \/ l = {"trusted"} \/ l = {"exempt"}
    BY <1>2 DEF Lineages, ExeList
  <2>. QED  BY <1>2, <2>1 DEF TagOf
<1>. QED  BY <1>1, <1>2

LEMMA BuildTag ==
  ASSUME NEW l \in Lineages, "build" \in l, "agent" \notin l
  PROVE  TagOf(l) = "TAINTED"
BY DEF TagOf

\* exec keeps the tag that the lineage calls for, whatever was executed before: an
\* agent stays one under a build tool, and a build tool's taint gives way to an agent.
LEMMA ExecTagOfLineage ==
  ASSUME NEW l \in Lineages, NEW lists \in SUBSET ExeList
  PROVE  /\ Lineage(l, lists) \in Lineages
         /\ ExecTag(TagOf(l), lists) = TagOf(Lineage(l, lists))
<1>1. /\ TagOf({"trusted"}) = "TRUSTED" /\ TagOf({"exempt"}) = "EXEMPT"
      /\ {"trusted"} \in Lineages /\ {"exempt"} \in Lineages
  <2>1. /\ "agent" \notin {"trusted"} /\ "build" \notin {"trusted"} /\ {"trusted"} # {}
        /\ "agent" \notin {"exempt"} /\ "build" \notin {"exempt"} /\ {"exempt"} # {}
        /\ {"exempt"} # {"trusted"} /\ "exempt" \notin {"trusted"} /\ "trusted" \notin {"exempt"}
    OBVIOUS
  <2>2. TagOf({"trusted"}) = "TRUSTED" /\ TagOf({"exempt"}) = "EXEMPT"
    BY <2>1 DEF TagOf
  <2>. QED  BY <2>1, <2>2 DEF Lineages, ExeList
<1>2. CASE "trusted" \in lists
  <2>1. Lineage(l, lists) = {"trusted"} /\ ExecTag(TagOf(l), lists) = "TRUSTED"
    BY <1>2 DEF Lineage, ExecTag
  <2>. QED  BY <1>1, <2>1
<1>3. CASE "exempt" \in lists /\ "trusted" \notin lists
  <2>1. Lineage(l, lists) = {"exempt"} /\ ExecTag(TagOf(l), lists) = "EXEMPT"
    BY <1>3 DEF Lineage, ExecTag
  <2>. QED  BY <1>1, <2>1
<1>4. CASE "agent" \in lists /\ lists \intersect {"trusted", "exempt"} = {}
  <2>1. PICK m : m = (l \ {"trusted", "exempt"}) \union lists
    OBVIOUS
  <2>2. Lineage(l, lists) = m /\ ExecTag(TagOf(l), lists) = "AGENT"
    BY <1>4, <2>1 DEF Lineage, ExecTag
  <2>3. m \in Lineages /\ "agent" \in m
    <3>1. m \in SUBSET ExeList /\ "trusted" \notin m /\ "exempt" \notin m /\ "agent" \in m
      BY <1>4, <2>1 DEF Lineages
    <3>. QED  BY <3>1 DEF Lineages
  <2>. QED  BY <2>2, <2>3, AgentTag
<1>5. CASE lists = {"build"}
  <2>1. PICK m : m = (l \ {"trusted", "exempt"}) \union {"build"}
    OBVIOUS
  <2>2. Lineage(l, lists) = m
    BY <1>5, <2>1 DEF Lineage
  <2>3. ExecTag(TagOf(l), lists) = IF TagOf(l) = "AGENT" THEN "AGENT" ELSE "TAINTED"
    BY <1>5 DEF ExecTag
  <2>4. /\ m \in SUBSET ExeList /\ "trusted" \notin m /\ "exempt" \notin m
        /\ "build" \in m /\ ("agent" \in m <=> "agent" \in l)
    BY <2>1 DEF Lineages, ExeList
  <2>5. m \in Lineages
    BY <2>4 DEF Lineages
  <2>6. TagOf(m) = IF "agent" \in l THEN "AGENT" ELSE "TAINTED"
    BY <2>4, <2>5, AgentTag, BuildTag
  <2>7. TagOf(l) = "AGENT" <=> "agent" \in l
    BY AgentTag
  <2>. QED  BY <2>2, <2>3, <2>5, <2>6, <2>7
<1>6. CASE lists = {}
  BY <1>6 DEF Lineage, ExecTag
<1>. QED  BY <1>2, <1>3, <1>4, <1>5, <1>6 DEF ExeList

\* A program that settles the tag does so whatever the tag was.
Settles(lists) == lists \intersect {"trusted", "exempt", "agent"} # {}

LEMMA SettledTag ==
  ASSUME NEW l \in Lineages, NEW lists \in SUBSET ExeList, Settles(lists), NEW tag
  PROVE  ExecTag(tag, lists) = TagOf(Lineage(l, lists))
<1>1. ExecTag(tag, lists) = ExecTag(TagOf(l), lists)
  BY DEF ExecTag, Settles, ExeList
<1>. QED  BY <1>1, ExecTagOfLineage

\* Any other leaves an identifier without the tag of its lineage with no more than a
\* build tool's.
LEMMA UnsettledTag ==
  ASSUME NEW lists \in SUBSET ExeList, ~Settles(lists), NEW tag \in {"NONE", "TAINTED"}
  PROVE  ExecTag(tag, lists) \in {"NONE", "TAINTED"}
BY DEF ExecTag, Settles, ExeList

\* Until every tracepoint is attached the lineages recorded are empty and no tag is
\* lost; a free identifier has no lineage, which is what a child that gets it relies on,
\* and a process without its leader has no tag.
TagInv ==
  /\ lineage \in [Pid -> Lineages]
  /\ lost \subseteq live
  /\ \A p \in Pid \ live : lineage[p] = {}
  /\ ~(Tracepoints \subseteq attached) => lost = {} /\ \A p \in Pid : lineage[p] = {}
  /\ missed \/ \A p \in Pid : "leader" \notin threads[p] => agent_pids[p] = "NONE"
  /\ TagIsLineage

LEMMA EmptyLineage == {} \in Lineages /\ TagOf({}) = "NONE"
BY DEF Lineages, TagOf

\* Before a tracepoint is attached no tag changes.
LEMMA TagsUnseen ==
  ASSUME TypeOK, TagInv, NEW p \in Pid, Process(p), ~missed,
         attached \intersect Tracepoints = {}
  PROVE  /\ lineage' = lineage /\ agent_pids' = agent_pids /\ missed' = FALSE /\ lost' = lost
         /\ \A q \in Pid : lineage[q] = {} /\ agent_pids[q] = "NONE"
<1>1. lost = {} /\ \A q \in Pid : lineage[q] = {}
  BY DEF TagInv, Tracepoints
<1>2. \A q \in Pid : agent_pids[q] = "NONE"
  BY <1>1, EmptyLineage DEF TagInv, TagIsLineage
<1>3. /\ ~PartlyAttached /\ missed = FALSE
      /\ "gs_exec" \notin attached /\ "gs_fork" \notin attached /\ "gs_exit" \notin attached
  BY DEF PartlyAttached, Tracepoints, TypeOK
<1>4. \A q \in Pid, room \in BOOLEAN : Tagged(q, agent_pids[q], room) = agent_pids /\ ~Refused(q, agent_pids[q], room)
  BY DEF Tagged, Refused, TypeOK
<1>5. ASSUME NEW lists \in Exes, gs_exec(p, lists)
      PROVE  lineage' = lineage /\ agent_pids' = agent_pids /\ missed' = FALSE /\ lost' = lost
  BY <1>3, <1>4, <1>5 DEF gs_exec, Record, TypeOK
<1>6. ASSUME NEW child \in Pid, gs_fork(p, child)
      PROVE  lineage' = lineage /\ agent_pids' = agent_pids /\ missed' = FALSE /\ lost' = lost
  BY <1>1, <1>3, <1>4, <1>6 DEF gs_fork, Record, TypeOK
<1>7. CASE gs_clone(p)
  BY <1>1, <1>2, <1>3, <1>7 DEF gs_clone
<1>8. ASSUME NEW thread \in Thread, gs_exit(p, thread)
      PROVE  lineage' = lineage /\ agent_pids' = agent_pids /\ missed' = FALSE /\ lost' = lost
  BY <1>1, <1>3, <1>8 DEF gs_exit, Record, TypeOK
<1>. QED  BY <1>1, <1>2, <1>3, <1>5, <1>6, <1>7, <1>8 DEF Process

\* Every tracepoint is attached and none was missed.
Watched ==
  /\ ~missed /\ ~PartlyAttached
  /\ "gs_exec" \in attached /\ "gs_fork" \in attached /\ "gs_exit" \in attached

LEMMA ExecTags ==
  ASSUME TypeOK, TagInv, Watched, NEW p \in Pid, NEW lists \in Exes, gs_exec(p, lists)
  PROVE  TagInv'
<1>1. PICK tag : tag = ExecTag(agent_pids[p], lists)
  OBVIOUS
<1>2. PICK l : l = Lineage(lineage[p], lists)
  OBVIOUS
<1>3. lists \in SUBSET ExeList /\ lineage[p] \in Lineages
  BY ShieldAssumption DEF TagInv
<1>4. PICK room \in BOOLEAN :
        /\ agent_pids' = Tagged(p, tag, room)
        /\ lost' = IF Refused(p, tag, room) THEN lost \union {p}
                   ELSE IF Settles(lists) THEN lost \ {p} ELSE lost
  BY <1>1 DEF gs_exec, Record, Watched, Settles
<1>5. /\ lineage' = [lineage EXCEPT ![p] = l] /\ missed' = FALSE /\ attached' = attached
      /\ threads' = [threads EXCEPT ![p] = {"leader"}] /\ p \in live
  BY <1>2 DEF gs_exec, Record, Watched, TypeOK, loaderVars
<1>6. l \in Lineages
  BY <1>2, <1>3, ExecTagOfLineage
<1>7. live' = live
  BY <1>5 DEF live, TypeOK
<1>8. \A q \in Pid : q # p => /\ agent_pids'[q] = agent_pids[q] /\ lineage'[q] = lineage[q]
                              /\ q \in lost' <=> q \in lost
  BY <1>4, <1>5 DEF Tagged, TypeOK
<1>9. IF p \in lost' THEN agent_pids'[p] \in {"NONE", "TAINTED"} ELSE agent_pids'[p] = TagOf(lineage'[p])
  <2>1. IF p \in lost THEN agent_pids[p] \in {"NONE", "TAINTED"} ELSE agent_pids[p] = TagOf(lineage[p])
    BY DEF TagInv, TagIsLineage, Watched
  <2>2. lineage'[p] = l
    BY <1>5 DEF TagInv
  <2>3. CASE Refused(p, tag, room)
    BY <1>4, <2>3 DEF Tagged, Refused
  <2>4. CASE ~Refused(p, tag, room)
    <3>1. agent_pids'[p] = tag
      BY <1>4, <2>4 DEF Tagged, TypeOK
    <3>2. CASE Settles(lists)
      <4>1. tag = TagOf(l)
        BY <1>1, <1>2, <1>3, <3>2, SettledTag
      <4>2. p \notin lost'
        BY <1>4, <2>4, <3>2
      <4>. QED  BY <2>2, <3>1, <4>1, <4>2
    <3>3. CASE ~Settles(lists)
      <4>1. lost' = lost
        BY <1>4, <2>4, <3>3
      <4>2. p \in lost => tag \in {"NONE", "TAINTED"}
        BY <1>1, <1>3, <2>1, <3>3, UnsettledTag
      <4>3. p \notin lost => tag = TagOf(l)
        BY <1>1, <1>2, <1>3, <2>1, ExecTagOfLineage
      <4>. QED  BY <2>2, <3>1, <4>1, <4>2, <4>3
    <3>. QED  BY <3>2, <3>3
  <2>. QED  BY <2>3, <2>4
<1>10. lineage' \in [Pid -> Lineages] /\ lost' \subseteq live'
  BY <1>4, <1>5, <1>6, <1>7 DEF TagInv
<1>11. \A q \in Pid : "leader" \notin threads'[q] => agent_pids'[q] = "NONE"
  BY <1>5, <1>8 DEF TagInv, TypeOK, Watched
<1>12. TagIsLineage'
  BY <1>8, <1>9 DEF TagInv, TagIsLineage, Watched
<1>13. Tracepoints \subseteq attached'
  BY <1>5 DEF Watched, Tracepoints
<1>. QED  BY <1>5, <1>7, <1>8, <1>10, <1>11, <1>12, <1>13 DEF TagInv

LEMMA ForkTags ==
  ASSUME TypeOK, TagInv, Watched, NEW p \in Pid, NEW child \in Pid, gs_fork(p, child)
  PROVE  TagInv'
<1>1. child \notin live /\ p \in live /\ child \notin lost
  BY DEF gs_fork, TagInv
<1>2. agent_pids[child] = "NONE" /\ lineage[child] = {}
  BY <1>1, EmptyLineage DEF TagInv, TagIsLineage, Watched
<1>3. PICK room \in BOOLEAN :
        /\ agent_pids' = Tagged(child, agent_pids[p], room)
        /\ lost' = IF p \in lost \/ Refused(child, agent_pids[p], room) THEN lost \union {child} ELSE lost
  <2>1. (IF "gs_fork" \in attached /\ agent_pids[p] # "NONE" THEN agent_pids[p] ELSE agent_pids[child])
          = agent_pids[p]
    BY <1>2 DEF Watched
  <2>. QED  BY <2>1 DEF gs_fork, Record, Watched
<1>4. /\ lineage' = [lineage EXCEPT ![child] = lineage[p]] /\ missed' = FALSE /\ attached' = attached
      /\ threads' = [threads EXCEPT ![child] = {"leader"}]
  BY DEF gs_fork, Record, Watched, TypeOK, loaderVars
<1>5. live' = live \union {child}
  BY <1>4 DEF live, TypeOK
<1>6. \A q \in Pid : q # child => /\ agent_pids'[q] = agent_pids[q] /\ lineage'[q] = lineage[q]
                                  /\ q \in lost' <=> q \in lost
  BY <1>3, <1>4 DEF Tagged, TypeOK
<1>7. IF child \in lost' THEN agent_pids'[child] \in {"NONE", "TAINTED"}
      ELSE agent_pids'[child] = TagOf(lineage'[child])
  <2>1. IF p \in lost THEN agent_pids[p] \in {"NONE", "TAINTED"} ELSE agent_pids[p] = TagOf(lineage[p])
    BY DEF TagInv, TagIsLineage, Watched
  <2>2. lineage'[child] = lineage[p]
    BY <1>4 DEF TagInv
  <2>3. CASE Refused(child, agent_pids[p], room)
    BY <1>2, <1>3, <2>3 DEF Tagged
  <2>4. CASE ~Refused(child, agent_pids[p], room)
    <3>1. agent_pids'[child] = agent_pids[p]
      BY <1>3, <2>4 DEF Tagged, TypeOK
    <3>. QED  BY <1>1, <1>3, <2>1, <2>2, <2>4, <3>1
  <2>. QED  BY <2>3, <2>4
<1>8. lineage' \in [Pid -> Lineages] /\ lost' \subseteq live'
  BY <1>3, <1>4, <1>5 DEF TagInv
<1>9. \A q \in Pid : "leader" \notin threads'[q] => agent_pids'[q] = "NONE"
  BY <1>4, <1>6 DEF TagInv, TypeOK, Watched
<1>10. TagIsLineage'
  BY <1>6, <1>7 DEF TagInv, TagIsLineage, Watched
<1>11. \A q \in Pid \ live' : lineage'[q] = {}
  BY <1>5, <1>6 DEF TagInv
<1>12. Tracepoints \subseteq attached'
  BY <1>4 DEF Watched, Tracepoints
<1>. QED  BY <1>4, <1>8, <1>9, <1>10, <1>11, <1>12 DEF TagInv

LEMMA ExitTags ==
  ASSUME TypeOK, TagInv, Watched, NEW p \in Pid, NEW thread \in Thread, gs_exit(p, thread)
  PROVE  TagInv'
<1>1. /\ thread \in threads[p] /\ threads' = [threads EXCEPT ![p] = @ \ {thread}]
      /\ missed' = FALSE /\ attached' = attached /\ p \in live
  BY DEF gs_exit, Record, Watched, TypeOK, loaderVars, live
<1>2. agent_pids' = IF thread = "leader" THEN [agent_pids EXCEPT ![p] = "NONE"] ELSE agent_pids
  BY DEF gs_exit, Watched
<1>3. \A q \in Pid : q # p => agent_pids'[q] = agent_pids[q]
  BY <1>2 DEF TypeOK
<1>4. "leader" \notin threads'[p] => agent_pids'[p] = "NONE"
  <2>1. CASE thread = "leader"
    BY <1>2, <2>1 DEF TypeOK
  <2>2. CASE thread # "leader"
    BY <1>1, <1>2, <2>2 DEF TagInv, TypeOK, Watched
  <2>. QED  BY <2>1, <2>2
<1>5. \A q \in Pid : "leader" \notin threads'[q] => agent_pids'[q] = "NONE"
  BY <1>1, <1>3, <1>4 DEF TagInv, TypeOK, Watched
<1>6. Tracepoints \subseteq attached'
  BY <1>1 DEF Watched, Tracepoints
<1>7. CASE threads[p] = {thread}
  <2>1. lineage' = [lineage EXCEPT ![p] = {}] /\ lost' = lost \ {p}
    BY <1>7 DEF gs_exit, Record, Watched
  <2>2. live' = live \ {p} /\ threads'[p] = {}
    BY <1>1, <1>7 DEF live, TypeOK
  <2>3. agent_pids'[p] = "NONE" /\ lineage'[p] = {}
    BY <1>4, <2>1, <2>2 DEF TagInv
  <2>4. \A q \in Pid : q # p => lineage'[q] = lineage[q] /\ (q \in lost' <=> q \in lost)
    BY <2>1 DEF TagInv
  <2>5. lineage' \in [Pid -> Lineages] /\ lost' \subseteq live'
    BY <2>1, <2>2, EmptyLineage DEF TagInv
  <2>6. TagIsLineage'
    BY <1>3, <2>1, <2>3, <2>4, EmptyLineage DEF TagInv, TagIsLineage, Watched
  <2>7. \A q \in Pid \ live' : lineage'[q] = {}
    BY <2>2, <2>3, <2>4 DEF TagInv
  <2>. QED  BY <1>1, <1>5, <1>6, <2>5, <2>6, <2>7 DEF TagInv
<1>8. CASE threads[p] # {thread}
  <2>1. /\ lineage' = lineage
        /\ lost' = IF thread = "leader" /\ agent_pids[p] # "NONE" THEN lost \union {p} ELSE lost
    BY <1>8 DEF gs_exit, Record, Watched
  <2>2. live' = live
    BY <1>1, <1>8 DEF live, TypeOK
  <2>3. IF p \in lost' THEN agent_pids'[p] \in {"NONE", "TAINTED"} ELSE agent_pids'[p] = TagOf(lineage[p])
    <3>1. IF p \in lost THEN agent_pids[p] \in {"NONE", "TAINTED"} ELSE agent_pids[p] = TagOf(lineage[p])
      BY DEF TagInv, TagIsLineage, Watched
    <3>2. agent_pids'[p] = IF thread = "leader" THEN "NONE" ELSE agent_pids[p]
      BY <1>2 DEF TypeOK
    <3>. QED  BY <2>1, <3>1, <3>2
  <2>4. TagIsLineage'
    BY <1>3, <2>1, <2>3 DEF TagInv, TagIsLineage, Watched
  <2>. QED  BY <1>1, <1>5, <1>6, <2>1, <2>2, <2>4 DEF TagInv
<1>. QED  BY <1>7, <1>8

LEMMA ProcessTags ==
  ASSUME TypeOK, TagInv, NEW p \in Pid, Process(p)
  PROVE  TagInv'
<1>1. CASE gs_clone(p)
  <2>1. threads' = [threads EXCEPT ![p] = @ \union {"other"}] /\ p \in live
    BY <1>1 DEF gs_clone
  <2>2. live' = live /\ \A q \in Pid : "leader" \in threads'[q] <=> "leader" \in threads[q]
    BY <2>1 DEF live, TypeOK
  <2>3. UNCHANGED <<attached, agent_pids, lineage, lost, missed>>
    BY <1>1 DEF gs_clone, loaderVars
  <2>. QED  BY <2>2, <2>3 DEF TagInv, TagIsLineage
<1>2. CASE ~gs_clone(p) /\ (missed \/ PartlyAttached)
  <2>1. missed' /\ lineage' = [q \in Pid |-> {}] /\ lost' = {}
    BY <1>2 DEF Process, gs_exec, gs_fork, gs_exit, Record
  <2>. QED  BY <2>1, EmptyLineage DEF TagInv, TagIsLineage
<1>3. CASE ~gs_clone(p) /\ ~missed /\ attached \intersect Tracepoints = {}
  <2>1. /\ lineage' = lineage /\ agent_pids' = agent_pids /\ missed' = FALSE /\ lost' = lost
        /\ \A q \in Pid : lineage[q] = {} /\ agent_pids[q] = "NONE"
    BY <1>3, TagsUnseen
  <2>2. lost = {} /\ UNCHANGED attached
    BY <1>3, ProcessFrame DEF TagInv, Tracepoints, loaderVars
  <2>3. \A q \in Pid : lineage'[q] = {} /\ agent_pids'[q] = "NONE"
    BY <2>1
  <2>4. TagIsLineage'
    BY <2>1, <2>2, <2>3, EmptyLineage DEF TagIsLineage
  <2>5. lineage' \in [Pid -> Lineages] /\ lost' \subseteq live'
    BY <2>1, <2>2 DEF TagInv
  <2>. QED  BY <2>1, <2>2, <2>3, <2>4, <2>5 DEF TagInv
<1>4. CASE ~gs_clone(p) /\ ~missed /\ Tracepoints \subseteq attached
  <2>1. Watched
    BY <1>4 DEF Watched, PartlyAttached, Tracepoints
  <2>. QED  BY <1>4, <2>1, ExecTags, ForkTags, ExitTags DEF Process
<1>. QED  BY <1>1, <1>2, <1>3, <1>4 DEF PartlyAttached

LEMMA LoaderTags ==
  ASSUME TypeOK, PolicyInv, TagInv, Loader
  PROVE  TagInv'
<1>1. CASE AttachFails
  BY <1>1, EmptyLineage DEF AttachFails, TagInv, TagIsLineage, live
<1>2. ASSUME NEW g \in Programs, Attach(g)
      PROVE  TagInv'
  BY <1>2 DEF Attach, TagInv, TagIsLineage, processVars, live
<1>3. CASE UNCHANGED <<attached, processVars>>
  BY <1>3 DEF TagInv, TagIsLineage, processVars, live
<1>4. (\E P \in DOMAIN Rules : LoadRule(P)) \/ setReady \/ handleViolation
        => UNCHANGED <<attached, processVars>>
  BY DEF LoadRule, setReady, handleViolation, loaderVars
<1>. QED  BY <1>1, <1>2, <1>3, <1>4 DEF Loader

LEMMA NextTags ==
  ASSUME TypeOK, PolicyInv, TagInv, [Next]_vars
  PROVE  TagInv'
<1>1. CASE UNCHANGED vars
  BY <1>1 DEF vars, loaderVars, processVars, TagInv, TagIsLineage, live
<1>2. ASSUME NEW p \in Pid, Call(p)
      PROVE  TagInv'
  <2>1. UNCHANGED <<loaderVars, processVars>>
    BY <1>2, CallFrame
  <2>. QED  BY <2>1 DEF loaderVars, processVars, TagInv, TagIsLineage, live
<1>. QED  BY <1>1, <1>2, LoaderTags, ProcessTags DEF Next

\* Whatever processes clone, fork, execute and exit, in whatever order, and however their
\* identifiers are reused: the tag of each is what its line of programs calls for.  A
\* process whose leader ended, or whose tag found no room in the map, has at most the
\* tag of a build tool until a program settles its tag.
THEOREM TagsFollowLineage == Spec => []TagIsLineage
<1>1. Init => TypeOK /\ PolicyInv /\ TagInv
  <2>1. Init => TagInv
    BY EmptyLineage DEF Init, TagInv, TagIsLineage
  <2>. QED  BY <2>1, InitType
<1>2. (TypeOK /\ PolicyInv /\ TagInv) /\ [Next]_vars => (TypeOK /\ PolicyInv /\ TagInv)'
  BY NextType, NextTags
<1>3. TagInv => TagIsLineage
  BY DEF TagInv
<1>. QED  BY <1>1, <1>2, <1>3, PTL DEF Spec
-----------------------------------------------------------------------------
(* What travels with an entry. *)

\* An entry that is not there owes nothing; one that is there guards what it owes.
OwedInv ==
  /\ \A q \in Path : at[q] = Nil => owed[q] = {}
  /\ GuardTravels
  /\ OwedIsKept

\* An operation that no hit stops is not owed at the place.
LEMMA NotOwed ==
  ASSUME OwedInv, cfg.ready, NEW q \in Path, NEW op, ~Hit(protected_paths, op, Seen[q])
  PROVE  op \notin owed[q]
<1>1. CASE at[q] = Nil
  BY <1>1 DEF OwedInv
<1>2. CASE at[q] # Nil
  BY <1>2, HitIsGuarded DEF OwedInv, GuardTravels, Guards
<1>. QED  BY <1>1, <1>2

\* What is taken when a hook lets op pass at these places.
LEMMA TakesNone ==
  ASSUME NEW p, NEW op, NEW places, Takes(p, op, places),
         Denied(Guarding(p)) => \A q \in places : op \notin owed[q]
  PROVE  taken' = {}
BY DEF Takes

\* The policy does not change once enforcement has begun.
LEMMA CallOwes ==
  ASSUME TypeOK, PolicyInv, OwedInv, NEW p \in Pid, NEW q \in Path, PathCall(p, q)
  PROVE  OwedInv'
<1>0. UNCHANGED <<cfg, protected_paths>> /\ \A r : Guards(r)' = Guards(r)
  BY PathCallFrame DEF loaderVars, Guards
<1>. DEFINE GoodEntries(a, o) == /\ \A s \in Path : a[s] = Nil => o[s] = {}
                                 /\ cfg.ready => \A s \in Path : a[s] # Nil => o[s] \subseteq Guards(s)
<1>1. ASSUME GoodEntries(at', owed'), taken' = {}
      PROVE  OwedInv'
  BY <1>0, <1>1 DEF OwedInv, GuardTravels, OwedIsKept
<1>2. GoodEntries(at, owed)
  BY DEF OwedInv, GuardTravels
<1>3. Denied(Guarding(p)) => cfg.ready
  BY DEF Denied, Guarding
<1>. HIDE DEF GoodEntries
<1>12. ASSUME UNCHANGED fileVars, taken' = {}
       PROVE  OwedInv'
  BY <1>1, <1>2, <1>12 DEF fileVars
<1>13. CASE TakesNothing
  BY <1>12, <1>13 DEF TakesNothing
<1>4. CASE gs_path_unlink(p, q)
  <2>1. CASE Denied(PathBlocked(p, "UNLINK", q))
    BY <1>4, <1>13, <2>1 DEF gs_path_unlink
  <2>2. CASE ~Denied(PathBlocked(p, "UNLINK", q))
    <3>1. Denied(Guarding(p)) => "UNLINK" \notin owed[q]
      BY <1>3, <2>2, NotOwed DEF Denied, PathBlocked
    <3>2. /\ at' = [at EXCEPT ![q] = Nil] /\ owed' = [owed EXCEPT ![q] = {}]
          /\ Takes(p, "UNLINK", {q})
      BY <1>4, <2>2 DEF gs_path_unlink
    <3>3. taken' = {}
      BY <3>1, <3>2, TakesNone
    <3>4. GoodEntries(at', owed')
      BY <1>2, <3>2 DEF GoodEntries, TypeOK
    <3>. QED  BY <1>1, <3>3, <3>4
  <2>. QED  BY <2>1, <2>2
<1>5. ASSUME NEW r \in Path, NEW exchange \in BOOLEAN, gs_path_rename(p, q, r, exchange)
      PROVE  OwedInv'
  <2>1. CASE Denied(MoveBlocked(p, "RENAME", q, r)) \/ at[q] = at[r]
    BY <1>5, <1>13, <2>1 DEF gs_path_rename
  <2>2. CASE ~Denied(MoveBlocked(p, "RENAME", q, r)) /\ at[q] # at[r]
    <3>1. Denied(Guarding(p)) =>
            "RENAME" \notin owed[q] /\ "RENAME" \notin owed[r] /\ Guards(q) \subseteq Guards(r)
      BY <1>3, <2>2, NotOwed DEF Denied, MoveBlocked, MoveHit, Escape, Guards
    <3>2. /\ at[q] # Nil /\ q # r /\ (exchange => at[r] # Nil)
          /\ at' = [at EXCEPT ![q] = IF exchange THEN at[r] ELSE Nil, ![r] = at[q]]
          /\ owed' = [owed EXCEPT ![q] = IF exchange THEN Guards(q) ELSE {},
                                  ![r] = DueAt(p, r, owed[q])]
          /\ Takes(p, "RENAME", {q, r})
      BY <1>5, <2>2 DEF gs_path_rename
    <3>3. taken' = {}
      BY <3>1, <3>2, TakesNone
    <3>4. cfg.ready => DueAt(p, r, owed[q]) \subseteq Guards(r)
      BY <1>2, <3>1, <3>2 DEF DueAt, GoodEntries
    <3>5. GoodEntries(at', owed')
      <4>1. \A s \in Path : s \notin {q, r} => at'[s] = at[s] /\ owed'[s] = owed[s]
        BY <3>2 DEF TypeOK
      <4>2. at'[r] = at[q] /\ owed'[r] = DueAt(p, r, owed[q])
        BY <3>2 DEF TypeOK
      <4>3. /\ at'[q] = IF exchange THEN at[r] ELSE Nil
            /\ owed'[q] = IF exchange THEN Guards(q) ELSE {}
        BY <3>2 DEF TypeOK
      <4>4. \A s \in Path : at'[s] = Nil => owed'[s] = {}
        BY <1>2, <3>2, <4>1, <4>2, <4>3 DEF GoodEntries
      <4>5. cfg.ready => \A s \in Path : at'[s] # Nil => owed'[s] \subseteq Guards(s)
        BY <1>2, <3>4, <4>1, <4>2, <4>3 DEF GoodEntries
      <4>. QED  BY <4>4, <4>5 DEF GoodEntries
    <3>. QED  BY <1>1, <3>3, <3>5
  <2>. QED  BY <2>1, <2>2
<1>6. ASSUME NEW r \in Path, gs_path_link(p, q, r)
      PROVE  OwedInv'
  <2>1. CASE Denied(MoveBlocked(p, "LINK", q, r))
    BY <1>6, <1>13, <2>1 DEF gs_path_link
  <2>2. CASE ~Denied(MoveBlocked(p, "LINK", q, r))
    <3>1. Denied(Guarding(p)) => "LINK" \notin owed[q] /\ Guards(q) \subseteq Guards(r)
      BY <1>3, <2>2, NotOwed DEF Denied, MoveBlocked, MoveHit, Escape, Guards
    <3>2. /\ at[q] # Nil
          /\ at' = [at EXCEPT ![r] = at[q]] /\ owed' = [owed EXCEPT ![r] = DueAt(p, r, owed[q])]
          /\ Takes(p, "LINK", {q})
      BY <1>6, <2>2 DEF gs_path_link, Put
    <3>3. taken' = {}
      BY <3>1, <3>2, TakesNone
    <3>4. cfg.ready => DueAt(p, r, owed[q]) \subseteq Guards(r)
      BY <1>2, <3>1, <3>2 DEF DueAt, GoodEntries
    <3>5. GoodEntries(at', owed')
      BY <1>2, <3>2, <3>4 DEF GoodEntries, TypeOK
    <3>. QED  BY <1>1, <3>3, <3>5
  <2>. QED  BY <2>1, <2>2
<1>7. CASE gs_path_mknod(p, q)
  <2>1. PICK f \in File : TakesNothing \/ (Put(p, q, f, {}) /\ taken' = {})
    BY <1>7 DEF gs_path_mknod
  <2>2. CASE Put(p, q, f, {}) /\ taken' = {}
    <3>1. /\ at' = [at EXCEPT ![q] = f] /\ f # Nil /\ owed' = [owed EXCEPT ![q] = DueAt(p, q, {})]
      BY <2>2, ShieldAssumption DEF Put
    <3>2. DueAt(p, q, {}) \subseteq Guards(q)
      BY DEF DueAt
    <3>3. GoodEntries(at', owed')
      BY <1>2, <3>1, <3>2 DEF GoodEntries, TypeOK
    <3>. QED  BY <1>1, <2>2, <3>3
  <2>. QED  BY <1>13, <2>1, <2>2
<1>8. CASE gs_path_chmod(p, q)
  <2>1. Denied(Guarding(p)) /\ ~Denied(PathBlocked(p, "CHMOD", q)) => "CHMOD" \notin owed[q]
    BY <1>3, NotOwed DEF Denied, PathBlocked
  <2>2. taken' = {} /\ UNCHANGED fileVars
    <3>1. Takes(p, "CHMOD", IF Denied(PathBlocked(p, "CHMOD", q)) THEN {} ELSE {q})
      BY <1>8 DEF gs_path_chmod
    <3>2. taken' = {}
      BY <2>1, <3>1, TakesNone
    <3>. QED  BY <1>8, <3>2 DEF gs_path_chmod
  <2>. QED  BY <1>12, <2>2
<1>9. ASSUME NEW op, gs_path_dir(p, op, q)
      PROVE  OwedInv'
  BY <1>9, <1>13 DEF gs_path_dir
<1>14. ASSUME UNCHANGED fileVars, NEW op \in {"TRUNCATE", "OPEN_WRITE"}, NEW passed,
              Takes(p, op, IF passed THEN {q} ELSE {}),
              Denied(Guarding(p)) /\ passed /\ bpf_d_path(q)
                => ~path_is_protected(protected_paths, q, op)
       PROVE  OwedInv'
  <2>1. CASE taken' = {}
    BY <1>12, <1>14, <2>1
  <2>2. CASE taken' # {}
    <3>1. taken' = {<<op, q>>} /\ Denied(Guarding(p)) /\ passed /\ op \in owed[q]
      BY <1>14, <2>2 DEF Takes
    <3>2. Hit(protected_paths, op, Seen[q])
      BY <1>3, <3>1, NotOwed
    <3>3. ~(bpf_d_path(q) /\ Seen[q] = q)
      BY <1>14, <3>1, <3>2 DEF Hit
    <3>4. OwedIsKept'
      BY <3>1, <3>3 DEF OwedIsKept
    <3>. QED  BY <1>0, <1>2, <1>14, <3>4 DEF GoodEntries, OwedInv, GuardTravels, fileVars
  <2>. QED  BY <2>1, <2>2
<1>10. CASE gs_path_truncate(p, q)
  <2>1. Takes(p, "TRUNCATE", IF ~Denied(TruncateBlocked(p, q)) THEN {q} ELSE {}) /\ UNCHANGED fileVars
    BY <1>10 DEF gs_path_truncate
  <2>2. Denied(Guarding(p)) /\ ~Denied(TruncateBlocked(p, q)) /\ bpf_d_path(q)
          => ~path_is_protected(protected_paths, q, "TRUNCATE")
    BY DEF Denied, TruncateBlocked
  <2>. QED  BY <1>14, <2>1, <2>2
<1>11. ASSUME NEW writing \in BOOLEAN, gs_file_open(p, q, writing)
       PROVE  OwedInv'
  <2>. DEFINE reports == Cardinality(Found(p, q, writing))
              passed == ~Denied(reports > 0) /\ writing
  <2>1. /\ reports \in Nat
        /\ reports = 0 => ~(writing /\ WriteOpen(p, q))
    BY FoundCount
  <2>2. UNCHANGED fileVars /\ Takes(p, "OPEN_WRITE", IF passed THEN {q} ELSE {})
    BY <1>11 DEF gs_file_open, Found
  <2>. HIDE DEF reports
  <2>3. Denied(Guarding(p)) /\ passed /\ bpf_d_path(q)
          => ~path_is_protected(protected_paths, q, "OPEN_WRITE")
    <3>1. SUFFICES ASSUME Denied(Guarding(p)), passed, bpf_d_path(q)
                   PROVE  ~path_is_protected(protected_paths, q, "OPEN_WRITE")
      OBVIOUS
    <3>2. ~WriteOpen(p, q)
      BY <2>1, <3>1 DEF Denied
    <3>. QED  BY <3>1, <3>2 DEF WriteOpen, Denied
  <2>. HIDE DEF passed
  <2>. QED  BY <1>14, <2>2, <2>3
<1>. QED  BY <1>4, <1>5, <1>6, <1>7, <1>8, <1>9, <1>10, <1>11 DEF PathCall

LEMMA LoaderOwes ==
  ASSUME TypeOK, PolicyInv, OwedInv, Loader
  PROVE  OwedInv'
<1>. USE DEF Quiet, Guards
<1>1. CASE setReady
  BY <1>1 DEF setReady, OwedInv, GuardTravels, OwedIsKept
<1>2. CASE handleViolation
  BY <1>2 DEF handleViolation, loaderVars, fileVars, OwedInv, GuardTravels, OwedIsKept
<1>3. ASSUME NEW P \in DOMAIN Rules, LoadRule(P)
      PROVE  OwedInv'
  BY <1>3 DEF LoadRule, fileVars, OwedInv, GuardTravels, OwedIsKept, PolicyInv, Programs, Hooks
<1>4. ASSUME NEW g \in Programs, Attach(g)
      PROVE  OwedInv'
  BY <1>4 DEF Attach, fileVars, OwedInv, GuardTravels, OwedIsKept
<1>5. CASE AttachFails
  BY <1>5 DEF AttachFails, fileVars, OwedInv, GuardTravels, OwedIsKept, PolicyInv
<1>. QED  BY <1>1, <1>2, <1>3, <1>4, <1>5 DEF Loader

LEMMA NextOwes ==
  ASSUME TypeOK, PolicyInv, OwedInv, [Next]_vars
  PROVE  OwedInv'
<1>1. ASSUME UNCHANGED <<cfg, protected_paths, fileVars>>, taken' = {}
      PROVE  OwedInv'
  BY <1>1 DEF fileVars, OwedInv, GuardTravels, OwedIsKept, Guards
<1>2. CASE UNCHANGED vars
  BY <1>2 DEF vars, loaderVars, fileVars, OwedInv, GuardTravels, OwedIsKept, Guards
<1>3. ASSUME NEW p \in Pid, Process(p)
      PROVE  OwedInv'
  BY <1>1, <1>3, ProcessFrame DEF Quiet, loaderVars
<1>4. ASSUME NEW p \in Pid, Call(p)
      PROVE  OwedInv'
  BY <1>1, <1>4, OtherCallFrame, CallOwes DEF Call, loaderVars
<1>. QED  BY <1>2, <1>3, <1>4, LoaderOwes DEF Next

LEMMA OwedAlways == Spec => [](TypeOK /\ PolicyInv /\ OwedInv)
<1>1. Init => TypeOK /\ PolicyInv /\ OwedInv
  <2>1. Init => OwedInv
    BY DEF Init, OwedInv, GuardTravels, OwedIsKept
  <2>. QED  BY <2>1, InitType
<1>2. (TypeOK /\ PolicyInv /\ OwedInv) /\ [Next]_vars => (TypeOK /\ PolicyInv /\ OwedInv)'
  BY NextType, NextOwes
<1>. QED  BY <1>1, <1>2, PTL DEF Spec

\* Renames and links by guarded processes never lower the guard of an entry below what
\* the hooks guarded where it was last put freely (the other side of an exchange, which
\* the rename hook does not compare, counts as put freely).
THEOREM GuardsTravel == Spec => []GuardTravels
<1>1. OwedInv => GuardTravels
  BY DEF OwedInv
<1>. QED  BY <1>1, OwedAlways, PTL

\* No sequence of calls lets a guarded process do what the place a file came from
\* guards against, except to truncate or to open a file where bpf_d_path fails or the
\* walk sees another path.
THEOREM NothingOwedIsTaken == Spec => []OwedIsKept
<1>1. OwedInv => OwedIsKept
  BY DEF OwedInv
<1>. QED  BY <1>1, OwedAlways, PTL

-----------------------------------------------------------------------------
(* What a lookup means. *)

\* A stored prefix that covers a path matches its bytes.
LEMMA CoversMatches ==
  ASSUME NEW q \in Path, NEW P \in Seq(Name) \ {<<>>}, Covers(P, q)
  PROVE  BytesMatch(P, q)
<1>1. Len(P) \in Nat \ {0}
  OBVIOUS
<1>2. q \in Seq(Name) /\ Len(q) \in Nat
  BY PolicyAssumption
<1>. QED  BY <1>1, <1>2 DEF Covers, BytesMatch, Leaf

\* Prefixes of one path that have the same length are the same.
LEMMA SameLength ==
  ASSUME NEW q, NEW P \in Seq(Name), NEW Q \in Seq(Name),
         Covers(P, q), Covers(Q, q), Len(P) = Len(Q)
  PROVE  P = Q
BY DEF Covers

\* A longest match that ends at a component is the nearest directory with a rule.
LEMMA LongestIsNearest ==
  ASSUME NEW stored \in SUBSET DOMAIN Rules, NEW q \in Path, Within(stored, q)
  PROVE  /\ LongestMatch(stored, q) \in stored
         /\ Covers(LongestMatch(stored, q), q)
         /\ LongestMatch(stored, q) = Nearest(stored, q)
<1>. DEFINE L == LongestMatch(stored, q)
<1>1. Matches(stored, q) # {} /\ Covers(L, q)
  BY DEF Within
<1>2. L \in Matches(stored, q) /\ \A Q \in Matches(stored, q) : L = Q \/ LongerMatch(L, Q)
  BY <1>1, LongestExists DEF Sights
<1>3. stored \subseteq Seq(Name) \ {<<>>}
  BY ShieldAssumption
<1>4. L \in stored
  BY <1>2 DEF Matches
<1>. HIDE DEF L
<1>5. ASSUME NEW Q \in stored, Covers(Q, q) PROVE Len(Q) <= Len(L)
  <2>1. Q \in Matches(stored, q)
    BY <1>3, <1>5, CoversMatches DEF Matches
  <2>2. L = Q \/ Len(L) > Len(Q) \/ Len(L) = Len(Q)
    BY <1>2, <2>1 DEF LongerMatch
  <2>3. L \in Seq(Name) /\ Q \in Seq(Name)
    BY <1>3, <1>4
  <2>4. Len(L) \in Nat /\ Len(Q) \in Nat
    BY <2>3
  <2>. QED  BY <2>2, <2>4
<1>. DEFINE N == Nearest(stored, q)
<1>6. N \in stored /\ Covers(N, q) /\ \A Q \in stored : Covers(Q, q) => Len(Q) <= Len(N)
  BY <1>1, <1>4, <1>5 DEF Nearest
<1>. HIDE DEF N
<1>7. N \in Seq(Name) /\ L \in Seq(Name)
  BY <1>3, <1>4, <1>6
<1>8. Len(N) = Len(L)
  <2>1. Len(N) <= Len(L) /\ Len(L) <= Len(N)
    BY <1>1, <1>4, <1>5, <1>6
  <2>2. Len(N) \in Nat /\ Len(L) \in Nat
    BY <1>7
  <2>. QED  BY <2>1, <2>2
<1>9. N = L
  BY <1>1, <1>6, <1>7, <1>8, SameLength
<1>. QED  BY <1>1, <1>4, <1>9 DEF L, N

LEMMA LookupMeansRules ==
  ASSUME NEW rules, DOMAIN rules \in SUBSET DOMAIN Rules, NEW q \in Path, NEW op
  PROVE  /\ path_is_protected(rules, q, op) => op \in Meaning(rules, q)
         /\ EndsAtComponents(DOMAIN rules, q) =>
              (path_is_protected(rules, q, op) <=> op \in Meaning(rules, q))
<1>. DEFINE stored == DOMAIN rules
<1>1. ASSUME Within(stored, q)
      PROVE  path_is_protected(rules, q, op) <=> op \in Meaning(rules, q)
  <2>1. /\ LongestMatch(stored, q) = Nearest(stored, q)
        /\ \E P \in stored : Covers(P, q)
    BY <1>1, LongestIsNearest
  <2>. QED  BY <1>1, <2>1 DEF path_is_protected, Meaning
<1>2. ASSUME ~Within(stored, q), EndsAtComponents(stored, q)
      PROVE  op \notin Meaning(rules, q)
  <2>1. Matches(stored, q) = {}
    <3>1. SUFFICES ASSUME Matches(stored, q) # {} PROVE FALSE
      OBVIOUS
    <3>2. LongestMatch(stored, q) \in Matches(stored, q)
      BY <3>1, LongestExists DEF Sights
    <3>. QED  BY <1>2, <3>1, <3>2 DEF Within, EndsAtComponents
  <2>2. \A P \in stored : ~Covers(P, q)
    BY <2>1, ShieldAssumption, CoversMatches DEF Matches
  <2>. QED  BY <2>2 DEF Meaning
<1>. QED  BY <1>1, <1>2 DEF path_is_protected

LEMMA FreedMeansFree ==
  ASSUME NEW q \in Path, EndsAtComponents(DOMAIN FreeScopes, q),
         Cardinality(Matches(DOMAIN FreeScopes, q)) <= 1
  PROVE  Freed(q) <=> MeansFree(q)
<1>. DEFINE M == Matches(DOMAIN FreeScopes, q)
            covering == {P \in DOMAIN FreeScopes : Covers(P, q)}
<1>1. M = covering
  <2>1. \A P \in DOMAIN FreeScopes : Covers(P, q) => BytesMatch(P, q)
    BY PolicyAssumption, CoversMatches
  <2>. QED  BY <2>1 DEF Matches, EndsAtComponents
<1>2. M = {} \/ \E P : M = {P}
  <2>1. IsFiniteSet(M)
    BY PolicyAssumption, FS_Subset DEF Matches
  <2>. HIDE DEF M
  <2>2. Cardinality(M) \in Nat /\ Cardinality(M) <= 1
    BY <2>1, FS_CardinalityType DEF M
  <2>3. Cardinality(M) = 0 => M = {}
    BY <2>1, FS_EmptySet
  <2>4. Cardinality(M) = 1 => \E P : M = {P}
    BY <2>1, FS_Singleton
  <2>. QED  BY <2>2, <2>3, <2>4
<1>3. free_scope_bits(q) = {GlobalScope} \union {FreeScopes[P] : P \in covering}
  <2>1. CASE M = {}
    BY <1>1, <2>1 DEF free_scope_bits
  <2>2. ASSUME NEW P, M = {P}
        PROVE  free_scope_bits(q) = {GlobalScope} \union {FreeScopes[Q] : Q \in covering}
    <3>1. LongestMatch(DOMAIN FreeScopes, q) = P
      BY <2>2 DEF LongestMatch
    <3>. QED  BY <1>1, <2>2, <3>1 DEF free_scope_bits
  <2>. QED  BY <1>2, <2>1, <2>2
<1>4. Freed(q) <=> \E i \in 1..Len(q) : /\ q[i] \in DOMAIN FreeNames
                                        /\ \E s \in FreeNames[q[i]] : s \in free_scope_bits(q)
  BY DEF Freed, free_mask
<1>. QED  BY <1>3, <1>4 DEF MeansFree

\* While rules are loaded, whatever they are: a lookup never guards a sibling whose
\* name merely begins like a protected one, and where no rule ends inside a
\* component of the path, and scopes are not nested, it says what the rules mean
\* (path_is_protected, free_scope_bits).
THEOREM LookupIsComponentwise == Spec => []MatchIsComponentwise
<1>1. TypeOK => MatchIsComponentwise
  <2>. SUFFICES ASSUME TypeOK, NEW q \in Path
       PROVE  /\ \A op \in Op : path_is_protected(protected_paths, q, op)
                                  => op \in Meaning(protected_paths, q)
              /\ EndsAtComponents(DOMAIN protected_paths, q) =>
                   \A op \in Op : path_is_protected(protected_paths, q, op)
                                    <=> op \in Meaning(protected_paths, q)
              /\ (/\ EndsAtComponents(DOMAIN FreeScopes, q)
                  /\ Cardinality(Matches(DOMAIN FreeScopes, q)) <= 1)
                    => (Freed(q) <=> MeansFree(q))
    BY DEF MatchIsComponentwise
  <2>1. DOMAIN protected_paths \in SUBSET DOMAIN Rules
    BY DEF TypeOK
  <2>. QED  BY <2>1, LookupMeansRules, FreedMeansFree
<1>. QED  BY <1>1, TypeCorrect, PTL

-----------------------------------------------------------------------------
(* Paths.  A place is a dentry seen through a mount. *)

\* Induction, for a set: the library's theorem takes an operator.
LEMMA Induction ==
  ASSUME NEW S, 0 \in S, \A n \in Nat : n \in S => n + 1 \in S
  PROVE  Nat \subseteq S
<1> SUFFICES ASSUME NEW k \in Nat, k \notin S PROVE FALSE
  OBVIOUS
<1> DEFINE T == {n \in 0..k : n \notin S}
           f == [n \in T |-> n - 1]
<1>1. IsFiniteSet(T)
  <2>1. IsFiniteSet(0..k)
    BY FS_Interval
  <2> QED BY <2>1, FS_Subset
<1>2. \A n \in T : n - 1 \in T /\ n \in 0..k
  <2> SUFFICES ASSUME NEW n \in T PROVE n - 1 \in T
    OBVIOUS
  <2>1. n \in 0..k /\ n \notin S /\ n # 0
    OBVIOUS
  <2>2. n - 1 \in Nat /\ (n - 1) + 1 = n /\ n - 1 \in 0..k
    BY <2>1
  <2>3. n - 1 \notin S
    BY <2>1, <2>2
  <2> QED BY <2>2, <2>3
<1>3. f \in Injection(T, T)
  <2>1. f \in [T -> T]
    BY <1>2
  <2>2. \A a, b \in T : f[a] = f[b] => a = b
    BY <1>2
  <2> HIDE DEF f, T
  <2> QED BY <2>1, <2>2 DEF Injection, IsInjective
<1>4. f \in Surjection(T, T)
  <2> HIDE DEF f, T
  <2> QED BY <1>1, <1>3, FS_Injection
<1>5. k \in T
  OBVIOUS
<1>6. PICK n \in T : f[n] = k
  <2> HIDE DEF f, T
  <2> QED BY <1>4, <1>5 DEF Surjection
<1> QED BY <1>2, <1>6

Place == Dentry \X Mount
Stops(pl) == IF pl[1] = mnt_root[pl[2]] THEN mnt_parent[pl[2]] = pl[2] ELSE d_parent[pl[1]] = pl[1]
Above(pl) == IF pl[1] = mnt_root[pl[2]] THEN <<mnt_mountpoint[pl[2]], mnt_parent[pl[2]]>>
                                        ELSE <<d_parent[pl[1]], pl[2]>>
PathOf(g, pl) == IF Stops(pl) THEN <<>>
                 ELSE IF pl[1] = mnt_root[pl[2]] THEN g[Above(pl)]
                 ELSE Append(g[Above(pl)], d_name[pl[1]])

LEMMA AboveType == \A pl \in Place : Above(pl) \in Place
BY DentryAssumption DEF Above, Place

\* Whatever holds of a place if it holds of the one above it holds of all.
LEMMA FromAbove ==
  ASSUME NEW S \in SUBSET Place, \A pl \in Place : (Stops(pl) \/ Above(pl) \in S) => pl \in S
  PROVE  S = Place
<1> DEFINE Bad == Place \ S
           M == {m \in Mount : \E d \in Dentry : <<d, m>> \in Bad}
<1> SUFFICES ASSUME M # {} PROVE FALSE
  BY DEF Place
<1>1. PICK m \in M : mnt_parent[m] = m \/ mnt_parent[m] \notin M
  <2>1. M \in (SUBSET Mount) \ {{}}
    OBVIOUS
  <2> QED BY <2>1, DentryAssumption
<1> DEFINE D == {d \in Dentry : <<d, m>> \in Bad}
<1>2. PICK d \in D : d_parent[d] = d \/ d_parent[d] \notin D
  <2>1. D \in (SUBSET Dentry) \ {{}}
    BY <1>1
  <2> QED BY <2>1, DentryAssumption
<1>3. PICK pl \in Place : pl = <<d, m>> /\ pl \notin S /\ pl[1] = d /\ pl[2] = m
  <2>1. <<d, m>> \in Place /\ <<d, m>> \notin S
    BY <1>2
  <2> QED BY <2>1
<1>4. ~Stops(pl) /\ Above(pl) \in Bad
  BY <1>3, AboveType
<1>5. CASE d = mnt_root[m]
  <2>1. mnt_parent[m] # m /\ <<mnt_mountpoint[m], mnt_parent[m]>> \in Bad
    <3> HIDE DEF Bad
    <3> QED BY <1>3, <1>4, <1>5 DEF Stops, Above
  <2>2. mnt_parent[m] \in Mount /\ mnt_mountpoint[m] \in Dentry
    BY <1>1, DentryAssumption
  <2> QED BY <1>1, <2>1, <2>2
<1>6. CASE d # mnt_root[m]
  <2>1. d_parent[d] # d /\ <<d_parent[d], m>> \in Bad
    <3> HIDE DEF Bad
    <3> QED BY <1>3, <1>4, <1>6 DEF Stops, Above
  <2>2. d_parent[d] \in Dentry
    BY <1>2, DentryAssumption
  <2> QED BY <1>2, <2>1, <2>2
<1> QED BY <1>5, <1>6

\* g gives the paths of the places in A, with each the one above it.
Paths(g, A) ==
  /\ A \in SUBSET Place
  /\ \A pl \in A : Stops(pl) \/ Above(pl) \in A
  /\ \A pl \in A : g[pl] = PathOf(g, pl)

LEMMA PathsAgree ==
  ASSUME NEW g, NEW A, Paths(g, A), NEW h, NEW B, Paths(h, B)
  PROVE  \A pl \in A \cap B : g[pl] = h[pl]
<1> DEFINE S == {pl \in Place : pl \in A \cap B => g[pl] = h[pl]}
<1>1. ASSUME NEW pl \in Place, Stops(pl) \/ Above(pl) \in S PROVE pl \in S
  <2> SUFFICES ASSUME pl \in A, pl \in B PROVE g[pl] = h[pl]
    OBVIOUS
  <2>1. CASE Stops(pl)
    BY <2>1 DEF Paths, PathOf
  <2>2. CASE ~Stops(pl)
    <3>1. Above(pl) \in A /\ Above(pl) \in B /\ Above(pl) \in S
      BY <1>1, <2>2 DEF Paths
    <3>2. g[Above(pl)] = h[Above(pl)]
      BY <3>1
    <3> QED BY <3>2 DEF Paths, PathOf
  <2> QED BY <2>1, <2>2
<1>2. S = Place
  <2>1. S \in SUBSET Place
    OBVIOUS
  <2> HIDE DEF S
  <2> QED BY <1>1, <2>1, FromAbove
<1> QED BY <1>2 DEF Paths

LEMMA PathsExist == \A pl \in Place : \E A : \E g : Paths(g, A) /\ pl \in A
<1> DEFINE S == {pl \in Place : \E A : \E g : Paths(g, A) /\ pl \in A}
<1>1. ASSUME NEW pl \in Place, Stops(pl) \/ Above(pl) \in S PROVE pl \in S
  <2>1. CASE Stops(pl)
    <3> DEFINE g == [x \in {pl} |-> <<>>]
    <3>1. g[pl] = PathOf(g, pl)
      BY <2>1 DEF PathOf
    <3>2. Paths(g, {pl})
      BY <2>1, <3>1 DEF Paths
    <3> QED BY <3>2
  <2>2. CASE ~Stops(pl)
    <3>1. PICK A, g : Paths(g, A) /\ Above(pl) \in A
      BY <1>1, <2>2
    <3>2. CASE pl \in A
      BY <3>1, <3>2
    <3>3. CASE pl \notin A
      <4> DEFINE h == [x \in A \union {pl} |-> IF x = pl THEN PathOf(g, pl) ELSE g[x]]
      <4>1. \A x \in A : Stops(x) \/ Above(x) \in A
        BY <3>1 DEF Paths
      <4>2. \A x \in A : h[x] = g[x]
        BY <3>3
      <4>3. \A x \in A : PathOf(h, x) = PathOf(g, x)
        <5> SUFFICES ASSUME NEW x \in A PROVE PathOf(h, x) = PathOf(g, x)
          OBVIOUS
        <5>1. CASE Stops(x)
          BY <5>1 DEF PathOf
        <5>2. CASE ~Stops(x)
          <6>1. h[Above(x)] = g[Above(x)]
            BY <4>1, <4>2, <5>2
          <6> HIDE DEF h
          <6> QED BY <6>1 DEF PathOf
        <5> QED BY <5>1, <5>2
      <4>4. PathOf(h, pl) = PathOf(g, pl) /\ h[pl] = PathOf(g, pl)
        <5>1. h[Above(pl)] = g[Above(pl)]
          BY <3>1, <4>2
        <5>2. h[pl] = PathOf(g, pl)
          OBVIOUS
        <5> HIDE DEF h
        <5> QED BY <5>1, <5>2 DEF PathOf
      <4>5. Paths(h, A \union {pl})
        <5> HIDE DEF h
        <5> QED BY <3>1, <4>1, <4>2, <4>3, <4>4 DEF Paths
      <4> QED BY <4>5
    <3> QED BY <3>2, <3>3
  <2> QED BY <2>1, <2>2
<1>2. S = Place
  <2>1. S \in SUBSET Place
    OBVIOUS
  <2> HIDE DEF S
  <2> QED BY <1>1, <2>1, FromAbove
<1> QED BY <1>2

\* Hence AbsolutePath is defined for every place.
LEMMA AbsolutePathOf == \A pl \in Place : AbsolutePath[pl] = PathOf(AbsolutePath, pl)
<1> DEFINE Solves(g, pl) == \E A : Paths(g, A) /\ pl \in A
           f == [pl \in Place |-> (CHOOSE g : Solves(g, pl))[pl]]
<1>1. ASSUME NEW pl \in Place, NEW g, NEW A, Paths(g, A), pl \in A PROVE f[pl] = g[pl]
  <2>1. Solves(g, pl)
    BY <1>1
  <2>2. PICK h : h = CHOOSE k : Solves(k, pl)
    OBVIOUS
  <2>3. Solves(h, pl)
    <3> HIDE DEF Solves
    <3> QED BY <2>1, <2>2
  <2>4. PICK B : Paths(h, B) /\ pl \in B
    BY <2>3
  <2>5. h[pl] = g[pl]
    BY <1>1, <2>4, PathsAgree
  <2> QED BY <2>2, <2>5
<1>2. ASSUME NEW pl \in Place PROVE f[pl] = PathOf(f, pl)
  <2>1. PICK A, g : Paths(g, A) /\ pl \in A
    BY PathsExist
  <2>2. f[pl] = g[pl] /\ g[pl] = PathOf(g, pl)
    <3> HIDE DEF f
    <3> QED BY <1>1, <2>1 DEF Paths
  <2>3. ~Stops(pl) => f[Above(pl)] = g[Above(pl)]
    <3> HIDE DEF f
    <3> QED BY <1>1, <2>1, AboveType DEF Paths
  <2> HIDE DEF f
  <2> QED BY <2>2, <2>3 DEF PathOf
<1> DEFINE Body(g) == [pl \in Dentry \X Mount |->
      LET d == pl[1]  m == pl[2] IN
      IF d = mnt_root[m]
      THEN IF mnt_parent[m] = m THEN <<>> ELSE g[<<mnt_mountpoint[m], mnt_parent[m]>>]
      ELSE IF d_parent[d] = d THEN <<>> ELSE Append(g[<<d_parent[d], m>>], d_name[d])]
<1>3. \A g : Body(g) = [pl \in Place |-> PathOf(g, pl)]
  BY Zenon DEF PathOf, Stops, Above, Place
<1>4. f = Body(f)
  <2>1. f = [pl \in Place |-> PathOf(f, pl)]
    <3>1. f = [pl \in Place |-> f[pl]]
      OBVIOUS
    <3> HIDE DEF f
    <3> QED BY <1>2, <3>1
  <2> HIDE DEF f, Body
  <2> QED BY <1>3, <2>1
<1>5. AbsolutePath = CHOOSE g : g = Body(g)
  BY DEF AbsolutePath
<1>6. AbsolutePath = Body(AbsolutePath)
  <2> HIDE DEF f, Body
  <2> QED BY <1>4, <1>5
<1>7. AbsolutePath = [pl \in Place |-> PathOf(AbsolutePath, pl)]
  <2> HIDE DEF Body
  <2> QED BY <1>3, <1>6
<1> QED BY <1>7

-----------------------------------------------------------------------------
(* The walk. *)

\* w is the walk from d in m, step by step.
Steps(w, d, m) ==
  /\ w[0] = [d |-> d, mnt |-> m, dstack |-> <<>>, done |-> FALSE]
  /\ \A i \in 1..MAX_DENTRY_DEPTH : w[i] = collect_cb(w[i - 1])

LEMMA WalkSteps ==
  ASSUME NEW d, NEW m
  PROVE  \E w : Steps(w, d, m) /\ Walk(d, m) = w[MAX_DENTRY_DEPTH]
<1> DEFINE start == [d |-> d, mnt |-> m, dstack |-> <<>>, done |-> FALSE]
           Body(g) == [i \in 0..MAX_DENTRY_DEPTH |-> IF i = 0 THEN start ELSE collect_cb(g[i - 1])]
           Good == {n \in Nat : \E g : /\ g[0] = start
                                       /\ \A i \in 1..n : g[i] = collect_cb(g[i - 1])}
<1>1. 0 \in Good
  <2> DEFINE g == [i \in {0} |-> start]
  <2>1. g[0] = start
    OBVIOUS
  <2> HIDE DEF g, start
  <2> QED BY <2>1
<1>2. ASSUME NEW n \in Nat, n \in Good PROVE n + 1 \in Good
  <2> HIDE DEF start
  <2>1. PICK g : g[0] = start /\ \A i \in 1..n : g[i] = collect_cb(g[i - 1])
    BY <1>2
  <2> DEFINE h == [i \in 0..(n + 1) |-> IF i = n + 1 THEN collect_cb(g[n]) ELSE g[i]]
  <2>2. /\ \A i \in 0..n : h[i] = g[i]
        /\ h[n + 1] = collect_cb(g[n]) /\ 0 \in 0..n /\ n \in 0..n /\ (n + 1) - 1 = n
    OBVIOUS
  <2> HIDE DEF h
  <2>3. \A i \in 1..(n + 1) : h[i] = collect_cb(h[i - 1])
    <3> SUFFICES ASSUME NEW i \in 1..(n + 1) PROVE h[i] = collect_cb(h[i - 1])
      OBVIOUS
    <3>1. CASE i = n + 1
      BY <2>2, <3>1
    <3>2. CASE i # n + 1
      <4>1. i \in 1..n /\ i \in 0..n /\ i - 1 \in 0..n
        BY <3>2
      <4> QED BY <2>1, <2>2, <4>1
    <3> QED BY <3>1, <3>2
  <2> QED BY <2>1, <2>2, <2>3
<1>3. MAX_DENTRY_DEPTH \in Good
  <2> HIDE DEF Good
  <2> QED BY <1>1, <1>2, Induction, DentryAssumption
<1>4. PICK g : g[0] = start /\ \A i \in 1..MAX_DENTRY_DEPTH : g[i] = collect_cb(g[i - 1])
  <2> HIDE DEF start
  <2> QED BY <1>3
<1> DEFINE f == [i \in 0..MAX_DENTRY_DEPTH |-> g[i]]
<1>5. f = Body(f)
  <2> HIDE DEF start
  <2>1. \A i \in 0..MAX_DENTRY_DEPTH :
          f[i] = IF i = 0 THEN start ELSE collect_cb(f[i - 1])
    <3> SUFFICES ASSUME NEW i \in 0..MAX_DENTRY_DEPTH
                 PROVE  f[i] = IF i = 0 THEN start ELSE collect_cb(f[i - 1])
      OBVIOUS
    <3>1. CASE i = 0
      BY <1>4, <3>1
    <3>2. CASE i # 0
      <4>1. i \in 1..MAX_DENTRY_DEPTH /\ i - 1 \in 0..MAX_DENTRY_DEPTH
        BY <3>2, DentryAssumption
      <4>2. f[i] = g[i] /\ f[i - 1] = g[i - 1]
        BY <4>1
      <4> HIDE DEF f
      <4> QED BY <1>4, <3>2, <4>1, <4>2
    <3> QED BY <3>1, <3>2
  <2>2. f = [i \in 0..MAX_DENTRY_DEPTH |-> f[i]]
    OBVIOUS
  <2> HIDE DEF f
  <2> QED BY <2>1, <2>2
<1>6. PICK w : w = CHOOSE k : k = Body(k)
  OBVIOUS
<1>7. w = Body(w)
  <2> HIDE DEF Body, f
  <2> QED BY <1>5, <1>6
<1>8. Walk(d, m) = w[MAX_DENTRY_DEPTH]
  BY <1>6 DEF Walk
<1>9. Steps(w, d, m)
  <2>1. 0 \in 0..MAX_DENTRY_DEPTH /\ \A i \in 1..MAX_DENTRY_DEPTH : i \in 0..MAX_DENTRY_DEPTH /\ i # 0
    BY DentryAssumption
  <2> HIDE DEF start
  <2>2. w[0] = start
    BY <1>7, <2>1
  <2>3. \A i \in 1..MAX_DENTRY_DEPTH : w[i] = collect_cb(w[i - 1])
    BY <1>7, <2>1
  <2> QED BY <2>2, <2>3 DEF Steps, start
<1> QED BY <1>8, <1>9

NameSet == {d_name[d] : d \in Dentry}

LEMMA AbsolutePathType == \A pl \in Place : AbsolutePath[pl] \in Seq(NameSet)
<1> DEFINE S == {pl \in Place : AbsolutePath[pl] \in Seq(NameSet)}
<1>1. ASSUME NEW pl \in Place, Stops(pl) \/ Above(pl) \in S PROVE pl \in S
  <2>1. CASE Stops(pl)
    <3>1. AbsolutePath[pl] = <<>>
      BY <2>1, AbsolutePathOf DEF PathOf
    <3> QED BY <3>1, EmptySeq
  <2>2. CASE ~Stops(pl)
    <3>1. PICK r \in Seq(NameSet) : r = AbsolutePath[Above(pl)]
      BY <1>1, <2>2
    <3>2. d_name[pl[1]] \in NameSet
      BY DEF NameSet, Place
    <3>3. AbsolutePath[pl] = r \/ AbsolutePath[pl] = Append(r, d_name[pl[1]])
      BY <2>2, <3>1, AbsolutePathOf DEF PathOf
    <3> QED BY <3>1, <3>2, <3>3, AppendProperties
  <2> QED BY <2>1, <2>2
<1>2. S = Place
  <2>1. S \in SUBSET Place
    OBVIOUS
  <2> HIDE DEF S
  <2> QED BY <1>1, <2>1, FromAbove
<1> QED BY <1>2

\* The path is what is still above, then what is on the stack, last pushed first.
Splits(path, rest, stack) ==
  /\ Len(path) = Len(rest) + Len(stack)
  /\ \A i \in 1..Len(rest) : path[i] = rest[i]
  /\ \A i \in 1..Len(stack) : path[Len(path) + 1 - i] = d_name[stack[i]]

LEMMA PushSplits ==
  ASSUME NEW path \in Seq(NameSet), NEW rest \in Seq(NameSet), NEW stack \in Seq(Dentry),
         NEW d \in Dentry, Splits(path, Append(rest, d_name[d]), stack)
  PROVE  Splits(path, rest, Append(stack, d))
<1>1. PICK more : more = Append(rest, d_name[d])
  OBVIOUS
<1>2. PICK higher : higher = Append(stack, d)
  OBVIOUS
<1>3. /\ Len(more) = Len(rest) + 1 /\ more[Len(rest) + 1] = d_name[d]
      /\ \A i \in 1..Len(rest) : more[i] = rest[i]
  <2>1. d_name[d] \in NameSet
    BY DEF NameSet
  <2> QED BY <1>1, <2>1, AppendProperties
<1>4. /\ Len(higher) = Len(stack) + 1 /\ higher[Len(stack) + 1] = d
      /\ \A i \in 1..Len(stack) : higher[i] = stack[i]
  BY <1>2, AppendProperties
<1>5. Len(path) \in Nat /\ Len(rest) \in Nat /\ Len(stack) \in Nat
  BY LenProperties
<1>6. /\ Len(path) = Len(more) + Len(stack)
      /\ \A i \in 1..Len(more) : path[i] = more[i]
      /\ \A i \in 1..Len(stack) : path[Len(path) + 1 - i] = d_name[stack[i]]
  BY <1>1 DEF Splits
<1>7. Len(path) = Len(rest) + Len(higher)
  BY <1>3, <1>4, <1>5, <1>6
<1>8. \A i \in 1..Len(rest) : path[i] = rest[i]
  BY <1>3, <1>5, <1>6
<1>9. \A i \in 1..Len(higher) : path[Len(path) + 1 - i] = d_name[higher[i]]
  <2> SUFFICES ASSUME NEW i \in 1..Len(higher) PROVE path[Len(path) + 1 - i] = d_name[higher[i]]
    OBVIOUS
  <2>1. CASE i = Len(stack) + 1
    <3>1. Len(path) + 1 - i = Len(rest) + 1 /\ Len(rest) + 1 \in 1..Len(more)
      BY <1>3, <1>5, <1>6, <2>1
    <3>2. path[Len(rest) + 1] = d_name[d]
      BY <1>3, <1>6, <3>1
    <3> QED BY <1>4, <2>1, <3>1, <3>2
  <2>2. CASE i # Len(stack) + 1
    <3>1. i \in 1..Len(stack)
      BY <1>4, <1>5, <2>2
    <3> QED BY <1>4, <1>6, <3>1
  <2> QED BY <2>1, <2>2
<1> QED BY <1>2, <1>7, <1>8, <1>9 DEF Splits

\* The mounts left behind, each for another of them or the present one.
Left(V, m) ==
  /\ V \in SUBSET Mount /\ m \notin V
  /\ \A v \in V : mnt_parent[v] # v /\ mnt_parent[v] \in V \union {m}

\* After i steps from pl.
OnTheWay(c, i, pl) ==
  /\ c \in [d : Dentry, mnt : Mount, dstack : Seq(Dentry), done : BOOLEAN]
  /\ Splits(AbsolutePath[pl], AbsolutePath[<<c.d, c.mnt>>], c.dstack)
  /\ c.done => AbsolutePath[<<c.d, c.mnt>>] = <<>>
  /\ c.done \/ \E V : Left(V, c.mnt) /\ Cardinality(V) + Len(c.dstack) = i

LEMMA LeavingMount ==
  ASSUME NEW V, NEW m \in Mount, Left(V, m), mnt_parent[m] # m
  PROVE  /\ Left(V \union {m}, mnt_parent[m])
         /\ Cardinality(V \union {m}) = Cardinality(V) + 1 /\ Cardinality(V) \in Nat
<1>1. mnt_parent[m] \notin V \union {m}
  <2> SUFFICES ASSUME mnt_parent[m] \in V \union {m} PROVE FALSE
    OBVIOUS
  <2>1. \A v \in V \union {m} : mnt_parent[v] # v /\ mnt_parent[v] \in V \union {m}
    BY DEF Left
  <2>2. V \union {m} \in (SUBSET Mount) \ {{}}
    BY DEF Left
  <2> QED BY <2>1, <2>2, DentryAssumption
<1>2. IsFiniteSet(V)
  BY DentryAssumption, FS_Subset DEF Left
<1>3. Cardinality(V \union {m}) = Cardinality(V) + 1 /\ Cardinality(V) \in Nat
  BY <1>2, FS_AddElement, FS_CardinalityType DEF Left
<1> QED BY <1>1, <1>3 DEF Left

LEMMA WalkStarts ==
  ASSUME NEW d \in Dentry, NEW m \in Mount, NEW c,
         c = [d |-> d, mnt |-> m, dstack |-> <<>>, done |-> FALSE]
  PROVE  OnTheWay(c, 0, <<d, m>>)
<1>1. <<>> \in Seq(Dentry) /\ Len(<<>>) = 0
  BY EmptySeq
<1>2. c \in [d : Dentry, mnt : Mount, dstack : Seq(Dentry), done : BOOLEAN]
  BY <1>1
<1>3. AbsolutePath[<<d, m>>] \in Seq(NameSet)
  BY AbsolutePathType DEF Place
<1>4. Splits(AbsolutePath[<<d, m>>], AbsolutePath[<<c.d, c.mnt>>], c.dstack)
  BY <1>1, <1>3, LenProperties DEF Splits
<1>5. Left({}, c.mnt) /\ Cardinality({}) + Len(c.dstack) = 0
  BY <1>1, FS_EmptySet DEF Left
<1> QED BY <1>2, <1>4, <1>5 DEF OnTheWay

LEMMA WalkGoesOn ==
  ASSUME NEW i \in Nat, NEW pl \in Place, NEW c, OnTheWay(c, i, pl)
  PROVE  OnTheWay(collect_cb(c), i + 1, pl)
<1>1. c \in [d : Dentry, mnt : Mount, dstack : Seq(Dentry), done : BOOLEAN]
  BY DEF OnTheWay
<1>2. PICK here \in Place : here = <<c.d, c.mnt>> /\ here[1] = c.d /\ here[2] = c.mnt
  <2>1. c.d \in Dentry /\ c.mnt \in Mount
    BY <1>1
  <2>2. <<c.d, c.mnt>> \in Place
    BY <2>1 DEF Place
  <2> QED BY <2>2
<1>3. AbsolutePath[here] = PathOf(AbsolutePath, here)
  BY AbsolutePathOf
<1>4. PICK path \in Seq(NameSet) : path = AbsolutePath[pl]
  BY AbsolutePathType
<1>5. Splits(path, AbsolutePath[here], c.dstack)
  BY <1>2, <1>4 DEF OnTheWay
<1>6. CASE c.done
  BY <1>6 DEF OnTheWay, collect_cb
<1>7. CASE ~c.done /\ Stops(here)
  <2>1. collect_cb(c) = [c EXCEPT !.done = TRUE]
    BY <1>2, <1>7 DEF collect_cb, Stops
  <2>2. AbsolutePath[here] = <<>>
    BY <1>3, <1>7 DEF PathOf
  <2>3. PICK e : e = [c EXCEPT !.done = TRUE]
    OBVIOUS
  <2>4. /\ e \in [d : Dentry, mnt : Mount, dstack : Seq(Dentry), done : BOOLEAN]
        /\ e.d = c.d /\ e.mnt = c.mnt /\ e.dstack = c.dstack /\ e.done
    BY <1>1, <2>3
  <2> QED BY <1>2, <1>4, <1>5, <2>1, <2>2, <2>3, <2>4 DEF OnTheWay
<1>8. CASE ~c.done /\ ~Stops(here)
  <2>1. PICK V : Left(V, c.mnt) /\ Cardinality(V) + Len(c.dstack) = i
    BY <1>8 DEF OnTheWay
  <2>2. PICK rest \in Seq(NameSet) : rest = AbsolutePath[Above(here)]
    BY AbsolutePathType, AboveType
  <2>3. Len(c.dstack) \in Nat
    BY <1>1, LenProperties
  <2>4. CASE c.d = mnt_root[c.mnt]
    <3>1. PICK e : e = [c EXCEPT !.d = mnt_mountpoint[c.mnt], !.mnt = mnt_parent[c.mnt]]
      OBVIOUS
    <3>2. collect_cb(c) = e /\ mnt_parent[c.mnt] # c.mnt
      BY <1>2, <1>8, <2>4, <3>1 DEF collect_cb, Stops
    <3>3. /\ e \in [d : Dentry, mnt : Mount, dstack : Seq(Dentry), done : BOOLEAN]
          /\ e.d = mnt_mountpoint[c.mnt] /\ e.mnt = mnt_parent[c.mnt]
          /\ e.dstack = c.dstack /\ ~e.done
      BY <1>1, <1>8, <3>1, DentryAssumption
    <3>4. Above(here) = <<e.d, e.mnt>> /\ AbsolutePath[here] = rest
      BY <1>2, <1>3, <1>8, <2>2, <2>4, <3>3 DEF Above, PathOf
    <3>5. /\ Left(V \union {c.mnt}, e.mnt)
          /\ Cardinality(V \union {c.mnt}) + Len(e.dstack) = i + 1
      <4>1. c.mnt \in Mount
        BY <1>1
      <4>2. /\ Left(V \union {c.mnt}, mnt_parent[c.mnt])
            /\ Cardinality(V \union {c.mnt}) = Cardinality(V) + 1 /\ Cardinality(V) \in Nat
        BY <2>1, <3>2, <4>1, LeavingMount
      <4>3. PICK k \in Nat : k = Cardinality(V)
        BY <4>2
      <4>4. Cardinality(V \union {c.mnt}) = k + 1 /\ k + Len(c.dstack) = i
        BY <2>1, <4>2, <4>3
      <4>5. Cardinality(V \union {c.mnt}) + Len(c.dstack) = i + 1
        BY <2>3, <4>4
      <4>6. Left(V \union {c.mnt}, e.mnt)
        BY <3>3, <4>2
      <4>7. e.dstack = c.dstack
        BY <3>3
      <4> QED BY <4>5, <4>6, <4>7
    <3> QED BY <1>4, <1>5, <2>2, <3>2, <3>3, <3>4, <3>5 DEF OnTheWay
  <2>5. CASE c.d # mnt_root[c.mnt]
    <3>1. PICK e : e = [c EXCEPT !.dstack = Append(@, c.d), !.d = d_parent[c.d]]
      OBVIOUS
    <3>2. collect_cb(c) = e
      BY <1>2, <1>8, <2>5, <3>1 DEF collect_cb, Stops
    <3>3. /\ Append(c.dstack, c.d) \in Seq(Dentry)
          /\ Len(Append(c.dstack, c.d)) = Len(c.dstack) + 1
      BY <1>1, AppendProperties
    <3>4. /\ e \in [d : Dentry, mnt : Mount, dstack : Seq(Dentry), done : BOOLEAN]
          /\ e.d = d_parent[c.d] /\ e.mnt = c.mnt /\ e.dstack = Append(c.dstack, c.d) /\ ~e.done
      BY <1>1, <1>8, <3>1, <3>3, DentryAssumption
    <3>5. Above(here) = <<e.d, e.mnt>> /\ AbsolutePath[here] = Append(rest, d_name[c.d])
      BY <1>2, <1>3, <1>8, <2>2, <2>5, <3>4 DEF Above, PathOf
    <3>6. Splits(path, rest, e.dstack)
      BY <1>1, <1>5, <3>4, <3>5, PushSplits
    <3>7. Left(V, e.mnt) /\ Cardinality(V) + Len(e.dstack) = i + 1
      <4>1. Cardinality(V) \in Nat
        BY <2>1, DentryAssumption, FS_Subset, FS_CardinalityType DEF Left
      <4> QED BY <2>1, <2>3, <3>3, <3>4, <4>1
    <3> QED BY <1>4, <2>2, <3>2, <3>4, <3>5, <3>6, <3>7 DEF OnTheWay
  <2> QED BY <2>4, <2>5
<1> QED BY <1>1, <1>6, <1>7, <1>8

LEMMA WalkArrives ==
  ASSUME NEW d \in Dentry, NEW m \in Mount
  PROVE  OnTheWay(Walk(d, m), MAX_DENTRY_DEPTH, <<d, m>>)
<1>1. PICK w : Steps(w, d, m) /\ Walk(d, m) = w[MAX_DENTRY_DEPTH]
  BY WalkSteps
<1> DEFINE S == {i \in Nat : i <= MAX_DENTRY_DEPTH => OnTheWay(w[i], i, <<d, m>>)}
<1>2. 0 \in S
  BY <1>1, WalkStarts DEF Steps
<1>3. ASSUME NEW i \in Nat, i \in S PROVE i + 1 \in S
  <2> SUFFICES ASSUME i + 1 <= MAX_DENTRY_DEPTH PROVE OnTheWay(w[i + 1], i + 1, <<d, m>>)
    OBVIOUS
  <2>1. i + 1 \in 1..MAX_DENTRY_DEPTH /\ (i + 1) - 1 = i /\ i <= MAX_DENTRY_DEPTH
    BY DentryAssumption
  <2>2. w[i + 1] = collect_cb(w[i])
    BY <1>1, <2>1 DEF Steps
  <2>3. OnTheWay(w[i], i, <<d, m>>)
    BY <1>3, <2>1
  <2>4. <<d, m>> \in Place
    BY DEF Place
  <2> QED BY <2>2, <2>3, <2>4, WalkGoesOn
<1>4. MAX_DENTRY_DEPTH \in S
  <2> HIDE DEF S
  <2> QED BY <1>2, <1>3, Induction, DentryAssumption
<1> QED BY <1>1, <1>4, DentryAssumption

LEMMA WalkFindsPath == WalkIsPath
<1> SUFFICES ASSUME NEW d \in Dentry, NEW m \in Mount
             PROVE  /\ Len(AbsolutePath[<<d, m>>]) + Cardinality(Mount) <= MAX_DENTRY_DEPTH
                         => Walk(d, m).done
                    /\ \E k \in 0..Len(AbsolutePath[<<d, m>>]) :
                         reconstruct_path(d, m) = Cut(Below(AbsolutePath[<<d, m>>], k))
                    /\ Walk(d, m).done => reconstruct_path(d, m) = Cut(AbsolutePath[<<d, m>>])
  BY DEF WalkIsPath, WalkEndsAtRoot, WalkYieldsPath
<1>1. PICK c : c = Walk(d, m) /\ OnTheWay(c, MAX_DENTRY_DEPTH, <<d, m>>)
  BY WalkArrives
<1>2. PICK path \in Seq(NameSet) : path = AbsolutePath[<<d, m>>]
  BY AbsolutePathType DEF Place
<1>3. c \in [d : Dentry, mnt : Mount, dstack : Seq(Dentry), done : BOOLEAN]
  BY <1>1 DEF OnTheWay
<1>4. PICK rest \in Seq(NameSet) : rest = AbsolutePath[<<c.d, c.mnt>>]
  BY <1>3, AbsolutePathType DEF Place
<1>5. PICK stack \in Seq(Dentry) : stack = c.dstack
  BY <1>3
<1>6. Splits(path, rest, stack)
  BY <1>1, <1>2, <1>4, <1>5 DEF OnTheWay
<1>7. Len(path) \in Nat /\ Len(rest) \in Nat /\ Len(stack) \in Nat
  BY LenProperties
<1>8. PICK found : /\ found = [i \in 1..Len(stack) |-> d_name[stack[Len(stack) + 1 - i]]]
                   /\ reconstruct_path(d, m) = Cut(found)
  BY <1>1, <1>5 DEF reconstruct_path, emit
<1>9. /\ found \in Seq(NameSet) /\ Len(found) = Len(stack)
      /\ \A i \in 1..Len(stack) : found[i] = path[Len(rest) + i]
  <2>1. found = [i \in 1..Len(stack) |-> d_name[stack[Len(stack) + 1 - i]]]
    BY <1>8
  <2>2. \A i \in 1..Len(stack) :
          /\ Len(stack) + 1 - i \in 1..Len(stack)
          /\ stack[Len(stack) + 1 - i] \in Dentry
          /\ Len(path) + 1 - (Len(stack) + 1 - i) = Len(rest) + i
    <3> SUFFICES ASSUME NEW i \in 1..Len(stack)
                 PROVE  /\ Len(stack) + 1 - i \in 1..Len(stack)
                        /\ Len(path) + 1 - (Len(stack) + 1 - i) = Len(rest) + i
      BY ElementOfSeq
    <3>1. Len(path) = Len(rest) + Len(stack)
      BY <1>6 DEF Splits
    <3> QED BY <1>7, <3>1
  <2>3. \A i \in 1..Len(stack) : d_name[stack[Len(stack) + 1 - i]] \in NameSet
    BY <2>2 DEF NameSet
  <2>4. found \in [1..Len(stack) -> NameSet]
    BY <2>1, <2>3
  <2>5. found \in Seq(NameSet) /\ Len(found) = Len(stack)
    BY <1>7, <2>4
  <2>6. \A i \in 1..Len(stack) : found[i] = path[Len(rest) + i]
    <3> SUFFICES ASSUME NEW i \in 1..Len(stack) PROVE found[i] = path[Len(rest) + i]
      OBVIOUS
    <3>1. found[i] = d_name[stack[Len(stack) + 1 - i]]
      BY <2>1
    <3>2. path[Len(path) + 1 - (Len(stack) + 1 - i)] = d_name[stack[Len(stack) + 1 - i]]
      BY <1>6, <2>2 DEF Splits
    <3> QED BY <2>2, <3>1, <3>2
  <2> QED BY <2>5, <2>6
<1>10. Len(rest) \in 0..Len(path) /\ found = Below(path, Len(rest))
  <2>1. Len(path) = Len(rest) + Len(found) /\ Len(rest) \in 0..Len(path)
    BY <1>6, <1>7, <1>9 DEF Splits
  <2>2. PICK low : low = SubSeq(path, Len(rest) + 1, Len(path))
    OBVIOUS
  <2>3. /\ low \in Seq(NameSet)
        /\ Len(low) = IF Len(rest) + 1 <= Len(path) THEN Len(path) - (Len(rest) + 1) + 1 ELSE 0
        /\ \A i \in 1..Len(path) - (Len(rest) + 1) + 1 : low[i] = path[(Len(rest) + 1) + i - 1]
    <3>1. \A i \in (Len(rest) + 1)..Len(path) : path[i] \in NameSet
      BY <1>7, ElementOfSeq
    <3>2. Len(rest) + 1 \in Int /\ Len(path) \in Int
      BY <1>7
    <3>. QED  BY <2>2, <3>1, <3>2, SubSeqProperties
  <2>4. Len(low) = Len(found)
    BY <1>7, <1>9, <2>1, <2>3
  <2>5. \A i \in 1..Len(found) : found[i] = low[i]
    <3>. SUFFICES ASSUME NEW i \in 1..Len(found) PROVE found[i] = low[i]
      OBVIOUS
    <3>1. (Len(rest) + 1) + i - 1 = Len(rest) + i /\ i \in 1..Len(path) - (Len(rest) + 1) + 1
      BY <1>7, <1>9, <2>1
    <3>. QED  BY <1>9, <2>3, <3>1
  <2>6. found = low
    BY <1>9, <2>3, <2>4, <2>5, SeqEqual
  <2>. QED  BY <2>1, <2>2, <2>6 DEF Below
<1>11. ASSUME c.done PROVE found = path
  <2>1. rest = <<>> /\ Len(rest) = 0
    BY <1>1, <1>4, <1>11, EmptySeq DEF OnTheWay
  <2>2. Len(path) = Len(found)
    BY <1>6, <1>7, <1>9, <2>1 DEF Splits
  <2>3. \A i \in 1..Len(found) : found[i] = path[i]
    BY <1>7, <1>9, <2>1
  <2> QED BY <1>9, <2>2, <2>3, SeqEqual
<1>12. ASSUME ~c.done PROVE Len(path) + Cardinality(Mount) > MAX_DENTRY_DEPTH
  <2>1. PICK V : Left(V, c.mnt) /\ Cardinality(V) + Len(stack) = MAX_DENTRY_DEPTH
    BY <1>1, <1>5, <1>12 DEF OnTheWay
  <2>2. IsFiniteSet(V) /\ Cardinality(V) \in Nat /\ Cardinality(Mount) \in Nat
    BY <2>1, DentryAssumption, FS_Subset, FS_CardinalityType DEF Left
  <2>3. Cardinality(V) <= Cardinality(Mount) /\ Cardinality(V) # Cardinality(Mount)
    BY <1>3, <2>1, DentryAssumption, FS_Subset DEF Left
  <2>4. Len(stack) <= Len(path)
    BY <1>6, <1>7 DEF Splits
  <2> QED BY <1>7, <2>1, <2>2, <2>3, <2>4
<1>13. Len(path) + Cardinality(Mount) <= MAX_DENTRY_DEPTH => c.done
  <2>1. Cardinality(Mount) \in Nat
    BY DentryAssumption, FS_CardinalityType
  <2> QED BY <1>7, <1>12, <2>1, DentryAssumption
<1> QED BY <1>1, <1>2, <1>8, <1>10, <1>11, <1>13

\* Whatever the tree of dentries and mounts: the path a hook judges is the absolute
\* one if the walk arrives, which it does within its budget of steps, and otherwise
\* the end of that path, of either as much as the buffer holds (reconstruct_path).
THEOREM PathsReconstructed == Spec => []PathsAreAbsolute
<1>1. PathsAreAbsolute
  BY WalkFindsPath DEF PathsAreAbsolute
<1> QED BY <1>1, PTL
=============================================================================
