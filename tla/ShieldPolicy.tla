--------------------------- MODULE ShieldPolicy ---------------------------
(***************************************************************************)
(* The path policy of guardian_shield.bpf.c: longest-prefix lookup in the  *)
(* kernel's LPM tries, the boundary test, free basenames and their scopes, *)
(* and the set of operations that policy guards at a path.                 *)
(*                                                                         *)
(* A path is the sequence of its components.  The tries compare bytes, so  *)
(* names keep the one thing bytes add to them: <<x, y>> \in BytePrefix     *)
(* when the name x is a proper prefix of the name y.                       *)
(***************************************************************************)
EXTENDS Sequences, Integers, FiniteSets

CONSTANTS
  Name,             \* path components
  Path,             \* the paths of the instance
  BytePrefix,       \* pairs of names, the first a proper byte prefix of the second
  Op,               \* operations a rule may guard (ev_op_bit)
  CredentialPaths,  \* stored prefixes of the credential AssetMap
  FreeNames,        \* free_basenames: name -> scopes it is free in
  FreeScopes,       \* free_scopes: stored prefix -> scope
  GlobalScope       \* FREE_SCOPE_GLOBAL

ASSUME PolicyAssumption ==
  /\ Path \subseteq Seq(Name) \ {<<>>}
  /\ BytePrefix \subseteq Name \X Name
  /\ CredentialPaths \subseteq Seq(Name) \ {<<>>}
  /\ DOMAIN FreeNames \subseteq Name
  /\ DOMAIN FreeScopes \subseteq Seq(Name) \ {<<>>}
  /\ IsFiniteSet(DOMAIN FreeScopes)

Leaf(P) == P[Len(P)]

\* The bytes of the stored prefix P are a prefix of the bytes of q.
BytesMatch(P, q) ==
  /\ Len(P) <= Len(q)
  /\ \A i \in 1..(Len(P) - 1) : P[i] = q[i]
  /\ Leaf(P) = q[Len(P)] \/ <<Leaf(P), q[Len(P)]>> \in BytePrefix

\* P is q itself or one of the directories above it: the boundary test.
Covers(P, q) == Len(P) <= Len(q) /\ \A i \in 1..Len(P) : P[i] = q[i]

\* Of two prefixes that match the same path, P has more bytes than Q.
LongerMatch(P, Q) ==
  \/ Len(P) > Len(Q)
  \/ Len(P) = Len(Q) /\ <<Leaf(Q), Leaf(P)>> \in BytePrefix

\* bpf_map_lookup_elem on an LPM trie: the longest stored prefix, if any.
Matches(stored, q) == {P \in stored : BytesMatch(P, q)}
LongestMatch(stored, q) ==
  CHOOSE P \in Matches(stored, q) :
    \A Q \in Matches(stored, q) : P = Q \/ LongerMatch(P, Q)

\* The lookup followed by the boundary test.
WithinBytes(stored, q) == Matches(stored, q) # {}     \* mutant: no boundary test
Within(stored, q) ==
  Matches(stored, q) # {} /\ Covers(LongestMatch(stored, q), q)

cred_is_protected(q) == Within(CredentialPaths, q)

\* The scopes a path lies in: the longest one the trie finds, with no boundary test.
free_scope_bits(q) ==
  {GlobalScope} \union
  (IF Matches(DOMAIN FreeScopes, q) = {} THEN {}
   ELSE {FreeScopes[LongestMatch(DOMAIN FreeScopes, q)]})

\* emit_cb collects the scopes of every component that is a free basename.
free_mask(q) == UNION {FreeNames[q[i]] : i \in {j \in 1..Len(q) : q[j] \in DOMAIN FreeNames}}

\* The path is regenerable output: destructive operations on it are exempt.
Freed(q) == free_mask(q) \intersect free_scope_bits(q) # {}

\* rules: the protected_paths trie, stored prefix -> operations it guards.
path_is_protected(rules, q, op) ==
  Within(DOMAIN rules, q) /\ op \in rules[LongestMatch(DOMAIN rules, q)]

path_guard_ops(rules, q) ==
  IF Within(DOMAIN rules, q) /\ ~Freed(q)
  THEN rules[LongestMatch(DOMAIN rules, q)]
  ELSE {}

\* fs_guard_dentry for one path, and for the two paths of a rename or a link: a
\* relocation must not shed an operation that the source guards.
Hit(rules, op, q) == path_is_protected(rules, q, op) /\ ~Freed(q)

EscapeNever(rules, q, r) == FALSE          \* mutant: guards are not compared
Escape(rules, q, r) == ~(path_guard_ops(rules, q) \subseteq path_guard_ops(rules, r))

\* mutant: the destination is not looked at
MoveHitSource(rules, op, q, r) == Hit(rules, op, q) \/ Escape(rules, q, r)
MoveHit(rules, op, q, r) ==
  Hit(rules, op, q) \/ Hit(rules, op, r) \/ Escape(rules, q, r)

-----------------------------------------------------------------------------
(* What the rules mean: a rule holds for its directory and everything below, *)
(* and the rule of the nearest directory replaces those further up.          *)

Nearest(stored, q) ==
  CHOOSE P \in stored : Covers(P, q) /\ \A Q \in stored : Covers(Q, q) => Len(Q) <= Len(P)

Meaning(rules, q) ==
  IF \E P \in DOMAIN rules : Covers(P, q) THEN rules[Nearest(DOMAIN rules, q)] ELSE {}

\* No stored prefix ends inside a component of the path.
EndsAtComponents(stored, q) == \A P \in Matches(stored, q) : Covers(P, q)

MeansFree(q) ==
  \E i \in 1..Len(q) :
    /\ q[i] \in DOMAIN FreeNames
    /\ \/ GlobalScope \in FreeNames[q[i]]
       \/ \E P \in DOMAIN FreeScopes : Covers(P, q) /\ FreeScopes[P] \in FreeNames[q[i]]
=============================================================================
