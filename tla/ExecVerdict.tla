---------------------------- MODULE ExecVerdict ----------------------------
(***************************************************************************)
(* How the three exec-time monitors of zig_sentinel decide whether a       *)
(* program may start: the Inquisitor (inquisitor.bpf.c), its simplified    *)
(* form (inquisitor-simple.bpf.c) and the Sovereign Codex of the Oracle    *)
(* (oracle-advanced.bpf.c).  A name and a pattern are sequences of         *)
(* letters; the lengths the C code compares, 16, 8, 32 and 64 letters, are *)
(* constants.                                                              *)
(***************************************************************************)
EXTENDS Naturals, SequencesExt

CONSTANTS CommSize,     \* TASK_COMM_LEN: bytes of a comm, and of str_equals
          PrefixSize,   \* bytes of the pattern that str_contains looks at
          OracleSize,   \* bytes that the Oracle compares
          CodexSize,    \* bytes of a name the Oracle reads, its NUL included
          Letters,      \* of the words the lists are judged with
          MaxLength     \* bound: length of these words

ASSUME ExecVerdictAssumption ==
    /\ {CommSize, PrefixSize, OracleSize, CodexSize} \subseteq Nat \ {0}
    /\ PrefixSize < CommSize
    /\ MaxLength \in Nat

Cut(s, n) == SubSeq(s, 1, IF Len(s) < n THEN Len(s) ELSE n)

IsInfix(s, t) == \E i \in 0 .. Len(t) : IsPrefix(s, SubSeq(t, i + 1, Len(t)))

-----------------------------------------------------------------------------
\* inquisitor.bpf.c, which is given a comm: a name cut to CommSize - 1.

\* mutant: the search starts at the second letter.
contains_substring_tail(haystack, needle) ==
    haystack # <<>> /\ IsInfix(needle, Tail(haystack))
contains_substring(haystack, needle) ==
    /\ haystack # <<>>
    /\ IsInfix(needle, haystack)

\* "On" is enabled with a pattern; an entry without one never matches.
On(entry) == entry.enabled /\ entry.pattern # <<>>

check_blacklist(list, comm) ==
    \E i \in DOMAIN list :
        /\ On(list[i])
        /\ IF list[i].exact THEN list[i].pattern = comm
                            ELSE contains_substring(comm, list[i].pattern)

-----------------------------------------------------------------------------
\* inquisitor-simple.bpf.c, which is given the basename of the file.

str_equals(a, b) == Cut(a, CommSize) = Cut(b, CommSize)

str_contains(haystack, needle) == IsPrefix(Cut(needle, PrefixSize), haystack)

check_entry(entry, name) ==
    /\ On(entry)
    /\ IF entry.exact THEN str_equals(name, entry.pattern)
                      ELSE str_contains(name, entry.pattern)

Blocked(list, name) == \E i \in DOMAIN list : check_entry(list[i], name)

-----------------------------------------------------------------------------
\* oracle-advanced.bpf.c: the first entry that matches gives the severity.  A
\* pattern that fills what is compared is no prefix of anything.

CodexMatch(entry, target) ==
    /\ On(entry)
    /\ IF entry.exact THEN Cut(target, OracleSize) = Cut(entry.pattern, OracleSize)
                      ELSE /\ Len(entry.pattern) < OracleSize
                           /\ IsPrefix(entry.pattern, target)

check_sovereign_codex(codex, name) ==
    LET target == Cut(name, CodexSize - 1)
        hits == {i \in DOMAIN codex : CodexMatch(codex[i], target)}
    IN  IF hits = {} THEN 0
        ELSE codex[CHOOSE i \in hits : \A j \in hits : i =< j].severity

-----------------------------------------------------------------------------
\* What an entry says, in the words of the sources: this name ("exact"), or
\* every name that the word is in ("substring", inquisitor.bpf.c:73,
\* oracle-advanced.bpf.c:71).
Says(entry, name) ==
    /\ On(entry)
    /\ IF entry.exact THEN name = entry.pattern
                      ELSE IsInfix(entry.pattern, name)

\* The simple Inquisitor and the Oracle look for a word only where a name
\* begins: this is what they find of what an entry says.
Finds(entry, name) ==
    Says(entry, name) /\ (entry.exact \/ IsPrefix(entry.pattern, name))

\* The Inquisitor refuses exactly the names that an entry says.  The simple
\* one refuses none besides those, and misses no more than the words that
\* stand later in a name; a pattern too long to be compared whole makes it
\* refuse more names, never fewer.
EntriesMean(Entries, Names) ==
    \A e \in Entries, n \in Names :
        LET fits == Len(e.pattern) =< IF e.exact THEN CommSize - 1 ELSE PrefixSize
        IN  /\ Len(n) < CommSize => (check_blacklist(<<e>>, n) <=> Says(e, n))
            /\ Finds(e, n) => check_entry(e, n)
            /\ fits /\ check_entry(e, n) => Finds(e, n)

\* The first match decides, so a codex must list its worst entries first:
\* then the answer is the worst severity among the entries that are found.
WorstFirstDecides(Entries, Names) ==
    \A a, b \in Entries, n \in Names :
        a.severity >= b.severity /\ Len(n) < CodexSize =>
            LET found == {e \in {a, b} : Finds(e, n)}
                answer == check_sovereign_codex(<<a, b>>, n)
            IN  /\ \A e \in found : answer >= e.severity
                /\ answer \in {0} \cup {e.severity : e \in found}

\* All entries and names of these words, a codex having two entries that can
\* be compared whole.
Words == UNION {[1 .. n -> Letters] : n \in 0 .. MaxLength}
Entries == [pattern : Words, exact : BOOLEAN, severity : 0 .. 2, enabled : BOOLEAN]
PatternMeaning == EntriesMean(Entries, Words)
WorstEntryDecides ==
    WorstFirstDecides({e \in Entries : Len(e.pattern) < OracleSize}, Words)
=============================================================================
