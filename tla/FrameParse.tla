---------------------------- MODULE FrameParse ----------------------------
(***************************************************************************)
(* What cognitive-watcher-v2.c reads out of one terminal write: escape     *)
(* sequences are stripped, a frame is told to be a thinking state or not,  *)
(* and its parts are cut out.                                              *)
(*                                                                         *)
(* A buffer is a sequence of glyphs, one for each kind of text the code    *)
(* tells apart: "esc" is the phrase "esc to interrupt", "brand" one of the *)
(* four banned words, "sp", "tab" and "nl" are spaces.  What strip_ansi    *)
(* reads are bytes: "Cap" and "low" are letters, "digit" what is not,      *)
(* "ESC", "BEL", "ctl" and "NUL" bytes below 32, "high" one above 127,     *)
(* which is below 32, too, where char is signed.                           *)
(***************************************************************************)
EXTENDS SequencesExt, Integers

CONSTANTS
  StateNameSize,   \* char new_state[128]
  ToolNameSize,    \* char tool_name[128]
  StatusSize,      \* char status[64]
  ToolNamesSize,   \* char tool_names[256]
  ParseGlyphs,     \* glyphs of the frames the parsers are checked on
  FrameLength,     \* and their length
  Pieces,          \* what is written in a row, and
  Cuts             \* what may stand at its end, as strip_ansi is checked on

ASSUME FrameAssumption ==
  {StateNameSize, ToolNameSize, StatusSize, ToolNamesSize, FrameLength} \subseteq Nat \ {0}

Capital == {"Cap", "brand"}
Blank == {"sp", "tab"}
White == Blank \union {"nl"}

Has(b, glyph) == \E i \in DOMAIN b : b[i] = glyph
\* The first place from `from` on outside W, Len(b) + 1 if there is none.
Skip(b, from, W) == Min({i \in from..Len(b) : b[i] \notin W} \union {Len(b) + 1})
First(b, from, glyph) == Min({i \in from..Len(b) : b[i] = glyph} \union {Len(b) + 1})
\* The last place up to `to` outside W, but never before `from`.
SkipBack(b, from, to, W) == Max({i \in from..to : b[i] \notin W} \union {from})
Cut(b, from, to) == SubSeq(b, from, to)

-----------------------------------------------------------------------------
Letter == {"Cap", "low"}
Dropped == {"BEL", "ctl", "high"}
Byte == Letter \union Dropped \union White
          \union {"digit", "(", ")", "*", ",", "[", "]", "ESC", "NUL"}

\* A byte outside sequences: the scan goes on in plain text, or after ESC.
Text(scan, byte) ==
  CASE byte = "ESC" -> [scan EXCEPT !.mode = "esc"]
    [] byte \in Dropped -> [scan EXCEPT !.mode = "text"]
    [] OTHER -> [mode |-> "text", out |-> Append(scan.out, byte)]

\* NUL ends the scan, in a CSI or an OSC, too.  A CSI ends at a letter, an OSC at
\* BEL only: ST, which is ESC and a backslash, does not end it.
\* mutant: the letter that ends a CSI is kept
StripStepKept(scan, byte) ==
  IF scan.mode = "end" \/ byte = "NUL" THEN [scan EXCEPT !.mode = "end"]
  ELSE CASE scan.mode = "esc" /\ byte = "[" -> [scan EXCEPT !.mode = "csi"]
         [] scan.mode = "esc" /\ byte = "]" -> [scan EXCEPT !.mode = "osc"]
         [] scan.mode = "csi" -> IF byte \in Letter THEN Text(scan, byte) ELSE scan
         [] scan.mode = "osc" -> IF byte = "BEL" THEN [scan EXCEPT !.mode = "text"] ELSE scan
         [] OTHER -> Text(scan, byte)
StripStep(scan, byte) ==
  IF scan.mode = "end" \/ byte = "NUL" THEN [scan EXCEPT !.mode = "end"]
  ELSE CASE scan.mode = "esc" /\ byte = "[" -> [scan EXCEPT !.mode = "csi"]
         [] scan.mode = "esc" /\ byte = "]" -> [scan EXCEPT !.mode = "osc"]
         [] scan.mode = "csi" -> IF byte \in Letter THEN [scan EXCEPT !.mode = "text"] ELSE scan
         [] scan.mode = "osc" -> IF byte = "BEL" THEN [scan EXCEPT !.mode = "text"] ELSE scan
         [] OTHER -> Text(scan, byte)

strip_ansi(input) == FoldLeft(StripStep, [mode |-> "text", out |-> <<>>], input).out

\* A printable text; bytes that are dropped one by one; and a whole control
\* sequence, all from ESC to the byte that closes it.
IsText(piece) == \A i \in DOMAIN piece : piece[i] \notin Dropped \union {"ESC", "NUL"}
IsNoise(piece) == \A i \in DOMAIN piece : piece[i] \in Dropped
Closers(opens) == IF opens = "[" THEN Letter ELSE {"BEL"}
Opens(piece) == Len(piece) > 1 /\ piece[1] = "ESC" /\ piece[2] \in {"[", "]"}
IsControl(piece) ==
  /\ Opens(piece) /\ Len(piece) > 2
  /\ \A i \in 3..Len(piece) :
       /\ piece[i] # "NUL"
       /\ piece[i] \in Closers(piece[2]) <=> i = Len(piece)

\* The end of a frame: nothing, NUL and whatever follows it, or a sequence that is
\* not closed.  The last is what the 256 bytes of a record may cut off, and an OSC
\* that ends in another way than by BEL, with all that is written after it.
IsCut(last) ==
  \/ last = <<>>
  \/ last[1] = "NUL"
  \/ last = <<"ESC">>
  \/ Opens(last) /\ \A i \in 3..Len(last) : last[i] \notin Closers(last[2])

ASSUME PieceAssumption ==
  /\ \A piece \in Pieces :
       piece \in Seq(Byte) /\ (IsText(piece) \/ IsNoise(piece) \/ IsControl(piece))
  /\ \A last \in Cuts : last \in Seq(Byte) /\ IsCut(last)

-----------------------------------------------------------------------------
\* The name a frame shows before its first parenthesis, from place p on.
NameEnd(b, p) == SkipBack(b, p, First(b, p, "(") - 1, Blank)

\* Two or more glyphs, then a parenthesis with something behind it: Bash(command).
LooksLikeCall(b, p) ==
  LET after == Skip(b, First(b, p, "(") + 1, Blank)
  IN NameEnd(b, p) > p /\ after <= Len(b) /\ b[after] # "nl"

is_thinking_state(b) ==
  LET p == Skip(b, 1, White)
  IN IF p > Len(b) \/ b[p] \notin Capital
     THEN Has(b, "*") /\ Has(b, "esc")
     ELSE /\ First(b, p, "(") <= Len(b)
          /\ ~LooksLikeCall(b, p)
          /\ ~Has(b, "brand")

\* <<>> when there is no name or it does not fit.
NameStart(b) ==
  LET q == Skip(b, 1, White)
  IN IF q <= Len(b) /\ b[q] = "*" THEN Skip(b, q + 1, Blank) ELSE q
extract_thinking_state(b) ==
  LET p == NameStart(b)
      name == Cut(b, p, NameEnd(b, p))
  IN IF p <= Len(b) /\ b[p] \in Capital /\ First(b, p, "(") <= Len(b) /\ Len(name) < StateNameSize
     THEN name ELSE <<>>

\* "Tool(args)\n   Status"; blanks before the tool are not part of it, tabs are.
ParseTool(b) ==
  LET open == First(b, 1, "(")
  IN IF open \in 2..ToolNameSize - 1 /\ open <= Len(b)
     THEN Cut(b, Skip(b, 1, {"sp", "nl"}), open - 1) ELSE <<>>

ParseArgs(b) ==
  LET open == First(b, 1, "(")
      closes == {i \in DOMAIN b : b[i] = ")"}
  IN IF open <= Len(b) /\ closes # {} /\ Max(closes) > open
     THEN Cut(b, open + 1, Max(closes) - 1) ELSE <<>>

ParseStatus(b) ==
  LET line == First(b, 1, "nl")
      start == Skip(b, line + 1, Blank)
  IN IF line < Len(b) /\ start <= Len(b)
     THEN Cut(b, start, SkipBack(b, start, Min({Len(b), start + StatusSize - 2}), {"sp", "nl"}))
     ELSE <<>>

parse_state(b) == <<ParseTool(b), ParseArgs(b), ParseStatus(b)>>

\* strstr and strncat into a buffer of ToolNamesSize.
Mentions(names, tool) ==
  \E i \in 1..Len(names) : i + Len(tool) - 1 <= Len(names) /\ Cut(names, i, i + Len(tool) - 1) = tool
add_tool_to_list(names, tool) ==
  LET longer == names \o (IF names = <<>> THEN <<>> ELSE <<",">>) \o tool
  IN IF tool = <<>> \/ Mentions(names, tool) THEN names
     ELSE Cut(longer, 1, Min({Len(longer), ToolNamesSize - 1}))

-----------------------------------------------------------------------------
Frame == SeqOf(ParseGlyphs, FrameLength)

\* Every frame told to be a thinking state by its first word yields that word as
\* its name, and only the older pattern, with an asterisk somewhere, yields none.
ThinkingHasName ==
  \A b \in Frame : is_thinking_state(b) =>
    LET name == extract_thinking_state(b)
        p == Skip(b, 1, White)
    IN \/ name # <<>> /\ Head(name) \in Capital /\ ~Has(name, "(")
       \/ name = <<>> /\ (Has(b, "*") \/ NameEnd(b, p) - p + 1 >= StateNameSize)

\* A frame drawn again further to the right is the same frame: same kind, same
\* name, same parts, so the stored copy is found.
IndentDoesNotMatter ==
  \A b \in Frame :
    LET moved == <<"sp">> \o b
    IN /\ is_thinking_state(moved) <=> is_thinking_state(b)
       /\ extract_thinking_state(moved) = extract_thinking_state(b)
       /\ First(b, 1, "(") < ToolNameSize - 1 => parse_state(moved) = parse_state(b)

\* Whatever texts, dropped bytes and complete control sequences are written in a row,
\* and wherever the frame is cut off, the texts are what is left, in order.
TextSurvives ==
  \A row \in SeqOf(Pieces, 4), last \in Cuts :
    LET texts == [i \in DOMAIN row |-> IF IsText(row[i]) THEN row[i] ELSE <<>>]
    IN strip_ansi(FlattenSeq(row) \o last) = FlattenSeq(texts)
=============================================================================
