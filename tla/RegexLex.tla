------------------------------ MODULE RegexLex ------------------------------
(***************************************************************************)
(* The lexer of src/src/regexx.c: regexx_lex_token runs every pattern at   *)
(* the caller's offset, keeps the longest match and the position of the    *)
(* token, and moves the offset behind it.  What a pattern does at an       *)
(* offset, which RegexMatch is about, is an arbitrary table here.          *)
(***************************************************************************)
EXTENDS Integers, Sequences, FiniteSets

CONSTANTS
  PatternCount,  (* re->pattern_count.                                     *)
  Char,          (* Characters of the texts,                               *)
  Newline,       (* one of which ends a line.                              *)
  Texts          (* The texts to be split into tokens.                     *)

ASSUME LexAssumption ==
  /\ PatternCount \in Nat
  /\ Newline \in Char
  /\ Texts \subseteq Seq(Char)

Pattern == 1 .. PatternCount
NoMatch == -1
REGEXX_NOT_FOUND == 0

VARIABLES
  text,     (* subject                                                     *)
  outcome,  (* The offset at which _node_eval says a match ends, for each  *)
            (* pattern and offset.                                         *)
  offset,   (* *subject_offset, the caller's                               *)
  offsets,  (* re->offsets: line and character number                      *)
  pc,       (* Is a call under way?                                        *)
  i,        (* The pattern the loop is at,                                 *)
  longest,  (* the longest match so far                                    *)
  result    (* and the token for it; of the last call if none is active.   *)

lex == <<text, outcome, offset, offsets, pc, i, longest, result>>

(* A match ends where it starts or later, and inside the text.             *)
Matchers(t) ==
  [Pattern -> {f \in [0 .. Len(t) -> NoMatch .. Len(t)] :
                 \A o \in 0 .. Len(t) : f[o] # NoMatch => f[o] >= o}]

Ends(p) == outcome[p][offset]

-----------------------------------------------------------------------------
(* Newlines among the characters from offset a up to offset b.             *)
NewlinesAt(a, b) == {k \in a + 1 .. b : text[k] = Newline}
Newlines(a, b) == Cardinality(NewlinesAt(a, b))

(* The characters among them behind the last newline.                      *)
SinceNewline(a, b) == {k \in a + 1 .. b : NewlinesAt(k - 1, b) = {}}

ColumnKept(a, b, char) == char + (b - a)   (* mutant: no reset at a newline *)
(* The character number at offset b, if it is char at offset a.            *)
Column(a, b, char) ==
  (IF NewlinesAt(a, b) = {} THEN char ELSE 0) + Cardinality(SinceNewline(a, b))

(* _set_offsets                                                            *)
SetOffsetsLate(at, a, b) ==   (* mutant: skips the token's first character  *)
  [line |-> at.line + Newlines(a + 1, b), char |-> Column(a, b, at.char)]
SetOffsets(at, a, b) ==
  [line |-> at.line + Newlines(a, b), char |-> Column(a, b, at.char)]

-----------------------------------------------------------------------------
NoToken == [id |-> REGEXX_NOT_FOUND, start |-> 0, length |-> 0, line |-> 1, char |-> 0]

Init ==
  /\ text \in Texts
  /\ outcome \in Matchers(text)
  /\ offset = 0
  /\ offsets = [line |-> 1, char |-> 0]
  /\ pc = "idle"
  /\ i = 1
  /\ longest = 0
  /\ result = NoToken

Call ==
  /\ pc = "idle"
  /\ pc' = "scan"
  /\ i' = 1
  /\ longest' = 0
  /\ result' = [NoToken EXCEPT !.line = offsets.line, !.char = offsets.char]
  /\ UNCHANGED <<text, outcome, offset, offsets>>

BetterOrSame(p) == Ends(p) # NoMatch /\ longest <= Ends(p)   (* mutant: <=  *)
(* "is_matched && longest < end"                                           *)
Better(p) == Ends(p) # NoMatch /\ longest < Ends(p)

TryContinues ==   (* mutant: i++ belongs to the `if`                         *)
  /\ pc = "scan"
  /\ i \in Pattern
  /\ Better(i)
  /\ i' = i + 1
  /\ longest' = Ends(i)
  /\ result' = [result EXCEPT !.id = i, !.start = offset,
                              !.length = Ends(i) - offset]
  /\ offsets' = SetOffsets(offsets, offset, Ends(i))
  /\ UNCHANGED <<text, outcome, offset, pc>>
TryPattern ==
  /\ pc = "scan"
  /\ i \in Pattern
  /\ i' = i + 1
  /\ \/ /\ Better(i)
        /\ longest' = Ends(i)
        /\ result' = [result EXCEPT !.id = i, !.start = offset,
                                    !.length = Ends(i) - offset]
        /\ offsets' = SetOffsets(offsets, offset, Ends(i))
     \/ ~Better(i) /\ UNCHANGED <<longest, result, offsets>>
  /\ UNCHANGED <<text, outcome, offset, pc>>

NotMoved == offset   (* mutant: the caller's offset is not written          *)
MovedPast == IF longest # 0 THEN longest + 1 ELSE offset   (* mutant: one more *)
(* The offset that is handed back to the caller.                           *)
Moved == IF longest # 0 THEN longest ELSE offset

ReturnAt(o) ==
  /\ pc = "scan"
  /\ i \notin Pattern
  /\ pc' = "idle"
  /\ offset' = o
  /\ UNCHANGED <<text, outcome, offsets, i, longest, result>>

Return == ReturnAt(Moved)

(* The caller asks for tokens until there is none.                         *)
Next ==
  \/ Call
  \/ TryPattern
  \/ Return

Spec == Init /\ [][Next]_lex

FairSpec == Spec /\ WF_lex(Next)

-----------------------------------------------------------------------------
TypeOK ==
  /\ text \in Seq(Char)
  /\ outcome \in Matchers(text)
  /\ offset \in 0 .. Len(text)
  /\ offsets \in [line: Nat \ {0}, char: Nat]
  /\ pc \in {"idle", "scan"}
  /\ i \in 1 .. PatternCount + 1
  /\ longest \in 0 .. Len(text)
  /\ result \in [id: 0 .. PatternCount, start: 0 .. Len(text),
                 length: 0 .. Len(text), line: Nat \ {0}, char: Nat]

Found == result.id # REGEXX_NOT_FOUND

(* The token is as long as any pattern makes it, and of the patterns that  *)
(* make it that long it is the first: "break" is a keyword because the     *)
(* keywords come before the identifiers.                                   *)
LongestFirst ==
  pc = "idle" /\ Found => \A p \in Pattern :
             LET end == result.start + result.length
             IN  /\ outcome[p][result.start] <= end
                 /\ p = result.id => outcome[p][result.start] = end
                 /\ p < result.id => outcome[p][result.start] < end

(* Tokens tile the text: a token starts where the caller's offset was and  *)
(* ends where it is now.                                                   *)
TilesStep ==
  pc = "scan" /\ pc' = "idle" =>
    IF result'.id = REGEXX_NOT_FOUND THEN offset' = offset
    ELSE result'.start = offset /\ result'.start + result'.length = offset'
Tiles == [][TilesStep]_lex

(* The line number may run ahead of the text, because every pattern that   *)
(* improves on the ones before it counts the lines of its match again, but *)
(* it never falls behind.                                                  *)
LinesNeverLost ==
  pc = "idle" => offsets.line >= 1 + Newlines(0, offset)

(* Where no two patterns match at one offset, line and character number    *)
(* are those of the offset.                                                *)
Unrivalled ==
  \A o \in 0 .. Len(text) : \A p, q \in Pattern :
    outcome[p][o] # NoMatch /\ outcome[q][o] # NoMatch => p = q
PositionsExact ==
  pc = "idle" /\ Unrivalled =>
    offsets = [line |-> 1 + Newlines(0, offset), char |-> Cardinality(SinceNewline(0, offset))]

(* Asking for one token after the other gets to the end of the text, or to *)
(* a place where nothing matches, if no pattern matches the empty text.    *)
Productive == \A p \in Pattern : \A o \in 0 .. Len(text) : outcome[p][o] # o
Settled == pc = "idle" /\ ~Found
GetsThrough == Productive => []<>Settled

=============================================================================
