--------------------------- MODULE RegexLexProofs ---------------------------
(***************************************************************************)
(* Proofs about RegexLex, for any number of patterns, whatever they match, *)
(* and for any texts.                                                      *)
(***************************************************************************)
EXTENDS RegexLex, FiniteSetTheorems, TLAPS

-----------------------------------------------------------------------------
(* Counting newlines and columns of consecutive stretches of the text.     *)

(* A stretch has finitely many characters, and so finitely many newlines.  *)
LEMMA StretchFinite ==
  ASSUME NEW a \in Nat, NEW b \in Nat
  PROVE  /\ IsFiniteSet(NewlinesAt(a, b)) /\ Newlines(a, b) \in Nat
         /\ IsFiniteSet(SinceNewline(a, b))
         /\ Cardinality(SinceNewline(a, b)) \in Nat
<1>1. IsFiniteSet(a + 1 .. b)
  BY FS_Interval
<1>2. NewlinesAt(a, b) \in SUBSET (a + 1 .. b) /\ SinceNewline(a, b) \in SUBSET (a + 1 .. b)
  BY DEF NewlinesAt, SinceNewline
<1>3. IsFiniteSet(NewlinesAt(a, b)) /\ IsFiniteSet(SinceNewline(a, b))
  BY <1>1, <1>2, FS_Subset
<1> QED
  BY <1>3, FS_CardinalityType DEF Newlines

(* The newlines of two stretches side by side add up.                      *)
LEMMA NewlinesAdd ==
  ASSUME NEW a \in Nat, NEW b \in Nat, a <= b
  PROVE  Newlines(0, b) = Newlines(0, a) + Newlines(a, b)
<1>1. NewlinesAt(0, b) = NewlinesAt(0, a) \cup NewlinesAt(a, b)
  BY DEF NewlinesAt
<1>2. NewlinesAt(0, a) \cap NewlinesAt(a, b) = {}
  BY DEF NewlinesAt
<1>3. IsFiniteSet(NewlinesAt(0, a)) /\ IsFiniteSet(NewlinesAt(a, b))
  BY StretchFinite
<1>4. Cardinality(NewlinesAt(0, b)) =
        Cardinality(NewlinesAt(0, a)) + Cardinality(NewlinesAt(a, b)) - Cardinality({})
  BY <1>1, <1>2, <1>3, FS_Union
<1> QED
  BY <1>4, FS_EmptySet, StretchFinite DEF Newlines

(* A column is a number.                                                   *)
LEMMA ColumnType ==
  ASSUME NEW a \in Nat, NEW b \in Nat, NEW char \in Nat
  PROVE  Column(a, b, char) \in Nat
<1>1. Cardinality(SinceNewline(a, b)) \in Nat
  BY StretchFinite
<1>2. \A x, y \in Nat : (IF NewlinesAt(a, b) = {} THEN x ELSE 0) + y \in Nat
  OBVIOUS
<1> QED
  BY <1>1, <1>2 DEF Column

(* The column at b follows from the column at any offset before it.        *)
LEMMA ColumnAdds ==
  ASSUME NEW a \in Nat, NEW b \in Nat, a <= b
  PROVE  Column(a, b, Column(0, a, 0)) = Column(0, b, 0)
<1>1. CASE NewlinesAt(a, b) = {}
  <2>1. SinceNewline(0, b) = SinceNewline(0, a) \cup SinceNewline(a, b)
    BY <1>1 DEF SinceNewline, NewlinesAt
  <2>2. SinceNewline(0, a) \cap SinceNewline(a, b) = {}
    BY DEF SinceNewline
  <2>3. IsFiniteSet(SinceNewline(0, a)) /\ IsFiniteSet(SinceNewline(a, b))
    BY StretchFinite
  <2>4. Cardinality(SinceNewline(0, b)) =
          Cardinality(SinceNewline(0, a)) + Cardinality(SinceNewline(a, b)) - Cardinality({})
    BY <2>1, <2>2, <2>3, FS_Union
  <2> QED
    BY <1>1, <2>4, FS_EmptySet, StretchFinite DEF Column
<1>2. CASE NewlinesAt(a, b) # {}
  <2>1. SinceNewline(0, b) = SinceNewline(a, b)
    BY <1>2 DEF SinceNewline, NewlinesAt
  <2>2. NewlinesAt(0, b) # {}
    BY <1>2 DEF NewlinesAt
  <2> QED
    BY <1>2, <2>1, <2>2 DEF Column
<1> QED
  BY <1>1, <1>2

(* An empty stretch has no newline and no column of its own.               *)
LEMMA EmptyStretch == Newlines(0, 0) = 0 /\ Column(0, 0, 0) = 0
<1>1. NewlinesAt(0, 0) = {} /\ SinceNewline(0, 0) = {}
  BY DEF NewlinesAt, SinceNewline
<1> QED
  BY <1>1, FS_EmptySet DEF Newlines, Column

-----------------------------------------------------------------------------
(***************************************************************************)
(* The loop invariant of regexx_lex_token.  While no match is kept, none   *)
(* of the patterns tried matched anything; a match that is kept is as long *)
(* as that of any pattern tried and longer than those tried before it.     *)
(***************************************************************************)
LoopInv ==
  /\ longest = 0 <=> ~Found
  /\ pc = "scan" /\ ~Found => \A p \in 1 .. i - 1 : Ends(p) <= 0
  /\ Found =>
       /\ result.start + result.length = longest
       /\ outcome[result.id][result.start] = longest
  /\ pc = "scan" /\ Found =>
       /\ result.start = offset
       /\ result.id \in 1 .. i - 1
       /\ \A p \in 1 .. i - 1 : Ends(p) <= longest
       /\ \A p \in 1 .. result.id - 1 : Ends(p) < longest

(* The position of offset o.                                               *)
At(o) == [line |-> 1 + Newlines(0, o), char |-> Column(0, o, 0)]

(* How far the lexer has counted lines and characters in any case.         *)
Counted == IF pc = "scan" /\ Found THEN longest ELSE offset

LinesInv == offsets.line >= 1 + Newlines(0, Counted) /\ offsets.line >= 1 + Newlines(0, offset)

PositionInv == Unrivalled => offsets = At(Counted)

IInv == TypeOK /\ LoopInv /\ LongestFirst /\ LinesInv /\ PositionInv

-----------------------------------------------------------------------------
LEMMA InitInv == Init => IInv
<1> SUFFICES ASSUME Init PROVE IInv
  OBVIOUS
<1>1. TypeOK
  BY LexAssumption DEF Init, TypeOK, NoToken, REGEXX_NOT_FOUND
<1>2. ~Found /\ LoopInv /\ LongestFirst
  BY DEF Init, LoopInv, LongestFirst, Found, NoToken, REGEXX_NOT_FOUND
<1>3. LinesInv /\ PositionInv
  BY <1>2, EmptyStretch DEF Init, LinesInv, PositionInv, At, Counted
<1> QED
  BY <1>1, <1>2, <1>3 DEF IInv

(* What a pattern does at the caller's offset.                             *)
LEMMA EndsType ==
  ASSUME TypeOK, NEW p \in Pattern
  PROVE  Ends(p) \in NoMatch .. Len(text) /\ (Ends(p) # NoMatch => Ends(p) >= offset)
<1>1. offset \in 0 .. Len(text) /\ outcome \in Matchers(text)
  BY DEF TypeOK
<1>2. /\ outcome[p] \in [0 .. Len(text) -> NoMatch .. Len(text)]
      /\ \A o \in 0 .. Len(text) : outcome[p][o] # NoMatch => outcome[p][o] >= o
  BY <1>1 DEF Matchers
<1> QED
  BY <1>1, <1>2 DEF Ends

LEMMA CallInv ==
  ASSUME IInv, Call
  PROVE  IInv'
<1>1. TypeOK'
  <2>1. result' \in [id: 0 .. PatternCount, start: 0 .. Len(text),
                     length: 0 .. Len(text), line: Nat \ {0}, char: Nat]
    <3>1. offsets.line \in Nat \ {0} /\ offsets.char \in Nat
      BY DEF IInv, TypeOK
    <3>2. result' = [id |-> 0, start |-> 0, length |-> 0,
                     line |-> offsets.line, char |-> offsets.char]
      BY DEF Call, NoToken, REGEXX_NOT_FOUND
    <3>3. 0 \in 0 .. PatternCount /\ 0 \in 0 .. Len(text)
      BY LexAssumption DEF IInv, TypeOK
    <3> QED
      BY <3>1, <3>2, <3>3
  <2>2. /\ pc' = "scan" /\ i' = 1 /\ longest' = 0
        /\ UNCHANGED <<text, outcome, offset, offsets>>
    BY DEF Call
  <2>3. i' \in 1 .. PatternCount + 1 /\ longest' \in 0 .. Len(text)
    BY <2>2, LexAssumption DEF IInv, TypeOK
  <2> QED
    BY <2>1, <2>2, <2>3 DEF IInv, TypeOK
<1>2. ~Found'
  BY DEF Call, Found, NoToken
<1>3. LoopInv'
  BY <1>2 DEF Call, LoopInv
<1>4. LongestFirst'
  BY <1>2 DEF LongestFirst
<1>5. Counted = offset /\ Counted' = offset
  BY <1>2 DEF Call, Counted
<1>6. LinesInv'
  BY <1>5 DEF Call, IInv, LinesInv, Newlines, NewlinesAt
<1>7. PositionInv'
  BY <1>5 DEF Call, IInv, PositionInv, At, Unrivalled, Newlines, Column,
              NewlinesAt, SinceNewline
<1> QED
  BY <1>1, <1>3, <1>4, <1>6, <1>7 DEF IInv

(* A pattern that does better than the ones before it.                     *)
LEMMA BetterLoop ==
  ASSUME TypeOK, LoopInv, TryPattern, Better(i)
  PROVE  TypeOK' /\ LoopInv'
<1> DEFINE e == Ends(i)
<1>1. /\ pc = "scan" /\ i \in Pattern /\ i' = i + 1 /\ pc' = pc
      /\ UNCHANGED <<text, outcome, offset>>
      /\ longest' = e
      /\ result' = [result EXCEPT !.id = i, !.start = offset, !.length = e - offset]
      /\ offsets' = SetOffsets(offsets, offset, e)
  BY DEF TryPattern
<1>2. e \in Nat /\ e <= Len(text) /\ e >= offset /\ longest < e /\ longest \in Nat
      /\ offset \in Nat /\ i \in Nat \ {0} /\ Len(text) \in Nat /\ e # NoMatch
  BY <1>1, EndsType, LexAssumption DEF Better, TypeOK, NoMatch, Pattern
<1>3. /\ result'.id = i /\ result'.start = offset /\ result'.length = e - offset
      /\ result'.line = result.line /\ result'.char = result.char
      /\ result' \in [id: 0 .. PatternCount, start: 0 .. Len(text),
                      length: 0 .. Len(text), line: Nat \ {0}, char: Nat]
  <2>1. i \in 0 .. PatternCount /\ offset \in 0 .. Len(text) /\ e - offset \in 0 .. Len(text)
    BY <1>1, <1>2, LexAssumption DEF Pattern
  <2>2. result \in [id: 0 .. PatternCount, start: 0 .. Len(text),
                    length: 0 .. Len(text), line: Nat \ {0}, char: Nat]
    BY DEF TypeOK
  <2> HIDE DEF e
  <2> QED
    BY <1>1, <2>1, <2>2
<1>4. Found' /\ Counted' = e
  BY <1>1, <1>2, <1>3 DEF Found, Counted, REGEXX_NOT_FOUND
<1>5. offsets'.line = offsets.line + Newlines(offset, e)
      /\ offsets'.char = Column(offset, e, offsets.char)
      /\ offsets' = [line |-> offsets.line + Newlines(offset, e),
                    char |-> Column(offset, e, offsets.char)]
  BY <1>1 DEF SetOffsets
<1>6. Newlines(offset, e) \in Nat /\ Column(offset, e, offsets.char) \in Nat
      /\ offsets.line \in Nat \ {0} /\ offsets.char \in Nat
  BY <1>2, StretchFinite, ColumnType DEF TypeOK
<1>7. TypeOK'
  <2>1. offsets' \in [line: Nat \ {0}, char: Nat]
    BY <1>5, <1>6
  <2>2. longest' \in 0 .. Len(text) /\ i' \in 1 .. PatternCount + 1
    BY <1>1, <1>2, LexAssumption DEF Pattern
  <2> QED
    BY <1>1, <1>3, <2>1, <2>2 DEF TypeOK
<1>8. LoopInv'
  <2>1. \A p \in 1 .. i - 1 : Ends(p) < e
    <3> TAKE p \in 1 .. i - 1
    <3>1. p \in Pattern /\ Ends(p) \in Int
      BY <1>1, <1>2, EndsType, LexAssumption DEF Pattern, NoMatch
    <3>2. CASE Found
      BY <1>1, <1>2, <3>1, <3>2 DEF LoopInv
    <3>3. CASE ~Found
      BY <1>1, <1>2, <3>1, <3>3 DEF LoopInv
    <3> QED
      BY <3>2, <3>3
  <2>2. \A p : Ends(p)' = Ends(p)
    BY <1>1 DEF Ends
  <2>3. result'.start + result'.length = e /\ outcome'[result'.id][result'.start] = e
    BY <1>1, <1>2, <1>3 DEF Ends
  <2>4. \A p \in 1 .. i' - 1 : Ends(p)' <= e
    <3>1. \A p \in 1 .. i : Ends(p) <= e
      <4>1. \A p \in 1 .. i : p = i \/ p \in 1 .. i - 1
        BY <1>2
      <4>2. \A p \in Pattern : Ends(p) \in Int
        BY EndsType DEF NoMatch
      <4>3. 1 .. i \subseteq Pattern
        BY <1>1, LexAssumption DEF Pattern
      <4> HIDE DEF e
      <4>4. \A p \in 1 .. i - 1 : Ends(p) <= e
        BY <1>2, <2>1, <4>2, <4>3
      <4> QED
        BY <1>2, <4>1, <4>4 DEF e
    <3>2. i' - 1 = i
      BY <1>1, <1>2
    <3> QED
      BY <2>2, <3>1, <3>2
  <2>5. \A p \in 1 .. result'.id - 1 : Ends(p)' < e
    BY <1>3, <2>1, <2>2
  <2> QED
    BY <1>1, <1>2, <1>3, <1>4, <2>3, <2>4, <2>5 DEF LoopInv
<1> QED
  BY <1>7, <1>8

LEMMA BetterInv ==
  ASSUME IInv, TryPattern, Better(i)
  PROVE  IInv'
<1> DEFINE e == Ends(i)
<1>1. /\ pc = "scan" /\ i \in Pattern /\ i' = i + 1 /\ pc' = pc
      /\ UNCHANGED <<text, outcome, offset>>
      /\ longest' = e
      /\ result' = [result EXCEPT !.id = i, !.start = offset, !.length = e - offset]
      /\ offsets' = SetOffsets(offsets, offset, e)
  BY DEF TryPattern
<1>2. e \in Nat /\ e <= Len(text) /\ e >= offset /\ longest < e /\ longest \in Nat
      /\ offset \in Nat /\ i \in Nat \ {0} /\ Len(text) \in Nat /\ e # NoMatch
  BY <1>1, EndsType, LexAssumption DEF Better, IInv, TypeOK, NoMatch, Pattern
<1>3. /\ result'.id = i /\ result'.start = offset /\ result'.length = e - offset
      /\ result'.line = result.line /\ result'.char = result.char
      /\ result' \in [id: 0 .. PatternCount, start: 0 .. Len(text),
                      length: 0 .. Len(text), line: Nat \ {0}, char: Nat]
  <2>1. i \in 0 .. PatternCount /\ offset \in 0 .. Len(text) /\ e - offset \in 0 .. Len(text)
    BY <1>1, <1>2, LexAssumption DEF Pattern
  <2>2. result \in [id: 0 .. PatternCount, start: 0 .. Len(text),
                    length: 0 .. Len(text), line: Nat \ {0}, char: Nat]
    BY DEF IInv, TypeOK
  <2> HIDE DEF e
  <2> QED
    BY <1>1, <2>1, <2>2
<1>4. Found' /\ Counted' = e
  BY <1>1, <1>2, <1>3 DEF Found, Counted, REGEXX_NOT_FOUND
<1>5. offsets'.line = offsets.line + Newlines(offset, e)
      /\ offsets'.char = Column(offset, e, offsets.char)
      /\ offsets' = [line |-> offsets.line + Newlines(offset, e),
                    char |-> Column(offset, e, offsets.char)]
  BY <1>1 DEF SetOffsets
<1>6. Newlines(offset, e) \in Nat /\ Column(offset, e, offsets.char) \in Nat
      /\ offsets.line \in Nat \ {0} /\ offsets.char \in Nat
  BY <1>2, StretchFinite, ColumnType DEF IInv, TypeOK
<1>7. TypeOK' /\ LoopInv'
  BY BetterLoop DEF IInv
<1>9. LongestFirst'
  BY <1>1 DEF LongestFirst
<1>10. \A o \in Nat : Newlines(0, o)' = Newlines(0, o) /\ At(o)' = At(o)
  BY <1>1 DEF Newlines, NewlinesAt, At, Column, SinceNewline
<1>11. LinesInv'
  <2>1. Newlines(0, e) = Newlines(0, offset) + Newlines(offset, e)
    BY <1>2, NewlinesAdd
  <2>2. Newlines(0, offset) \in Nat
    BY <1>2, StretchFinite
  <2>3. offsets.line >= 1 + Newlines(0, offset)
    BY DEF IInv, LinesInv
  <2>4. offsets'.line >= 1 + Newlines(0, e) /\ offsets'.line >= 1 + Newlines(0, offset)
    BY <1>5, <1>6, <2>1, <2>2, <2>3
  <2>5. Newlines(0, Counted)' = Newlines(0, e)
    BY <1>1, <1>4 DEF Newlines, NewlinesAt
  <2>6. Newlines(0, offset)' = Newlines(0, offset)
    BY <1>1 DEF Newlines, NewlinesAt
  <2> QED
    BY <2>4, <2>5, <2>6 DEF LinesInv
<1>12. PositionInv'
  <2> SUFFICES ASSUME Unrivalled PROVE offsets' = At(e)
    <3>1. Unrivalled' <=> Unrivalled
      BY <1>1 DEF Unrivalled
    <3>2. At(Counted)' = At(e)
      BY <1>1, <1>4 DEF At, Newlines, NewlinesAt, Column, SinceNewline
    <3> QED
      BY <3>1, <3>2 DEF PositionInv
  <2>1. ~Found
    <3> SUFFICES ASSUME Found PROVE FALSE
      OBVIOUS
    <3>1. result.id \in Pattern /\ result.id # i /\ outcome[result.id][offset] = longest
          /\ longest # NoMatch
      BY <1>1, <1>2, LexAssumption DEF IInv, LoopInv, Pattern, NoMatch
    <3>2. outcome[i][offset] # NoMatch /\ offset \in 0 .. Len(text)
      BY <1>2 DEF Ends
    <3> QED
      BY <1>1, <3>1, <3>2 DEF Unrivalled
  <2>2. offsets = At(offset)
    BY <2>1 DEF IInv, PositionInv, Counted
  <2>3. offsets.line = 1 + Newlines(0, offset) /\ offsets.char = Column(0, offset, 0)
    BY <2>2 DEF At
  <2>4. Newlines(0, e) = Newlines(0, offset) + Newlines(offset, e)
        /\ Newlines(0, offset) \in Nat
    BY <1>2, NewlinesAdd, StretchFinite
  <2>5. Column(offset, e, Column(0, offset, 0)) = Column(0, e, 0)
    BY <1>2, ColumnAdds
  <2>6. offsets.line + Newlines(offset, e) = 1 + Newlines(0, e)
        /\ Column(offset, e, offsets.char) = Column(0, e, 0)
    BY <1>6, <2>3, <2>4, <2>5
  <2> QED
    BY <1>5, <2>6 DEF At
<1> QED
  BY <1>7, <1>9, <1>11, <1>12 DEF IInv

(* A pattern that does not.                                                *)
LEMMA WorseLoop ==
  ASSUME TypeOK, LoopInv, TryPattern, ~Better(i)
  PROVE  TypeOK' /\ LoopInv'
<1>1. /\ pc = "scan" /\ i \in Pattern /\ i' = i + 1 /\ pc' = pc
      /\ UNCHANGED <<text, outcome, offset, longest, result, offsets>>
  BY DEF TryPattern
<1>2. i \in Nat \ {0} /\ longest \in Nat /\ Ends(i) \in Int /\ Ends(i) <= longest
  BY <1>1, EndsType, LexAssumption DEF Better, TypeOK, NoMatch, Pattern
<1>3. TypeOK'
  BY <1>1, LexAssumption DEF TypeOK, Pattern
<1>4. LoopInv'
  <2>1. \A p : Ends(p)' = Ends(p)
    BY <1>1 DEF Ends
  <2>2. Found' = Found
    BY <1>1 DEF Found
  <2>3. ~Found => \A p \in 1 .. i' - 1 : Ends(p) <= 0
    BY <1>1, <1>2 DEF LoopInv
  <2>4. Found => result.id \in 1 .. i' - 1 /\ \A p \in 1 .. i' - 1 : Ends(p) <= longest
    BY <1>1, <1>2 DEF LoopInv
  <2> QED
    BY <1>1, <2>1, <2>2, <2>3, <2>4 DEF LoopInv
<1> QED
  BY <1>3, <1>4

LEMMA WorseInv ==
  ASSUME IInv, TryPattern, ~Better(i)
  PROVE  IInv'
<1>1. /\ pc = "scan" /\ pc' = pc
      /\ UNCHANGED <<text, outcome, offset, longest, result, offsets>>
  BY DEF TryPattern
<1>2. TypeOK' /\ LoopInv'
  BY WorseLoop DEF IInv
<1>3. LongestFirst'
  BY <1>1 DEF LongestFirst
<1>4. LinesInv' /\ PositionInv'
  BY <1>1 DEF IInv, LinesInv, PositionInv, Counted, Found, At, Unrivalled,
              Newlines, Column, NewlinesAt, SinceNewline
<1> QED
  BY <1>2, <1>3, <1>4 DEF IInv

(* The call returns the match it kept, which is then the longest of all.   *)
LEMMA ReturnInv ==
  ASSUME IInv, Return
  PROVE  IInv'
<1>1. /\ pc = "scan" /\ i \notin Pattern /\ pc' = "idle" /\ offset' = Moved
      /\ UNCHANGED <<text, outcome, offsets, i, longest, result>>
  BY DEF Return, ReturnAt
<1>2. i = PatternCount + 1 /\ Pattern = 1 .. i - 1 /\ longest \in Nat /\ i \in Nat
  BY <1>1, LexAssumption DEF IInv, TypeOK, Pattern
<1>3. Found' = Found /\ offset' = Counted
  BY <1>1, <1>2 DEF Found, Moved, Counted, IInv, LoopInv
<1>4. TypeOK'
  BY <1>1 DEF IInv, TypeOK, Moved
<1>5. LoopInv'
  BY <1>1, <1>3 DEF IInv, LoopInv
<1>6. LongestFirst'
  <2> SUFFICES ASSUME Found, NEW p \in Pattern
               PROVE  /\ Ends(p) <= longest
                      /\ p = result.id => Ends(p) = longest
                      /\ p < result.id => Ends(p) < longest
    BY <1>1, <1>3 DEF LongestFirst, IInv, LoopInv, Ends
  <2>1. result.id \in 1 .. i - 1 /\ result.start = offset
    BY <1>1 DEF IInv, LoopInv
  <2>2. Ends(p) <= longest
    BY <1>1, <1>2 DEF IInv, LoopInv
  <2>3. p < result.id => Ends(p) < longest
    BY <1>1, <1>2, <2>1 DEF IInv, LoopInv
  <2>4. p = result.id => Ends(p) = longest
    BY <2>1 DEF IInv, LoopInv, Ends
  <2> QED
    BY <2>2, <2>3, <2>4
<1>7. Counted' = Counted /\ offset' = Counted
  BY <1>1, <1>3 DEF Counted
<1>8. LinesInv'
  BY <1>1, <1>7 DEF IInv, LinesInv, Newlines, NewlinesAt
<1>9. PositionInv'
  BY <1>1, <1>7 DEF IInv, PositionInv, At, Unrivalled, Newlines, Column,
                    NewlinesAt, SinceNewline
<1> QED
  BY <1>4, <1>5, <1>6, <1>8, <1>9 DEF IInv

LEMMA StutterInv ==
  ASSUME IInv, UNCHANGED lex
  PROVE  IInv'
BY DEF lex, IInv, TypeOK, LoopInv, LongestFirst, LinesInv, PositionInv, Found,
       Ends, At, Counted, Unrivalled, Newlines, Column, NewlinesAt, SinceNewline

(* The invariant is inductive.                                             *)
THEOREM LexInductive == Spec => []IInv
<1>1. IInv /\ [Next]_lex => IInv'
  <2> SUFFICES ASSUME IInv, [Next]_lex PROVE IInv'
    OBVIOUS
  <2>1. CASE Call
    BY <2>1, CallInv
  <2>2. CASE TryPattern
    BY <2>2, BetterInv, WorseInv
  <2>3. CASE Return
    BY <2>3, ReturnInv
  <2>4. CASE UNCHANGED lex
    BY <2>4, StutterInv
  <2> QED
    BY <2>1, <2>2, <2>3, <2>4 DEF Next
<1> QED
  BY <1>1, InitInv, PTL DEF Spec

(* Every variable of the lexer keeps its type: the offset and the token    *)
(* that regexx_lex_token returns lie inside the text.                      *)
THEOREM LexTypeCorrect == Spec => []TypeOK
<1>1. IInv => TypeOK
  BY DEF IInv
<1> QED
  BY <1>1, LexInductive, PTL

(* The token that regexx_lex_token returns is the longest of what the      *)
(* patterns match, and of several as long the one that was added first.    *)
THEOREM LexLongest == Spec => []LongestFirst
<1>1. IInv => LongestFirst
  BY DEF IInv
<1> QED
  BY <1>1, LexInductive, PTL

(* The line number regexx_lex_token keeps is never behind the text.        *)
THEOREM LexLinesKept == Spec => []LinesNeverLost
<1>1. IInv => LinesNeverLost
  BY DEF IInv, LinesInv, LinesNeverLost
<1> QED
  BY <1>1, LexInductive, PTL

(* If no two patterns match at one offset, the line and character numbers  *)
(* are those of the offset at which the next token starts.                 *)
THEOREM LexPositionsExact == Spec => []PositionsExact
<1>1. IInv => PositionsExact
  <2> SUFFICES ASSUME IInv, pc = "idle", Unrivalled
               PROVE  offsets = [line |-> 1 + Newlines(0, offset),
                                 char |-> Cardinality(SinceNewline(0, offset))]
    BY DEF PositionsExact
  <2>1. offset \in Nat
    BY DEF IInv, TypeOK
  <2>2. Cardinality(SinceNewline(0, offset)) \in Nat
    BY <2>1, StretchFinite
  <2>3. Column(0, offset, 0) = Cardinality(SinceNewline(0, offset))
    BY <2>2 DEF Column
  <2> QED
    BY <2>3 DEF IInv, PositionInv, Counted, At
<1> QED
  BY <1>1, LexInductive, PTL

(* Each call that returns a token moves the caller's offset from the       *)
(* token's first character to behind its last, and a call that returns     *)
(* none leaves it.                                                         *)
THEOREM LexTiles == Spec => Tiles
<1>1. IInv /\ [Next]_lex => [TilesStep]_lex
  <2> SUFFICES ASSUME IInv, Next, pc = "scan", pc' = "idle" PROVE TilesStep
    BY DEF TilesStep
  <2>1. Return
    BY DEF Next, Call, TryPattern
  <2> QED
    BY <2>1 DEF IInv, LoopInv, Found, Return, ReturnAt, Moved, TilesStep
<1> QED
  BY <1>1, LexInductive, PTL DEF Spec, Tiles
=============================================================================
