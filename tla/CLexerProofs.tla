---------------------------- MODULE CLexerProofs ----------------------------
(***************************************************************************)
(* Proofs about CLexer: clex_next on top of the lexer's loop, and the      *)
(* files that are pushed and popped between two tokens.                    *)
(***************************************************************************)
EXTENDS CLexer, RegexLexProofs, SequenceTheorems

-----------------------------------------------------------------------------
(***************************************************************************)
(* What RegexLexProofs says of the loop holds here only while a call is    *)
(* under way: afterwards the caller may turn to another file, to which the *)
(* last token does not belong, or step over a character that is no token.  *)
(***************************************************************************)
Position == [line: Nat \ {0}, char: Nat]

(* A file and a place in it.                                               *)
IsPlace(t, f, o, at) ==
  /\ t \in Seq(Char)
  /\ f \in Matchers(t)
  /\ o \in 0 .. Len(t)
  /\ at \in Position

FileType ==
  /\ IsPlace(text, outcome, offset, offsets)
  /\ pc \in {"idle", "scan"}
  /\ i \in 1 .. PatternCount + 1
  /\ pushes \in Nat

(* A suspended file can be gone on with.                                   *)
Suspended ==
  {f \in [text: Seq(Char), outcome: UNION {Matchers(t) : t \in Seq(Char)},
          offset: Nat, offsets: Position] :
     IsPlace(f.text, f.outcome, f.offset, f.offsets)}

SuspendedInv == files \in Seq(Suspended) /\ Len(files) <= pushes

ScanInv == pc = "scan" => TypeOK /\ LoopInv

(* No position that regexx_lex_push has saved is ever within reach of      *)
(* regexx_lex_pop.                                                         *)
NothingSaved == next = <<>>

EnteredType ==
  /\ entered \in [offset: Nat, line: Nat \ {0}]
  /\ entered.offset <= offset

LinesCounted == offsets.line = entered.line + Newlines(entered.offset, Counted)
LineInv == Unrivalled /\ NewlinesLexed => LinesCounted

ClexInv == FileType /\ SuspendedInv /\ ScanInv /\ NothingSaved /\ EnteredType /\ LineInv

-----------------------------------------------------------------------------
(* The newlines of two stretches of a text, one behind the other.          *)
LEMMA NewlinesFrom ==
  ASSUME NEW s \in Nat, NEW a \in Nat, NEW b \in Nat, s <= a, a <= b
  PROVE  Newlines(s, b) = Newlines(s, a) + Newlines(a, b)
<1>1. NewlinesAt(s, b) = NewlinesAt(s, a) \cup NewlinesAt(a, b)
  BY DEF NewlinesAt
<1>2. NewlinesAt(s, a) \cap NewlinesAt(a, b) = {}
  BY DEF NewlinesAt
<1>3. IsFiniteSet(NewlinesAt(s, a)) /\ IsFiniteSet(NewlinesAt(a, b))
  BY StretchFinite
<1>4. Cardinality(NewlinesAt(s, b))
        = Cardinality(NewlinesAt(s, a)) + Cardinality(NewlinesAt(a, b))
           - Cardinality(NewlinesAt(s, a) \cap NewlinesAt(a, b))
  BY <1>1, <1>3, FS_Union
<1>5. Newlines(s, a) \in Nat /\ Newlines(a, b) \in Nat
  BY StretchFinite
<1> QED
  BY <1>2, <1>4, <1>5, FS_EmptySet DEF Newlines

LEMMA ClexInit == LexInit => ClexInv
<1> SUFFICES ASSUME LexInit PROVE ClexInv
  OBVIOUS
<1>1. IInv /\ ~Found
  BY InitInv DEF LexInit, Init, Found, NoToken
<1>2. FileType
  BY <1>1 DEF IInv, TypeOK, FileType, IsPlace, Position, LexInit
<1>3. SuspendedInv
  BY DEF SuspendedInv, LexInit
<1>4. ScanInv /\ NothingSaved
  BY DEF ScanInv, NothingSaved, LexInit, Init
<1>5. EnteredType /\ LineInv
  BY EmptyStretch DEF EnteredType, LineInv, LinesCounted, LexInit, Init, Counted
<1> QED
  BY <1>2, <1>3, <1>4, <1>5 DEF ClexInv

(* A step inside clex_next leaves the suspended files alone.               *)
LEMMA FilesKept ==
  ASSUME ClexInv, UNCHANGED <<next, files, pushes, entered>>
  PROVE  SuspendedInv' /\ NothingSaved'
BY DEF ClexInv, SuspendedInv, NothingSaved

LEMMA CallStep ==
  ASSUME ClexInv, CallNext
  PROVE  ClexInv'
<1>1. /\ pc = "idle" /\ pc' = "scan" /\ i' = 1 /\ longest' = 0
      /\ result' = [NoToken EXCEPT !.line = offsets.line, !.char = offsets.char]
      /\ UNCHANGED <<text, outcome, offset, offsets, next, files, pushes, entered>>
  BY DEF CallNext, Call, clex
<1>2. FileType'
  BY <1>1, LexAssumption DEF ClexInv, FileType
<1>3. ~Found'
  BY <1>1 DEF Found, NoToken, REGEXX_NOT_FOUND
<1>4. TypeOK'
  <2>1. offsets.line \in Nat \ {0} /\ offsets.char \in Nat /\ Len(text) \in Nat
    BY DEF ClexInv, FileType, IsPlace, Position
  <2>2. result' = [id |-> 0, start |-> 0, length |-> 0,
                   line |-> offsets.line, char |-> offsets.char]
    BY <1>1 DEF NoToken, REGEXX_NOT_FOUND
  <2>3. 0 \in 0 .. PatternCount /\ 0 \in 0 .. Len(text)
    BY <2>1, LexAssumption
  <2>4. result' \in [id: 0 .. PatternCount, start: 0 .. Len(text),
                     length: 0 .. Len(text), line: Nat \ {0}, char: Nat]
    BY <2>1, <2>2, <2>3
  <2> QED
    BY <1>1, <1>2, <2>3, <2>4 DEF TypeOK, FileType, IsPlace, Position
<1>5. LoopInv'
  BY <1>1, <1>3 DEF LoopInv
<1>6. LineInv'
  <2>1. Counted = offset /\ Counted' = offset
    BY <1>1, <1>3 DEF Counted
  <2> QED
    BY <1>1, <2>1 DEF ClexInv, LineInv, LinesCounted, Unrivalled, NewlinesLexed, Newlines,
                      NewlinesAt
<1>7. EnteredType'
  BY <1>1 DEF ClexInv, EnteredType
<1> QED
  BY <1>1, <1>2, <1>4, <1>5, <1>6, <1>7, FilesKept DEF ClexInv, ScanInv

(* A pattern is tried.  Its newlines are counted if it is kept, which, if  *)
(* no other one matches here, happens at most once in a call.              *)
LEMMA TryStep ==
  ASSUME ClexInv, Try
  PROVE  ClexInv'
<1>1. /\ TryPattern /\ pc = "scan" /\ pc' = "scan" /\ i \in Pattern
      /\ UNCHANGED <<text, outcome, offset, next, files, pushes, entered>>
  BY DEF Try, TryPattern, clex
<1>2. TypeOK /\ LoopInv
  BY <1>1 DEF ClexInv, ScanInv
<1>3. TypeOK' /\ LoopInv'
  BY <1>1, <1>2, BetterLoop, WorseLoop
<1>4. FileType'
  BY <1>1, <1>3 DEF ClexInv, FileType, TypeOK, IsPlace, Position
<1>5. LineInv'
  <2> DEFINE s == entered.offset
  <2> SUFFICES ASSUME Unrivalled, NewlinesLexed
               PROVE  (offsets.line = entered.line + Newlines(entered.offset, Counted))'
    BY <1>1 DEF LineInv, LinesCounted, Unrivalled, NewlinesLexed
  <2>1. offsets.line = entered.line + Newlines(s, Counted)
    BY DEF ClexInv, LineInv, LinesCounted
  <2>0. s \in Nat /\ s <= offset /\ entered.line \in Nat /\ entered' = entered
    BY <1>1 DEF ClexInv, EnteredType
  <2>2. CASE ~Better(i)
    <3>1. UNCHANGED <<longest, result, offsets>>
      BY <1>1, <2>2 DEF TryPattern
    <3> QED
      BY <1>1, <2>0, <2>1, <3>1 DEF Counted, Found, Newlines, NewlinesAt
  <2>3. CASE Better(i)
    <3> DEFINE e == Ends(i)
    <3>1. /\ longest' = e
          /\ result' = [result EXCEPT !.id = i, !.start = offset, !.length = e - offset]
          /\ offsets'.line = offsets.line + Newlines(offset, e)
      BY <1>1, <2>3 DEF TryPattern, SetOffsets
    <3>2. /\ offset \in Nat /\ e \in Nat /\ offset <= e /\ longest < e /\ longest \in Nat
          /\ e # NoMatch /\ offset \in 0 .. Len(text) /\ i \in Nat \ {0}
      BY <1>1, <1>2, <2>3, EndsType, LexAssumption DEF Better, TypeOK, NoMatch, Pattern
    <3>3. ~Found
      <4> SUFFICES ASSUME Found PROVE FALSE
        OBVIOUS
      <4>1. result.id \in Pattern /\ result.id # i /\ outcome[result.id][offset] = longest
            /\ longest # NoMatch
        BY <1>1, <1>2, <3>2, LexAssumption DEF LoopInv, Pattern, NoMatch
      <4> QED
        BY <1>1, <3>2, <4>1 DEF Unrivalled, Ends
    <3>4. offsets.line = entered.line + Newlines(s, offset)
      BY <2>1, <3>3 DEF Counted
    <3>5. Newlines(s, e) = Newlines(s, offset) + Newlines(offset, e)
      BY <2>0, <3>2, NewlinesFrom
    <3>6. Newlines(s, offset) \in Nat /\ Newlines(offset, e) \in Nat
      BY <2>0, <3>2, StretchFinite
    <3>7. offsets'.line = entered.line + Newlines(s, e)
      <4> HIDE DEF e, s
      <4> QED
        BY <2>0, <3>1, <3>4, <3>5, <3>6
    <3>8. Counted' = e
      <4>1. result \in [id: 0 .. PatternCount, start: 0 .. Len(text),
                        length: 0 .. Len(text), line: Nat \ {0}, char: Nat]
        BY <1>2 DEF TypeOK
      <4> HIDE DEF e
      <4>2. result'.id = i
        BY <3>1, <4>1
      <4> QED
        BY <1>1, <3>1, <3>2, <4>2 DEF Counted, Found, REGEXX_NOT_FOUND
    <3> QED
      BY <1>1, <3>7, <3>8 DEF Newlines, NewlinesAt
  <2> QED
    BY <2>2, <2>3
<1>6. EnteredType'
  BY <1>1 DEF ClexInv, EnteredType
<1> QED
  BY <1>1, <1>3, <1>4, <1>5, <1>6, FilesKept DEF ClexInv, ScanInv

(* When a call returns, every pattern has been tried.                      *)
LEMMA ReturnFacts ==
  ASSUME ClexInv, NEW STATE o, ReturnAt(o), UNCHANGED pushes
  PROVE  /\ pc = "scan" /\ pc' = "idle" /\ offset' = o
         /\ UNCHANGED <<text, outcome, offsets, i, longest, result>>
         /\ offset \in 0 .. Len(text) /\ longest \in 0 .. Len(text) /\ Len(text) \in Nat
         /\ longest = 0 <=> ~Found
         /\ Found => result.start = offset /\ result.start + result.length = longest
         /\ ~Found => \A p \in Pattern : Ends(p) <= 0
         /\ o \in 0 .. Len(text) => FileType'
<1>1. /\ pc = "scan" /\ i \notin Pattern /\ pc' = "idle" /\ offset' = o
      /\ UNCHANGED <<text, outcome, offsets, i, longest, result>>
  BY DEF ReturnAt
<1>2. TypeOK /\ LoopInv
  BY <1>1 DEF ClexInv, ScanInv
<1>3. Pattern = 1 .. i - 1
  BY <1>1, <1>2, LexAssumption DEF TypeOK, Pattern
<1>4. offset \in 0 .. Len(text) /\ longest \in 0 .. Len(text) /\ Len(text) \in Nat
  BY <1>2 DEF TypeOK
<1>5. longest = 0 <=> ~Found
  BY <1>2 DEF LoopInv
<1>6. Found => result.start = offset /\ result.start + result.length = longest
  BY <1>1, <1>2 DEF LoopInv
<1>7. ~Found => \A p \in Pattern : Ends(p) <= 0
  BY <1>1, <1>2, <1>3 DEF LoopInv
<1>8. o \in 0 .. Len(text) => FileType'
  <2> SUFFICES ASSUME o \in 0 .. Len(text) PROVE FileType'
    OBVIOUS
  <2>1. IsPlace(text, outcome, offset, offsets)'
    BY <1>1 DEF ClexInv, FileType, IsPlace
  <2> QED
    BY <1>1, <2>1 DEF ClexInv, FileType
<1> QED
  BY <1>1, <1>4, <1>5, <1>6, <1>7, <1>8

LEMMA DeliverStep ==
  ASSUME ClexInv, Deliver
  PROVE  ClexInv' /\ offset' = offset + token'.length /\ offset' <= Len(text)
<1>1. ReturnAt(Moved) /\ Found /\ UNCHANGED <<next, files, pushes, entered>>
      /\ token' = Token(result.id, result.length, result.line, result.char)
  BY DEF Deliver, Return
<1>2. Moved = longest /\ longest \in 0 .. Len(text)
  BY <1>1, ReturnFacts DEF Moved
<1>3. FileType' /\ ScanInv'
  BY <1>1, <1>2, ReturnFacts DEF ScanInv, ClexInv
<1>4. Counted = longest /\ Counted' = longest
  BY <1>1, <1>2, ReturnFacts DEF Counted
<1>5. LineInv'
  BY <1>1, <1>4, ReturnFacts DEF ClexInv, LineInv, LinesCounted, Unrivalled, NewlinesLexed,
                                 Newlines, NewlinesAt
<1>6. offset' = offset + token'.length /\ offset' <= Len(text)
  BY <1>1, <1>2, ReturnFacts DEF Token, ClexInv, FileType, IsPlace
<1>7. EnteredType'
  <2>1. offset \in Nat /\ token'.length \in Nat
    BY <1>1, <1>2, ReturnFacts DEF Token, ClexInv, ScanInv, TypeOK
  <2>2. offset <= offset'
    BY <1>6, <2>1
  <2> QED
    BY <1>1, <2>1, <2>2, <1>6 DEF ClexInv, EnteredType
<1> QED
  BY <1>1, <1>3, <1>5, <1>6, <1>7, FilesKept DEF ClexInv

LEMMA PretendStep ==
  ASSUME ClexInv, PretendNewline
  PROVE  ClexInv' /\ token'.id = "T_NEWLINE" /\ offset = Len(text) /\ offset' = offset
<1>1. ReturnAt(Moved) /\ ~Found /\ offset >= Len(text) /\ UNCHANGED <<next, files, pushes, entered>>
      /\ token'.id = "T_NEWLINE"
  BY DEF PretendNewline, Return, Token
<1>2. Moved = offset /\ offset \in 0 .. Len(text) /\ offset = Len(text)
  BY <1>1, ReturnFacts DEF Moved
<1>3. FileType' /\ ScanInv'
  BY <1>1, <1>2, ReturnFacts DEF ScanInv, ClexInv
<1>4. Counted = offset /\ Counted' = offset
  BY <1>1, <1>2, ReturnFacts DEF Counted
<1>5. LineInv'
  BY <1>1, <1>4, ReturnFacts DEF ClexInv, LineInv, LinesCounted, Unrivalled, NewlinesLexed,
                                 Newlines, NewlinesAt
<1>6. offset' = offset
  BY <1>1, <1>2, ReturnFacts
<1>7. EnteredType'
  BY <1>1, <1>6 DEF ClexInv, EnteredType
<1> QED
  BY <1>1, <1>2, <1>3, <1>5, <1>6, <1>7, FilesKept DEF ClexInv

(* Where every newline is matched, the character stepped over is none.     *)
LEMMA BadCharStep ==
  ASSUME ClexInv, BadChar
  PROVE  ClexInv' /\ offset' = offset + token'.length /\ offset' <= Len(text)
<1>1. ReturnAt(offset + 1) /\ ~Found /\ offset < Len(text) /\ UNCHANGED <<next, files, pushes, entered>>
      /\ token'.length = 1
  BY DEF BadChar, Skip, Token
<1>2. /\ offset \in Nat /\ offset + 1 \in 0 .. Len(text) /\ offset' = offset + 1
      /\ offset \in 0 .. Len(text) - 1 /\ Len(text) \in Nat
  BY <1>1, ReturnFacts
<1>3. FileType' /\ ScanInv'
  BY <1>1, <1>2, ReturnFacts DEF ScanInv
<1>4. LineInv'
  <2> DEFINE s == entered.offset
  <2> SUFFICES ASSUME Unrivalled, NewlinesLexed
               PROVE  (offsets.line = entered.line + Newlines(entered.offset, Counted))'
    BY <1>1, ReturnFacts DEF LineInv, LinesCounted, Unrivalled, NewlinesLexed
  <2>1. offsets.line = entered.line + Newlines(s, offset)
    BY <1>1, ReturnFacts DEF ClexInv, LineInv, LinesCounted, Counted
  <2>0. s \in Nat /\ s <= offset /\ entered.line \in Nat /\ entered' = entered
    BY <1>1 DEF ClexInv, EnteredType
  <2>2. text[offset + 1] # Newline
    <3> SUFFICES ASSUME text[offset + 1] = Newline PROVE FALSE
      OBVIOUS
    <3>1. PICK p \in Pattern : outcome[p][offset] > offset
      BY <1>2 DEF NewlinesLexed
    <3>2. outcome[p][offset] <= 0
      BY <1>1, ReturnFacts DEF Ends
    <3>3. outcome[p][offset] \in Int
      BY <1>1, ReturnFacts, EndsType DEF ClexInv, ScanInv, Ends, NoMatch
    <3> QED
      BY <1>2, <3>1, <3>2, <3>3
  <2>3. NewlinesAt(offset, offset + 1) = {}
    BY <1>2, <2>2 DEF NewlinesAt
  <2>4. Newlines(offset, offset + 1) = 0
    BY <2>3, FS_EmptySet DEF Newlines
  <2>5. Newlines(s, offset + 1) = Newlines(s, offset)
    <3>1. Newlines(s, offset + 1) = Newlines(s, offset) + Newlines(offset, offset + 1)
      BY <1>2, <2>0, NewlinesFrom
    <3>2. Newlines(s, offset) \in Nat
      BY <1>2, <2>0, StretchFinite
    <3> QED
      BY <2>4, <3>1, <3>2
  <2>6. Counted' = offset + 1
    BY <1>1, <1>2, ReturnFacts DEF Counted
  <2>7. Newlines(entered.offset, Counted)' = Newlines(s, offset + 1)
    BY <1>1, <2>0, <2>6, ReturnFacts DEF Newlines, NewlinesAt
  <2> QED
    BY <1>1, <2>0, <2>1, <2>5, <2>7, ReturnFacts
<1>5. EnteredType'
  BY <1>1, <1>2 DEF ClexInv, EnteredType
<1> QED
  BY <1>1, <1>2, <1>3, <1>4, <1>5, FilesKept DEF ClexInv

-----------------------------------------------------------------------------
(* A file is pushed: it is suspended at a place in it, and the new one     *)
(* begins at its first line.                                               *)
LEMMA PushStep ==
  ASSUME ClexInv, Push
  PROVE  ClexInv'
<1> DEFINE f == [text |-> text, outcome |-> outcome, offset |-> offset, offsets |-> offsets]
<1>1. /\ pc = "idle" /\ pc' = pc /\ pushes' = pushes + 1 /\ files' = <<f>> \o files
      /\ offset' = 0 /\ offsets' = [line |-> 1, char |-> 0] /\ next' = <<>>
      /\ entered' = [offset |-> 0, line |-> 1]
      /\ UNCHANGED <<i, longest, result>>
  BY DEF Push, PushedPosition
<1>2. text' \in Texts /\ outcome' \in Matchers(text')
  BY DEF Push
<1>3. text' \in Seq(Char) /\ Len(text') \in Nat
  BY <1>2, LexAssumption
<1>4. FileType'
  BY <1>1, <1>2, <1>3 DEF ClexInv, FileType, IsPlace, Position
<1>5. SuspendedInv'
  <2>1. f \in Suspended
    BY DEF ClexInv, FileType, IsPlace, Suspended
  <2>2. <<f>> \in Seq(Suspended) /\ Len(<<f>>) = 1
    BY <2>1
  <2>3. files \in Seq(Suspended) /\ Len(files) <= pushes /\ pushes \in Nat
    BY DEF ClexInv, SuspendedInv, FileType
  <2> HIDE DEF f
  <2>4. <<f>> \o files \in Seq(Suspended) /\ Len(<<f>> \o files) = 1 + Len(files)
    BY <2>2, <2>3, ConcatProperties
  <2> QED
    BY <1>1, <2>3, <2>4 DEF SuspendedInv
<1>6. ScanInv' /\ NothingSaved'
  BY <1>1 DEF ScanInv, NothingSaved
<1>7. LineInv'
  <2>1. Counted' = 0
    BY <1>1 DEF Counted
  <2>2. NewlinesAt(0, 0)' = {}
    BY DEF NewlinesAt
  <2>3. Newlines(entered.offset, Counted)' = 0
    BY <1>1, <2>1, <2>2, FS_EmptySet DEF Newlines
  <2> QED
    BY <1>1, <2>3 DEF LineInv, LinesCounted
<1>8. EnteredType'
  BY <1>1 DEF EnteredType
<1> QED
  BY <1>4, <1>5, <1>6, <1>7, <1>8 DEF ClexInv

(* A file is popped.  The position of the file that was pushed last is     *)
(* kept, because no other one can be reached.                              *)
LEMMA PopStep ==
  ASSUME ClexInv, Pop
  PROVE  ClexInv' /\ offsets' = offsets
<1> DEFINE f == Head(files)
<1>1. /\ pc = "idle" /\ pc' = pc /\ files # <<>> /\ files' = Tail(files)
      /\ text' = f.text /\ outcome' = f.outcome /\ offset' = f.offset
      /\ entered' = [offset |-> f.offset, line |-> offsets.line]
      /\ UNCHANGED <<i, longest, result, next, pushes>>
  BY DEF Pop
<1>2. offsets' = offsets
  BY DEF Pop, ClexInv, NothingSaved
<1>3. files \in Seq(Suspended) /\ Len(files) <= pushes /\ pushes \in Nat
  BY DEF ClexInv, SuspendedInv, FileType
<1>4. f \in Suspended /\ Tail(files) \in Seq(Suspended) /\ Len(Tail(files)) = Len(files) - 1
      /\ Len(files) \in Nat
  BY <1>1, <1>3, HeadTailProperties
<1>5. FileType'
  BY <1>1, <1>2, <1>4 DEF ClexInv, FileType, IsPlace, Suspended
<1>6. SuspendedInv'
  BY <1>1, <1>3, <1>4 DEF SuspendedInv
<1>7. ScanInv' /\ NothingSaved'
  BY <1>1 DEF ScanInv, NothingSaved, ClexInv
<1>8. f.offset \in Nat /\ offsets.line \in Nat \ {0}
  BY <1>4 DEF Suspended, ClexInv, FileType, IsPlace, Position
<1>9. EnteredType'
  BY <1>1, <1>8 DEF EnteredType
<1>10. LineInv'
  <2>1. Counted' = f.offset
    BY <1>1 DEF Counted
  <2>2. NewlinesAt(entered.offset, Counted)' = {}
    BY <1>1, <1>8, <2>1 DEF NewlinesAt
  <2>3. Newlines(entered.offset, Counted)' = 0
    BY <2>2, FS_EmptySet DEF Newlines
  <2> QED
    BY <1>1, <1>2, <1>8, <2>3 DEF LineInv, LinesCounted
<1> QED
  BY <1>2, <1>5, <1>6, <1>7, <1>9, <1>10 DEF ClexInv

LEMMA ClexStutter ==
  ASSUME ClexInv, UNCHANGED <<lex, clex>>
  PROVE  ClexInv'
BY DEF lex, clex, ClexInv, FileType, SuspendedInv, ScanInv, NothingSaved, EnteredType,
       LineInv, LinesCounted, TypeOK,
       LoopInv, Found, Ends, Counted, Unrivalled, NewlinesLexed, Newlines, NewlinesAt

(* The invariant is inductive.                                             *)
THEOREM ClexInductive == LexSpec => []ClexInv
<1>1. ClexInv /\ [LexNext]_<<lex, clex>> => ClexInv'
  <2> SUFFICES ASSUME ClexInv, [LexNext]_<<lex, clex>> PROVE ClexInv'
    OBVIOUS
  <2>1. CASE ClexNext
    BY <2>1, CallStep, TryStep, DeliverStep, PretendStep, BadCharStep DEF ClexNext
  <2>2. CASE Push \/ Pop
    BY <2>2, PushStep, PopStep
  <2>3. CASE UNCHANGED <<lex, clex>>
    BY <2>3, ClexStutter
  <2> QED
    BY <2>1, <2>2, <2>3 DEF LexNext
<1> QED
  BY <1>1, ClexInit, PTL DEF LexSpec

(* clex_next leaves no character of a file out and returns none twice, for *)
(* any table of tokens and wherever other files come in between.           *)
THEOREM EachCharacterOnce == LexSpec => EveryCharacterOnce
<1>1. ClexInv /\ [LexNext]_<<lex, clex>> => [EveryCharacterOnceStep]_<<lex, clex>>
  <2> SUFFICES ASSUME ClexInv, LexNext, pc = "scan", pc' = "idle"
               PROVE  EveryCharacterOnceStep
    BY DEF EveryCharacterOnceStep
  <2>1. Deliver \/ PretendNewline \/ BadChar
    BY DEF LexNext, ClexNext, CallNext, Call, Try, TryPattern, Push, Pop
  <2> QED
    BY <2>1, DeliverStep, PretendStep, BadCharStep DEF EveryCharacterOnceStep
<1> QED
  BY <1>1, ClexInductive, PTL DEF LexSpec, EveryCharacterOnce

(* From the push or the pop that turned to a file on, at any depth and     *)
(* after any pushes and pops before, its newlines are counted exactly,     *)
(* around characters that are no token too, if every newline is in a token *)
(* of some pattern and no two patterns match at one place.                 *)
THEOREM LinesOfEntered == LexSpec => []LinesSinceEntered
<1>1. ClexInv => LinesSinceEntered
  BY DEF ClexInv, LineInv, LinesCounted, LinesSinceEntered, Counted
<1> QED
  BY <1>1, ClexInductive, PTL

(* regexx_lex_pop restores no position, whatever was pushed before: it     *)
(* leaves line and column as the included file has made them, although     *)
(* regexx.h:128 says that it restores the context that was saved.          *)
PopChangesNothing == [][Pop => offsets' = offsets]_<<lex, clex>>
THEOREM PopRestoresNothing == LexSpec => PopChangesNothing
<1>1. ClexInv /\ [LexNext]_<<lex, clex>> => [Pop => offsets' = offsets]_<<lex, clex>>
  BY PopStep
<1> QED
  BY <1>1, ClexInductive, PTL DEF LexSpec, PopChangesNothing
=============================================================================
