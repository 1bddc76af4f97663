--------------------------- MODULE CPreprocProofs ---------------------------
(***************************************************************************)
(* What the calls of c-preproc.c that are in progress look like, and what  *)
(* they make of the lines they read, for every set of lines and files of   *)
(* every length.                                                           *)
(***************************************************************************)
EXTENDS CPreprocLive, SequenceTheorems, InductionLemmas

(* The calls that a section can stand for: either half of _process_IFDEF,  *)
(* read or skipped, and a section inside of a skipped one, in its first or *)
(* its second half.                                                        *)
Read(half) == Parse(half = "first", half = "second", half)
Skipped(half) == Skip(half = "second", FALSE, half)
Inner(seen_else) == Skip(seen_else, TRUE, "nested")
Half == {"first", "second"}
Call == {Read(half) : half \in Half} \cup {Skipped(half) : half \in Half}
          \cup {Inner(seen) : seen \in BOOLEAN}
FileCall == Parse(FALSE, FALSE, "file")

(* preproc_parse is below all of them.  A skipped section has only calls   *)
(* of _process_SKIP by itself above it, and those stand nowhere else.      *)
Calls(fs) ==
  /\ fs \in Seq(Call \cup {FileCall})
  /\ fs # <<>>
  /\ \A i \in DOMAIN fs : IF i = 1 THEN fs[i] = FileCall ELSE fs[i] \in Call
  /\ \A i \in DOMAIN fs :
       i > 1 => (fs[i].caller = "nested" <=> fs[i - 1].proc = "skip")

FramesInv ==
  /\ pc # "done" => Calls(frames)
  /\ ElseAnswered

-----------------------------------------------------------------------------
(* The two ends of a stack.                                                *)
LEMMA Ends ==
  ASSUME NEW S, NEW fs \in Seq(S), fs # <<>>
  PROVE  /\ Len(fs) \in Nat \ {0} /\ Len(fs) \in DOMAIN fs /\ DOMAIN fs = 1 .. Len(fs)
         /\ Last(fs) = fs[Len(fs)] /\ Last(fs) \in S
         /\ Front(fs) \in Seq(S) /\ Len(Front(fs)) = Len(fs) - 1
         /\ DOMAIN Front(fs) = 1 .. Len(fs) - 1
         /\ \A i \in 1 .. Len(fs) - 1 : Front(fs)[i] = fs[i]
<1>1. Len(fs) \in Nat \ {0} /\ DOMAIN fs = 1 .. Len(fs)
  BY EmptySeq, LenProperties
<1>2. \A i \in 1 .. Len(fs) : fs[i] \in S
  BY ElementOfSeq
<1>3. /\ Front(fs) \in Seq(S) /\ Len(Front(fs)) = Len(fs) - 1
      /\ \A i \in 1 .. Len(fs) - 1 : Front(fs)[i] = fs[i]
  BY <1>1, <1>2 DEF Front
<1> QED
  BY <1>1, <1>2, <1>3, LenProperties DEF Last

(* What a call's caller says of it.                                        *)
LEMMA CallFields ==
  /\ \A half \in Half : /\ Read(half) \in Call /\ Read(half).proc = "parse"
                        /\ Read(half).caller = half
                        /\ Skipped(half) \in Call /\ Skipped(half).proc = "skip"
                        /\ Skipped(half).caller = half
  /\ \A seen \in BOOLEAN : /\ Inner(seen) \in Call /\ Inner(seen).proc = "skip"
                           /\ Inner(seen).caller = "nested"
  /\ FileCall.proc = "parse" /\ FileCall.caller = "file"
  /\ \A c \in Call : c.caller \in Half \cup {"nested"}
<1>1. ASSUME NEW half \in Half
      PROVE  /\ Read(half) \in Call /\ Read(half).proc = "parse" /\ Read(half).caller = half
             /\ Skipped(half) \in Call /\ Skipped(half).proc = "skip"
             /\ Skipped(half).caller = half
  <2>1. Read(half) \in Call /\ Skipped(half) \in Call
    BY DEF Call
  <2> QED
    BY <2>1 DEF Read, Skipped, Parse, Skip
<1>2. ASSUME NEW seen \in BOOLEAN
      PROVE  /\ Inner(seen) \in Call /\ Inner(seen).proc = "skip"
             /\ Inner(seen).caller = "nested"
  <2>1. Inner(seen) \in Call
    BY DEF Call
  <2> QED
    BY <2>1 DEF Inner, Skip
<1>3. FileCall.proc = "parse" /\ FileCall.caller = "file"
  BY DEF FileCall, Parse
<1>4. \A c \in Call : c.caller \in Half \cup {"nested"}
  BY <1>1, <1>2 DEF Call
<1> QED
  BY <1>1, <1>2, <1>3, <1>4

(* A call is made: of _process_SKIP by itself if it skips already.         *)
LEMMA Push ==
  ASSUME NEW fs, Calls(fs), NEW c \in Call,
         c.caller = "nested" <=> Last(fs).proc = "skip"
  PROVE  Calls(Append(fs, c))
<1> DEFINE gs == Append(fs, c)
<1>1. /\ Len(fs) \in Nat \ {0} /\ DOMAIN fs = 1 .. Len(fs) /\ Last(fs) = fs[Len(fs)]
  BY Ends DEF Calls
<1>2. /\ gs \in Seq(Call \cup {FileCall}) /\ DOMAIN gs = 1 .. Len(fs) + 1
      /\ \A i \in 1 .. Len(fs) : gs[i] = fs[i]
      /\ gs[Len(fs) + 1] = c
  <2>1. fs \in Seq(Call \cup {FileCall}) /\ c \in Call \cup {FileCall}
    BY DEF Calls
  <2> QED
    BY <2>1, AppendProperties, LenProperties
<1>3. gs # <<>>
  BY <1>1, <1>2
<1> HIDE DEF gs
<1>4. ASSUME NEW i \in DOMAIN gs
      PROVE  /\ IF i = 1 THEN gs[i] = FileCall ELSE gs[i] \in Call
             /\ i > 1 => (gs[i].caller = "nested" <=> gs[i - 1].proc = "skip")
  <2>1. CASE i = Len(fs) + 1
    BY <1>1, <1>2, <2>1
  <2>2. CASE i # Len(fs) + 1
    <3>1. i \in 1 .. Len(fs) /\ (i > 1 => i - 1 \in 1 .. Len(fs))
      BY <1>1, <1>2, <2>2
    <3> QED
      BY <1>1, <1>2, <3>1 DEF Calls
  <2> QED
    BY <2>1, <2>2
<1>5. Calls(gs)
  BY <1>2, <1>3, <1>4 DEF Calls
<1> QED
  BY <1>5 DEF gs

(* A call returns.                                                         *)
LEMMA Pop ==
  ASSUME NEW fs, Calls(fs), Last(fs).caller # "file"
  PROVE  Calls(Front(fs))
<1> DEFINE gs == Front(fs)
<1>1. /\ Len(fs) \in Nat \ {0} /\ DOMAIN fs = 1 .. Len(fs) /\ Last(fs) = fs[Len(fs)]
      /\ gs \in Seq(Call \cup {FileCall}) /\ Len(gs) = Len(fs) - 1
      /\ DOMAIN gs = 1 .. Len(fs) - 1 /\ \A i \in 1 .. Len(fs) - 1 : gs[i] = fs[i]
  BY Ends DEF Calls
<1> HIDE DEF gs
<1>2. Len(fs) # 1
  BY <1>1, CallFields DEF Calls
<1>3. gs # <<>>
  BY <1>1, <1>2, EmptySeq
<1>4. ASSUME NEW i \in DOMAIN gs
      PROVE  /\ IF i = 1 THEN gs[i] = FileCall ELSE gs[i] \in Call
             /\ i > 1 => (gs[i].caller = "nested" <=> gs[i - 1].proc = "skip")
  <2>1. i \in DOMAIN fs /\ gs[i] = fs[i] /\ (i > 1 => gs[i - 1] = fs[i - 1])
    BY <1>1
  <2> QED
    BY <2>1 DEF Calls
<1>5. Calls(gs)
  BY <1>1, <1>3, <1>4 DEF Calls
<1> QED
  BY <1>5 DEF gs

(* A call gives way to another with the same place to return to, or one of *)
(* _process_IFDEF's calls to the other.                                    *)
LEMMA Swap ==
  ASSUME NEW fs, Calls(fs), Last(fs).caller # "file", NEW c \in Call,
         c.caller = "nested" <=> Last(fs).caller = "nested"
  PROVE  Calls([fs EXCEPT ![Len(fs)] = c])
<1> DEFINE gs == [fs EXCEPT ![Len(fs)] = c]
           n == Len(fs)
<1>1. n \in Nat \ {0} /\ DOMAIN fs = 1 .. n /\ Last(fs) = fs[n] /\ n \in DOMAIN fs
  BY Ends DEF Calls
<1>2. n # 1
  BY <1>1, CallFields DEF Calls
<1>3. /\ gs \in Seq(Call \cup {FileCall}) /\ DOMAIN gs = 1 .. n
      /\ gs[n] = c /\ \A i \in 1 .. n - 1 : gs[i] = fs[i]
  <2>1. fs \in Seq(Call \cup {FileCall}) /\ c \in Call \cup {FileCall}
    BY DEF Calls
  <2> QED
    BY <1>1, <2>1, ExceptSeq
<1>4. gs # <<>>
  BY <1>1, <1>3
<1> HIDE DEF gs, n
<1>5. ASSUME NEW i \in DOMAIN gs
      PROVE  /\ IF i = 1 THEN gs[i] = FileCall ELSE gs[i] \in Call
             /\ i > 1 => (gs[i].caller = "nested" <=> gs[i - 1].proc = "skip")
  <2>1. CASE i = n
    BY <1>1, <1>2, <1>3, <2>1 DEF Calls
  <2>2. CASE i # n
    BY <1>1, <1>3, <2>2 DEF Calls
  <2> QED
    BY <2>1, <2>2
<1>6. Calls(gs)
  BY <1>3, <1>4, <1>5 DEF Calls
<1> QED
  BY <1>6 DEF gs, n

(* Which calls the guards of #else let through.                            *)
LEMMA TopCall ==
  ASSUME NEW fs, Calls(fs)
  PROVE  /\ Last(fs) \in Call \cup {FileCall}
         /\ Last(fs).proc = "parse" /\ Last(fs).is_if => Last(fs) = Read("first")
         /\ Last(fs).proc = "skip" =>
              /\ Last(fs) \in Call
              /\ ~Last(fs).has_seen_else /\ ~Last(fs).is_everything =>
                   Last(fs) = Skipped("first")
              /\ Last(fs).is_everything => \E seen \in BOOLEAN : Last(fs) = Inner(seen)
<1>1. Last(fs) \in Call \cup {FileCall}
  BY Ends DEF Calls
<1> DEFINE c == Last(fs)
<1> HIDE DEF c
<1>2. CASE c = FileCall
  BY <1>2 DEF FileCall, Parse, c
<1>3. ASSUME NEW half \in Half, c = Read(half)
      PROVE  c.proc = "parse" /\ (c.is_if => c = Read("first"))
  BY <1>3 DEF Half, Read, Parse
<1>4. ASSUME NEW half \in Half, c = Skipped(half)
      PROVE  /\ c.proc = "skip" /\ c \in Call /\ ~c.is_everything
             /\ ~c.has_seen_else => c = Skipped("first")
  <2>1. c.proc = "skip" /\ c \in Call
    BY <1>4, CallFields
  <2>2. ~c.is_everything /\ (c.has_seen_else <=> half = "second")
    BY <1>4 DEF Skipped, Skip
  <2> QED
    BY <1>4, <2>1, <2>2 DEF Half
<1>5. ASSUME NEW seen \in BOOLEAN, c = Inner(seen)
      PROVE  c.proc = "skip" /\ c \in Call /\ c.is_everything
  <2>1. c.proc = "skip" /\ c \in Call
    BY <1>5, CallFields
  <2>2. c.is_everything
    BY <1>5 DEF Inner, Skip
  <2> QED
    BY <2>1, <2>2
<1>6. \/ c = FileCall
      \/ \E half \in Half : c = Read(half)
      \/ \E half \in Half : c = Skipped(half)
      \/ \E seen \in BOOLEAN : c = Inner(seen)
  BY <1>1 DEF Call, c
<1> QED
  BY <1>1, <1>2, <1>3, <1>4, <1>5, <1>6 DEF c

(* The code's names for the calls.                                         *)
LEMMA CallNames ==
  /\ Parse(TRUE, FALSE, "first") = Read("first")
  /\ Parse(FALSE, TRUE, "second") = Read("second")
  /\ Skip(FALSE, FALSE, "first") = Skipped("first")
  /\ Skip(TRUE, FALSE, "second") = Skipped("second")
  /\ Skip(FALSE, TRUE, "nested") = Inner(FALSE)
BY DEF Read, Skipped, Inner

(* The #else of a section inside of a skipped one.                         *)
LEMMA SkipElseSeen ==
  ASSUME NEW before, NEW after, NEW is_everything, NEW caller, NEW c, NEW d,
         c = Skip(before, is_everything, caller), d = [c EXCEPT !.has_seen_else = after]
  PROVE  d = Skip(after, is_everything, caller)
BY DEF Skip

(* The #else of a section inside of a skipped one is only remembered.      *)
LEMMA ElseRemembered ==
  ASSUME Calls(frames), Top.proc = "skip", Top.is_everything
  PROVE  /\ [frames EXCEPT ![Len(frames)].has_seen_else = TRUE]
              = [frames EXCEPT ![Len(frames)] = Inner(TRUE)]
         /\ Top.caller = "nested"
<1>1. PICK seen \in BOOLEAN : Top = Inner(seen)
  BY TopCall DEF Top
<1>2. [Inner(seen) EXCEPT !.has_seen_else = TRUE] = Inner(TRUE)
  <2> DEFINE yes == TRUE
             c == Inner(seen)
             d == [c EXCEPT !.has_seen_else = yes]
  <2>1. c = Skip(seen, yes, "nested") /\ d = [c EXCEPT !.has_seen_else = yes]
    BY DEF Inner
  <2> HIDE DEF c, d, yes
  <2>2. d = Skip(yes, yes, "nested")
    BY <2>1, SkipElseSeen
  <2> QED
    BY <2>2 DEF Inner, c, d, yes
<1>3. frames[Len(frames)] = Inner(seen)
  BY <1>1, Ends DEF Calls, Top
<1>4. Top.caller = "nested"
  BY <1>1, CallFields
<1> QED
  BY <1>2, <1>3, <1>4

(* A step that makes no call and does not return.                          *)
LEMMA StaysIn ==
  ASSUME Calls(frames), frames' = frames, pc' # "return"
  PROVE  FramesInv'
BY DEF FramesInv, ElseAnswered

-----------------------------------------------------------------------------
(* Reading a line, or a token, keeps the calls as they should be.          *)
LEMMA ReadStep ==
  ASSUME FramesInv,
         \/ AddLeading \/ BeginText \/ AddText
         \/ NakedPound \/ Warn \/ ProcessDefine \/ ProcessIfdef
         \/ ParseElse \/ ParseEndif \/ ParseFails
  PROVE  FramesInv'
<1>1. Calls(frames) /\ pc # "return"
  BY DEF FramesInv, AddLeading, BeginText, AddText, NakedPound, Warn, ProcessDefine,
         ProcessIfdef, ParseElse, ParseEndif, ParseFails, Directive, Parsing
<1>2. CASE AddLeading \/ BeginText \/ AddText \/ NakedPound \/ Warn \/ ParseFails
  <2>1. frames' = frames /\ pc' # "return"
    BY <1>1, <1>2 DEF AddLeading, BeginText, AddText, NakedPound, Warn, ParseFails,
                      LineDone, Fail, InText
  <2> QED
    BY <1>1, <2>1, StaysIn
<1>3. CASE ProcessDefine
  <2>1. CASE Fail
    BY <1>1, <2>1, StaysIn DEF Fail
  <2>2. CASE ~Fail
    <3>1. frames' = frames /\ (pc' = pc \/ pc' = "undefined")
      BY <1>3, <2>2 DEF ProcessDefine
    <3> QED
      BY <1>1, <3>1, StaysIn
  <2> QED
    BY <2>1, <2>2
<1>4. CASE ProcessIfdef
  <2>1. CASE Fail
    BY <1>1, <2>1, StaysIn DEF Fail
  <2>2. CASE ~Fail
    <3>1. PICK c \in {Read("first"), Skipped("first")} : frames' = Append(frames, c)
      BY <1>4, <2>2, CallNames DEF ProcessIfdef
    <3>2. pc' = pc /\ Top.proc = "parse"
      BY <1>4, <2>2 DEF ProcessIfdef, Directive, Parsing, Fail
    <3>3. c \in Call /\ c.caller = "first"
      BY <3>1, CallFields DEF Half
    <3>4. Calls(frames')
      BY <1>1, <3>1, <3>2, <3>3, Push DEF Top
    <3> QED
      BY <1>1, <3>2, <3>4 DEF FramesInv, ElseAnswered
  <2> QED
    BY <2>1, <2>2
<1>5. CASE ParseElse
  <2>1. CASE Fail
    BY <1>1, <2>1, StaysIn DEF Fail
  <2>2. CASE ~Fail
    <3>1. /\ frames' = frames /\ pc' = "return" /\ Top.proc = "parse" /\ Top.is_if
      BY <1>5, <2>2 DEF ParseElse, Directive, Parsing, Return
    <3>2. Top.caller = "first"
      BY <1>1, <3>1, TopCall, CallFields DEF Top, Half
    <3> QED
      BY <1>1, <3>1, <3>2 DEF FramesInv, ElseAnswered, Top
  <2> QED
    BY <2>1, <2>2
<1>6. CASE ParseEndif
  <2>1. CASE Fail
    BY <1>1, <2>1, StaysIn DEF Fail
  <2>2. CASE ~Fail
    <3>1. frames' = frames /\ pc' = "return" /\ value' = "0"
      BY <1>6, <2>2 DEF ParseEndif, Return
    <3> QED
      BY <1>1, <3>1 DEF FramesInv, ElseAnswered
  <2> QED
    BY <2>1, <2>2
<1> QED
  BY <1>2, <1>3, <1>4, <1>5, <1>6

(* Skipping a line keeps the calls as they should be.                      *)
LEMMA SkipStep ==
  ASSUME FramesInv, SkipLine \/ SkipNested \/ SkipElse \/ SkipEndif \/ SkipFails
  PROVE  FramesInv'
<1>1. Calls(frames) /\ pc = "loop" /\ Top.proc = "skip"
  BY DEF FramesInv, SkipLine, SkipNested, SkipElse, SkipEndif, SkipFails,
         SkipDirective, Skipping
<1>2. CASE SkipLine \/ SkipFails
  BY <1>1, <1>2, StaysIn DEF SkipLine, SkipFails, LineDone, Fail
<1>3. CASE SkipNested
  <2>1. frames' = Append(frames, Inner(FALSE)) /\ pc' = "loop"
    BY <1>1, <1>3, CallNames DEF SkipNested, Nested
  <2>2. Calls(frames')
    BY <1>1, <2>1, CallFields, Push DEF Top
  <2> QED
    BY <2>1, <2>2 DEF FramesInv, ElseAnswered
<1>4. CASE SkipElse
  <2>1. CASE Fail
    BY <1>1, <2>1, StaysIn DEF Fail
  <2>2. CASE /\ ~Top.has_seen_else /\ ~Top.is_everything
             /\ pc' = "return" /\ frames' = frames
    <3>1. Top.caller = "first"
      BY <1>1, <2>2, TopCall, CallFields DEF Top, Half
    <3> QED
      BY <1>1, <2>2, <3>1 DEF FramesInv, ElseAnswered, Top
  <2>3. CASE /\ Top.is_everything /\ pc' = pc
             /\ frames' = [frames EXCEPT ![Len(frames)].has_seen_else = TRUE]
    <3>1. frames' = [frames EXCEPT ![Len(frames)] = Inner(TRUE)] /\ Top.caller = "nested"
      BY <1>1, <2>3, ElseRemembered
    <3>2. Calls(frames')
      BY <1>1, <3>1, CallFields, Swap DEF Top
    <3> QED
      BY <1>1, <2>3, <3>2 DEF FramesInv, ElseAnswered
  <2> QED
    BY <1>4, <2>1, <2>2, <2>3 DEF SkipElse, Return
<1>5. CASE SkipEndif
  <2>1. frames' = frames /\ pc' = "return" /\ value' = "0"
    BY <1>5 DEF SkipEndif, Return
  <2> QED
    BY <1>1, <2>1 DEF FramesInv, ElseAnswered
<1> QED
  BY <1>2, <1>3, <1>4, <1>5

(* A call that returns leaves the calls as they should be.                 *)
LEMMA ReturnStep ==
  ASSUME FramesInv, EndOfFile \/ HandOver \/ ReturnZero
  PROVE  FramesInv'
<1>1. Calls(frames)
  BY DEF FramesInv, EndOfFile, HandOver, ReturnZero
<1>2. CASE EndOfFile
  BY <1>1, <1>2 DEF EndOfFile, Return, FramesInv, ElseAnswered
<1>3. CASE HandOver
  <2>1. Top.caller = "first"
    BY <1>3 DEF HandOver, FramesInv, ElseAnswered
  <2>2. SecondHalf \in {Read("second"), Skipped("second")}
    BY CallNames DEF SecondHalf, SecondSkip
  <2>3. SecondHalf \in Call /\ SecondHalf.caller = "second"
    BY <2>2, CallFields DEF Half
  <2>4. frames' = [frames EXCEPT ![Len(frames)] = SecondHalf] /\ pc' = "loop"
    BY <1>3, <2>1 DEF HandOver
  <2>5. Calls(frames')
    BY <1>1, <2>1, <2>3, <2>4, Swap DEF Top
  <2> QED
    BY <2>4, <2>5 DEF FramesInv, ElseAnswered
<1>4. CASE ReturnZero
  <2>1. frames' = Front(frames) /\ pc' = IF Top.caller = "file" THEN "done" ELSE "loop"
    BY <1>4 DEF ReturnZero
  <2>2. Top.caller # "file" => Calls(frames')
    BY <1>1, <2>1, Pop DEF Top
  <2> QED
    BY <2>1, <2>2 DEF FramesInv, ElseAnswered
<1> QED
  BY <1>2, <1>3, <1>4

(* At first there is only the call for the file.                           *)
LEMMA CallsBegin ==
  ASSUME frames = <<FileCall>>, pc = "loop"
  PROVE  Calls(frames) /\ FramesInv
<1> DEFINE fs == <<FileCall>>
<1>1. /\ fs \in Seq(Call \cup {FileCall}) /\ fs # <<>>
      /\ DOMAIN fs = {1} /\ fs[1] = FileCall
  OBVIOUS
<1> HIDE DEF fs
<1>2. Calls(fs)
  BY <1>1 DEF Calls
<1> QED
  BY <1>2 DEF FramesInv, ElseAnswered, fs

(* The calls are as they should be in every reachable state.               *)
THEOREM CallsInductive == LiveSpec => []FramesInv
<1>1. LiveInit => FramesInv
  BY CallsBegin DEF LiveInit, PreprocInit, FileCall
<1>2. FramesInv /\ [LiveNext]_<<pp, text>> => FramesInv'
  <2> SUFFICES ASSUME FramesInv, [LiveNext]_<<pp, text>> PROVE FramesInv'
    OBVIOUS
  <2>1. CASE PreprocNext
    BY <2>1, ReadStep, SkipStep, ReturnStep DEF PreprocNext
  <2>2. CASE UNCHANGED <<pp, text>>
    BY <2>2 DEF pp, FramesInv, ElseAnswered, Top
  <2> QED
    BY <2>1, <2>2 DEF LiveNext
<1> QED
  BY <1>1, <1>2, PTL DEF LiveSpec

(* ElseAnswered: C_NORM_ELSE is returned only to the first of the two      *)
(* calls of _process_IFDEF, which goes on with the other half; it is never *)
(* taken for an error by preproc_parse, by the second call or by           *)
(* _process_SKIP.                                                          *)
THEOREM ElseNeverLost == LiveSpec => []ElseAnswered
<1>1. FramesInv => ElseAnswered
  BY DEF FramesInv
<1> QED
  BY <1>1, CallsInductive, PTL

-----------------------------------------------------------------------------
(***************************************************************************)
(* The preprocessor and the meaning of the lines it reads stay in line: at *)
(* each step either the current line's meaning is still to come, or it is  *)
(* part of what the calls and the macros stand for already.  From this     *)
(* follow the properties of CPreprocLive, for every set of lines that      *)
(* means what it says.                                                     *)
(***************************************************************************)

(***************************************************************************)
(* Tokens.  What is left of a line always ends in its newline.             *)
(***************************************************************************)
LEMMA EndedFacts ==
  ASSUME NEW s \in Ended
  PROVE  /\ s \in Tokens /\ s # <<>> /\ Len(s) \in Nat \ {0}
         /\ s[Len(s)] = NewlineToken
         /\ \A i \in 1 .. Len(s) : s[i] \in [id : STRING, string : STRING]
         /\ \A i \in 1 .. Len(s) : IsNewline(s[i]) <=> i = Len(s)
         /\ Head(s) = s[1]
         /\ IsNewline(Head(s)) => Tail(s) = <<>> /\ Head(s).string = "\n"
         /\ ~IsNewline(Head(s)) => Tail(s) \in Ended
<1>1. s \in Tokens /\ s # <<>> /\ Len(s) \in Nat \ {0} /\ s[Len(s)] = NewlineToken
  BY EmptySeq, LenProperties DEF Ended, Tokens, Last
<1>2. \A i \in 1 .. Len(s) : s[i] \in [id : STRING, string : STRING]
  BY <1>1, ElementOfSeq DEF Tokens
<1>3. IsNewline(NewlineToken) /\ NewlineToken.string = "\n"
  BY DEF IsNewline, NewlineToken, Token
<1>4. \A i \in 1 .. Len(s) : IsNewline(s[i]) <=> i = Len(s)
  BY <1>1, <1>3 DEF Ended
<1>5. /\ Head(s) = s[1] /\ Tail(s) \in Tokens /\ Len(Tail(s)) = Len(s) - 1
      /\ \A i \in 1 .. Len(Tail(s)) : Tail(s)[i] = s[i + 1]
  BY <1>1, HeadTailProperties DEF Tokens
<1>6. IsNewline(Head(s)) => Tail(s) = <<>> /\ Head(s).string = "\n"
  <2> HAVE IsNewline(Head(s))
  <2>1. 1 \in 1 .. Len(s) /\ Len(s) = 1
    <3>1. 1 \in 1 .. Len(s)
      BY <1>1
    <3> QED
      BY <1>4, <1>5, <3>1
  <2>2. Tail(s) = <<>>
    <3> DEFINE r == Tail(s)
    <3>1. r \in Tokens /\ Len(r) = 0
      BY <1>5, <2>1
    <3> HIDE DEF r
    <3> QED
      BY <3>1, EmptySeq DEF Tokens, r
  <2> QED
    BY <1>1, <1>3, <1>5, <2>1, <2>2
<1>7. ~IsNewline(Head(s)) => Tail(s) \in Ended
  <2> HAVE ~IsNewline(Head(s))
  <2>1. Len(s) > 1
    <3>1. 1 \in 1 .. Len(s)
      BY <1>1
    <3>2. Len(s) # 1
      BY <1>4, <1>5, <3>1
    <3>3. Len(s) \in Nat \ {0}
      BY <1>1
    <3> QED
      BY <3>2, <3>3
  <2> DEFINE r == Tail(s)
             n == Len(s) - 1
  <2>2. /\ n \in Nat \ {0} /\ r \in Tokens /\ Len(r) = n
        /\ \A i \in 1 .. n : r[i] = s[i + 1] /\ i + 1 \in 1 .. Len(s)
    BY <1>1, <1>5, <2>1
  <2> HIDE DEF r
  <2>3. r # <<>> /\ Last(r) = NewlineToken
    BY <1>1, <2>1, <2>2 DEF Last
  <2>4. \A i \in 1 .. Len(r) - 1 : ~IsNewline(r[i])
    BY <1>1, <1>4, <2>2
  <2> QED
    BY <2>2, <2>3, <2>4 DEF Ended, r
<1> QED
  BY <1>1, <1>2, <1>4, <1>5, <1>6, <1>7

(* What is left of a sequence without its first k elements.                *)
Suffix(s, r, k) ==
  /\ k \in 0 .. Len(s) /\ Len(r) = Len(s) - k
  /\ \A i \in 1 .. Len(r) : r[i] = s[k + i]

(* _trimskip stops at the first token that is no blank: at the newline at  *)
(* the latest.                                                             *)
LEMMA TrimFacts ==
  ASSUME NEW s \in Ended
  PROVE  /\ Trim[s] \in Ended
         /\ ~IsSpace(Head(Trim[s]))
         /\ IsSpace(Head(s)) => Tail(s) \in Ended /\ Trim[Tail(s)] = Trim[s]
         /\ ~IsSpace(Head(s)) => Trim[s] = s
         /\ \E k \in 0 .. Len(s) :
              Suffix(s, Trim[s], k) /\ \A i \in 1 .. k : IsSpace(s[i])
<1> DEFINE First(q, m) == /\ m \in 1 .. Len(q) /\ ~IsSpace(q[m])
                          /\ \A i \in 1 .. m - 1 : IsSpace(q[i])
<1>1. ASSUME NEW q \in Ended
      PROVE  \E m : First(q, m)
  <2> DEFINE solid == {i \in 1 .. Len(q) : ~IsSpace(q[i])}
  <2>1. Len(q) \in solid /\ solid \subseteq Nat
    BY EndedFacts DEF IsSpace, NewlineToken, Token
  <2>2. PICK m \in solid : \A i \in solid : m <= i
    <3> HIDE DEF solid
    <3> QED BY <2>1, LeastNatural
  <2> QED BY <2>1, <2>2, EndedFacts
<1>2. ASSUME NEW q \in Ended, NEW m, First(q, m)
      PROVE  /\ Trim[q] = SubSeq(q, m, Len(q))
             /\ Trim[q] \in Ended /\ Head(Trim[q]) = q[m]
             /\ Suffix(q, Trim[q], m - 1)
  <2>1. /\ q \in Tokens /\ Len(q) \in Nat \ {0} /\ m \in 1 .. Len(q)
        /\ \A i \in 1 .. Len(q) : IsNewline(q[i]) <=> i = Len(q)
        /\ q[Len(q)] = NewlineToken
    BY <1>2, EndedFacts
  <2>2. SelectInSeq(q, LAMBDA t : ~IsSpace(t)) = m
    <3> DEFINE solid == {i \in 1 .. Len(q) : ~IsSpace(q[i])}
    <3>1. m \in solid /\ \A i \in solid : m <= i
      BY <1>2, <2>1
    <3>2. \A k \in solid : (\A i \in solid : k <= i) => k = m
      BY <3>1
    <3>3. Min(solid) = m
      <4> HIDE DEF solid
      <4> QED BY <3>1, <3>2 DEF Min
    <3> QED BY <3>1, <3>3 DEF SelectInSeq
  <2>3. Trim[q] = SubSeq(q, m, Len(q))
    BY <2>1, <2>2 DEF Trim
  <2> DEFINE r == SubSeq(q, m, Len(q))
             k == Len(q) - m + 1
  <2>4. /\ r \in Tokens /\ Len(r) = k /\ k \in Nat \ {0}
        /\ \A i \in 1 .. k : r[i] = q[m + i - 1]
    <3>1. \A i \in m .. Len(q) : q[i] \in [id : STRING, string : STRING]
      BY <2>1, EndedFacts
    <3>2. /\ r \in Tokens
          /\ Len(r) = IF m <= Len(q) THEN Len(q) - m + 1 ELSE 0
          /\ \A i \in 1 .. Len(q) - m + 1 : r[i] = q[m + i - 1]
      BY <2>1, <3>1, SubSeqProperties DEF Tokens
    <3> QED BY <2>1, <3>2
  <2> HIDE DEF r
  <2>5. r # <<>> /\ Head(r) = q[m]
    BY <2>1, <2>4, EmptySeq
  <2>6. Last(r) = NewlineToken
    BY <2>1, <2>4 DEF Last
  <2>7. \A i \in 1 .. Len(r) - 1 : ~IsNewline(r[i])
    BY <2>1, <2>4
  <2>8. r \in Ended
    BY <2>4, <2>5, <2>6, <2>7 DEF Ended
  <2>9. Suffix(q, r, m - 1)
    BY <2>1, <2>4 DEF Suffix
  <2> QED BY <2>3, <2>5, <2>8, <2>9 DEF r
<1>3. PICK m : First(s, m)
  BY <1>1
<1>4. Trim[s] \in Ended /\ ~IsSpace(Head(Trim[s]))
  BY <1>2, <1>3
<1>5. IsSpace(Head(s)) => Tail(s) \in Ended /\ Trim[Tail(s)] = Trim[s]
  <2> HAVE IsSpace(Head(s))
  <2> DEFINE r == Tail(s)
  <2>1. r \in Ended /\ m # 1
    BY <1>3, EndedFacts DEF IsSpace, IsNewline
  <2>2. /\ Len(r) = Len(s) - 1 /\ Len(s) \in Nat
        /\ \A i \in 1 .. Len(r) : r[i] = s[i + 1]
    BY EndedFacts, HeadTailProperties DEF Tokens
  <2> HIDE DEF r
  <2>3. First(r, m - 1)
    BY <1>3, <2>1, <2>2
  <2>4. Trim[r] = SubSeq(r, m - 1, Len(r)) /\ Trim[s] = SubSeq(s, m, Len(s))
    <3> HIDE DEF First
    <3> QED BY <1>2, <1>3, <2>1, <2>3
  <2>5. SubSeq(r, m - 1, Len(r)) = SubSeq(s, m, Len(s))
    <3> DEFINE a == SubSeq(r, m - 1, Len(r))
               b == SubSeq(s, m, Len(s))
               k == Len(s) - m + 1
    <3>1. m \in 2 .. Len(s) /\ m - 1 \in 1 .. Len(r) /\ m - 1 <= Len(r)
      BY <1>3, <2>1, <2>2
    <3>2. /\ \A i \in m - 1 .. Len(r) : r[i] \in [id : STRING, string : STRING]
          /\ \A i \in m .. Len(s) : s[i] \in [id : STRING, string : STRING]
      BY <2>1, <2>2, <3>1, EndedFacts
    <3>3. a \in Tokens /\ Len(a) = k /\ \A i \in 1 .. k : a[i] = r[m - 1 + i - 1]
      BY <2>2, <3>1, <3>2, SubSeqProperties DEF Tokens
    <3>4. b \in Tokens /\ Len(b) = k /\ \A i \in 1 .. k : b[i] = s[m + i - 1]
      BY <2>2, <3>1, <3>2, SubSeqProperties DEF Tokens
    <3> HIDE DEF a, b
    <3>5. \A i \in 1 .. k : a[i] = b[i]
      BY <2>2, <3>1, <3>3, <3>4
    <3>6. a = b
      BY <3>3, <3>4, <3>5, SeqEqual DEF Tokens
    <3> QED BY <3>6 DEF a, b
  <2> QED BY <2>1, <2>4, <2>5 DEF r
<1>6. ~IsSpace(Head(s)) => Trim[s] = s
  <2> HAVE ~IsSpace(Head(s))
  <2>1. First(s, 1)
    BY EndedFacts
  <2>2. Trim[s] = SubSeq(s, 1, Len(s))
    <3> HIDE DEF First
    <3> QED BY <1>2, <2>1
  <2> QED BY <2>2, EndedFacts, SubSeqProperties DEF Tokens
<1>7. \E k \in 0 .. Len(s) : Suffix(s, Trim[s], k) /\ \A i \in 1 .. k : IsSpace(s[i])
  <2>1. /\ Suffix(s, Trim[s], m - 1) /\ m - 1 \in 0 .. Len(s)
        /\ \A i \in 1 .. m - 1 : IsSpace(s[i])
    <3>1. Suffix(s, Trim[s], m - 1)
      <4> HIDE DEF First
      <4> QED BY <1>2, <1>3
    <3> QED BY <1>3, <3>1, EndedFacts
  <2> QED BY <2>1
<1> QED BY <1>4, <1>5, <1>6, <1>7

(* Tokens that _process_PARMS has read: what it reads as parameters, and   *)
(* one more perhaps, at which it stops.                                    *)
ReadsOver(s, r) ==
  \E k \in 0 .. Len(s) : Suffix(s, r, k) /\ \A n \in 1 .. k : MayBeParm(s[n])
StopsBehind(s, r) ==
  \E k \in 0 .. Len(s) : Suffix(s, r, k) /\ \A n \in 1 .. k - 1 : MayBeParm(s[n])

(* What a parameter may be.                                                *)
ParmToken ==
  {EmptyParm} \cup {t \in [id : STRING, string : STRING] : ~IsSpace(t)}

(* What it has read so far of a line: it goes on only in the line, and     *)
(* what it accepts ends in the line.                                       *)
InLine(s) ==
  {p \in Reading :
     /\ p.rest \in Ended \cup {<<>>}
     /\ p.more \/ p.ok => p.rest \in Ended
     /\ p.parms \in Seq(ParmToken)
     /\ IF p.more THEN ReadsOver(s, p.rest) ELSE StopsBehind(s, p.rest)}

(* What is behind the first token of a line.                               *)
LEMMA Behind ==
  ASSUME NEW s \in Ended
  PROVE  /\ Tail(s) \in Ended \cup {<<>>} /\ <<>> \in Tokens
         /\ Head(s) \in [id : STRING, string : STRING]
         /\ Head(s).id # "T_NEWLINE" => Tail(s) \in Ended /\ Trim[Tail(s)] \in Ended
BY EndedFacts, TrimFacts, EmptySeq DEF IsNewline, Tokens

(* Reading on.                                                             *)
LEMMA ReadsOn ==
  ASSUME NEW s \in Tokens, NEW r \in Ended, ReadsOver(s, r)
  PROVE  /\ ReadsOver(s, Trim[r])
         /\ MayBeParm(Head(r)) => ReadsOver(s, Tail(r))
         /\ StopsBehind(s, Tail(r))
<1>1. PICK k \in 0 .. Len(s) : Suffix(s, r, k) /\ \A n \in 1 .. k : MayBeParm(s[n])
  BY DEF ReadsOver
<1>2. /\ Len(s) \in Nat /\ Len(r) \in Nat \ {0} /\ Len(r) = Len(s) - k
      /\ \A i \in 1 .. Len(r) : r[i] = s[k + i]
  BY <1>1, EndedFacts, LenProperties DEF Suffix, Tokens
<1>3. ReadsOver(s, Trim[r])
  <2>1. PICK m \in 0 .. Len(r) : Suffix(r, Trim[r], m) /\ \A i \in 1 .. m : IsSpace(r[i])
    BY TrimFacts
  <2> DEFINE q == Trim[r]
  <2>2. /\ Len(q) = Len(r) - m /\ \A i \in 1 .. Len(q) : q[i] = r[m + i]
    BY <2>1 DEF Suffix
  <2> HIDE DEF q
  <2>3. k + m \in 0 .. Len(s) /\ Len(q) = Len(s) - (k + m)
    BY <1>2, <2>2
  <2>4. \A i \in 1 .. Len(q) : q[i] = s[(k + m) + i]
    <3>1. ASSUME NEW i \in 1 .. Len(q) PROVE q[i] = s[(k + m) + i]
      <4>1. m + i \in 1 .. Len(r) /\ k + (m + i) = (k + m) + i
        BY <1>2, <2>2
      <4> QED
        BY <1>2, <2>2, <4>1
    <3> QED
      BY <3>1
  <2>5. ASSUME NEW n \in 1 .. k + m PROVE MayBeParm(s[n])
    <3>1. CASE n \in 1 .. k
      BY <1>1, <3>1
    <3>2. CASE n \notin 1 .. k
      <4>1. /\ k \in Nat /\ m \in Nat /\ m <= Len(r) /\ Len(r) \in Nat
            /\ n \in Int /\ 1 <= n /\ n <= k + m
        BY <1>2
      <4>2. n > k
        BY <3>2, <4>1
      <4>3. n - k \in 1 .. m /\ n - k \in 1 .. Len(r) /\ k + (n - k) = n
        BY <4>1, <4>2
      <4> QED
        BY <1>2, <2>1, <4>3 DEF MayBeParm
    <3> QED
      BY <3>1, <3>2
  <2>6. ReadsOver(s, q)
    BY <2>3, <2>4, <2>5 DEF ReadsOver, Suffix
  <2> QED
    BY <2>6 DEF q
<1> DEFINE q == Tail(r)
<1>4. Head(r) = r[1] /\ Len(q) = Len(r) - 1 /\ \A i \in 1 .. Len(q) : q[i] = r[i + 1]
  <2>1. r \in Tokens /\ r # <<>>
    BY EndedFacts
  <2> QED
    BY <2>1, HeadTailProperties DEF Tokens
<1> HIDE DEF q
<1>5. Suffix(s, q, k + 1) /\ k + 1 \in 0 .. Len(s)
  <2>1. k + 1 \in 0 .. Len(s) /\ Len(q) = Len(s) - (k + 1)
    BY <1>2, <1>4
  <2>2. ASSUME NEW i \in 1 .. Len(q) PROVE q[i] = s[(k + 1) + i]
    <3>1. i + 1 \in 1 .. Len(r) /\ k + (i + 1) = (k + 1) + i
      BY <1>2, <1>4
    <3> QED
      BY <1>2, <1>4, <3>1
  <2> QED
    BY <2>1, <2>2 DEF Suffix
<1>6. StopsBehind(s, q)
  <2>1. k + 1 - 1 = k
    OBVIOUS
  <2> QED
    BY <1>1, <1>5, <2>1 DEF StopsBehind
<1>7. MayBeParm(Head(r)) => ReadsOver(s, q)
  <2> HAVE MayBeParm(Head(r))
  <2>1. Head(r) = s[k + 1]
    BY <1>2, <1>4
  <2>2. \A n \in 1 .. k + 1 : n \in 1 .. k \/ n = k + 1
    OBVIOUS
  <2>3. \A n \in 1 .. k + 1 : MayBeParm(s[n])
    BY <1>1, <2>1, <2>2
  <2> QED
    BY <1>5, <2>3 DEF ReadsOver
<1> QED
  BY <1>3, <1>6, <1>7 DEF q

(* A list of parameters is one.                                            *)
LEMMA ParmList ==
  ASSUME NEW list \in Seq(ParmToken)
  PROVE  list \in Parameters
<1>1. ParmToken \subseteq [id : STRING, string : STRING] \cup {EmptyParm}
  BY DEF ParmToken
<1>2. Len(list) \in Nat /\ list = [i \in 1 .. Len(list) |-> list[i]]
  BY LenProperties
<1>3. \A i \in 1 .. Len(list) : list[i] \in ParmToken
  BY ElementOfSeq
<1> DEFINE n == Len(list)
<1> HIDE DEF n
<1>4. [i \in 1 .. n |-> list[i]] \in Seq([id : STRING, string : STRING] \cup {EmptyParm})
  BY <1>1, <1>2, <1>3 DEF n
<1> QED
  BY <1>2, <1>4 DEF Parameters, n

(* _process_PARMS returns.                                                 *)
LEMMA ResultInLine ==
  ASSUME NEW list \in Seq(ParmToken), NEW r \in Ended \cup {<<>>}, NEW ok \in BOOLEAN,
         ok => r \in Ended, NEW s, StopsBehind(s, r)
  PROVE  Result(ok, list, r) \in InLine(s)
<1>1. r \in Tokens /\ list \in Parameters
  BY EmptySeq, ParmList DEF Ended, Tokens
<1>2. Result(ok, list, r) \in Reading
  BY <1>1 DEF Result, Reading
<1> QED
  BY <1>2 DEF Result, InLine

(* It goes on with the next parameter.                                     *)
LEMMA MoreInLine ==
  ASSUME NEW list \in Seq(ParmToken), NEW r \in Ended, NEW s, ReadsOver(s, r)
  PROVE  More(list, r) \in InLine(s)
<1>1. r \in Tokens /\ list \in Parameters
  BY ParmList DEF Ended
<1>2. More(list, r) \in Reading
  BY <1>1 DEF More, Reading
<1> QED
  BY <1>2 DEF More, InLine

(* It reads what separates two parameters.                                 *)
LEMMA SeparatedInLine ==
  ASSUME NEW list \in Seq(ParmToken), NEW r \in Ended, NEW s \in Tokens, ReadsOver(s, r)
  PROVE  Separated(list, r) \in InLine(s)
<1>1. CASE Head(r).id = "T_PARENS_CLOSE"
  <2>1. Separated(list, r) = Result(TRUE, list, Tail(r))
    BY <1>1 DEF Separated
  <2>2. Tail(r) \in Ended /\ StopsBehind(s, Tail(r))
    BY <1>1, Behind, ReadsOn
  <2>3. Result(TRUE, list, Tail(r)) \in InLine(s)
    <3> DEFINE q == Tail(r)
    <3> HIDE DEF q
    <3>1. q \in Ended /\ StopsBehind(s, q)
      BY <2>2 DEF q
    <3>2. Result(TRUE, list, q) \in InLine(s)
      BY <3>1, ResultInLine
    <3> QED
      BY <3>2 DEF q
  <2> QED
    BY <2>1, <2>3
<1>2. CASE Head(r).id = "T_COMMA"
  <2>1. Separated(list, r) = More(list, Trim[Tail(r)])
    BY <1>2 DEF Separated
  <2>2. Tail(r) \in Ended /\ Trim[Tail(r)] \in Ended
    BY <1>2, Behind
  <2>3. ReadsOver(s, Trim[Tail(r)])
    BY <1>2, <2>2, ReadsOn DEF MayBeParm
  <2> QED
    BY <2>1, <2>2, <2>3, MoreInLine
<1>3. CASE Head(r).id \notin {"T_PARENS_CLOSE", "T_COMMA"}
  <2>1. Separated(list, r) = Result(FALSE, list, Tail(r))
    BY <1>3 DEF Separated
  <2> QED
    BY <2>1, Behind, ReadsOn, ResultInLine
<1> QED
  BY <1>1, <1>2, <1>3

(* One turn of its loop.                                                   *)
LEMMA NextParmInLine ==
  ASSUME NEW s \in Tokens, NEW p \in InLine(s)
  PROVE  NextParm[p] \in InLine(s)
<1> DEFINE r == p.rest
           t == Head(r)
           next == Trim[Tail(r)]
           list == p.parms
<1>1. p \in Reading /\ p.more \in BOOLEAN /\ list \in Seq(ParmToken)
  BY DEF InLine, Reading
<1>2. CASE ~p.more
  BY <1>1, <1>2 DEF NextParm
<1>3. CASE p.more
  <2>1. r \in Ended /\ ReadsOver(s, r)
    BY <1>3 DEF InLine
  <2> HIDE DEF r
  <2>2. t \in [id : STRING, string : STRING]
    BY <2>1, Behind
  <2>3. /\ Append(list, EmptyParm) \in Seq(ParmToken)
        /\ t.id = "T_ELLIPSES" \/ IsName(t) => Append(list, t) \in Seq(ParmToken)
    <3> HIDE DEF t
    <3>1. EmptyParm \in ParmToken /\ (t.id = "T_ELLIPSES" \/ IsName(t) => t \in ParmToken)
      BY <2>2 DEF ParmToken, IsName, IsSpace
    <3> QED
      BY <1>1, <3>1, AppendProperties
  <2>4. t.id = "T_ELLIPSES" \/ IsName(t) => next \in Ended /\ ReadsOver(s, next)
    <3>1. t.id = "T_ELLIPSES" \/ IsName(t) => t.id # "T_NEWLINE" /\ MayBeParm(t)
      BY DEF IsName, MayBeParm
    <3>2. t.id # "T_NEWLINE" => Tail(r) \in Ended /\ next \in Ended
      BY <2>1, Behind
    <3>3. MayBeParm(t) => ReadsOver(s, Tail(r))
      BY <2>1, ReadsOn
    <3> QED
      BY <3>1, <3>2, <3>3, ReadsOn
  <2>5. StopsBehind(s, Tail(r)) /\ Tail(r) \in Ended \cup {<<>>}
    BY <2>1, Behind, ReadsOn
  <2> HIDE DEF list, next
  <2>6. CASE t.id = "T_ELLIPSES"
    <3> DEFINE closed == (Head(next).id = "T_PARENS_CLOSE")
    <3>1. NextParm[p] = Result(closed, Append(list, t), Tail(next))
      BY <1>1, <1>3, <2>6 DEF NextParm, IsName, r, list, next
    <3>2. Tail(next) \in Ended \cup {<<>>} /\ (closed => Tail(next) \in Ended)
      BY <2>4, <2>6, Behind
    <3>3. closed \in BOOLEAN
      OBVIOUS
    <3>4. StopsBehind(s, Tail(next)) /\ Append(list, t) \in Seq(ParmToken)
      BY <2>3, <2>4, <2>6, ReadsOn
    <3> HIDE DEF closed, t
    <3> QED
      BY <3>1, <3>2, <3>3, <3>4, ResultInLine
  <2>7. CASE IsName(t) /\ HasIdentifier(list, t)
    <3>1. NextParm[p] = Result(FALSE, list, Tail(r))
      BY <1>1, <1>3, <2>7 DEF NextParm, IsName, r, list, next
    <3> QED
      BY <1>1, <2>5, <3>1, ResultInLine DEF list
  <2>8. CASE IsName(t) /\ ~HasIdentifier(list, t)
    <3>1. NextParm[p] = Separated(Append(list, t), next)
      BY <1>1, <1>3, <2>8 DEF NextParm, IsName, r, list, next
    <3> QED
      BY <2>3, <2>4, <2>8, <3>1, SeparatedInLine
  <2>9. CASE t.id \in {"T_COMMA", "T_PARENS_CLOSE"}
    <3>1. NextParm[p] = Separated(Append(list, EmptyParm), r)
      BY <1>1, <1>3, <2>9 DEF NextParm, IsName, r, list, next
    <3> QED
      BY <2>1, <2>3, <3>1, SeparatedInLine
  <2>10. CASE ~IsName(t) /\ t.id \notin {"T_ELLIPSES", "T_COMMA", "T_PARENS_CLOSE"}
    <3>1. NextParm[p] = Separated(list, r)
      BY <1>1, <1>3, <2>10 DEF NextParm, r, list, next
    <3> QED
      BY <1>1, <2>1, <3>1, SeparatedInLine DEF list
  <2> QED
    BY <2>6, <2>7, <2>8, <2>9, <2>10
<1> QED
  BY <1>1, <1>2, <1>3

(* The arguments of a macro, or the parameters of one.                     *)
LEMMA ParmsInLine ==
  ASSUME NEW s \in Ended
  PROVE  /\ Parms(s).rest \in Ended \cup {<<>>}
         /\ Parms(s).ok => Parms(s).rest \in Ended
         /\ Parms(s).parms \in Seq(ParmToken)
         /\ StopsBehind(s, Parms(s).rest)
<1> DEFINE N == Len(s)
           I == InLine(s)
           first == More(<<>>, Trim[s])
           Turns(f) == f = [n \in 0 .. N |-> IF n = 0 THEN first ELSE NextParm[f[n - 1]]]
           read == CHOOSE f : Turns(f)
           step == [n \in 1 .. N |-> [p \in I |-> NextParm[p]]]
<1>1. N \in Nat /\ first \in I /\ s \in Tokens
  <2>1. <<>> \in Seq(ParmToken)
    BY EmptySeq
  <2>2. Len(s) \in Nat /\ Trim[s] \in Ended /\ s \in Tokens
    BY EndedFacts, TrimFacts
  <2>3. Suffix(s, s, 0) /\ 0 \in 0 .. Len(s)
    BY <2>2 DEF Suffix
  <2>4. ReadsOver(s, s)
    BY <2>3 DEF ReadsOver
  <2>5. ReadsOver(s, Trim[s])
    BY <2>2, <2>4, ReadsOn
  <2> QED
    BY <2>1, <2>2, <2>5, MoreInLine
<1>2. Parms(s) = read[N]
  BY DEF Parms
<1>3. \A p \in I : NextParm[p] \in I
  BY <1>1, NextParmInLine
<1> HIDE DEF N, first, I
<1>4. \E f : Turns(f)
  <2>1. step \in [1 .. N -> [I -> I]]
    BY <1>3
  <2> DEFINE g == step
  <2> HIDE DEF step
  <2>2. PICK f \in [0 .. N -> I] :
          f[0] = first /\ \A n \in 1 .. N : f[n] = step[n][f[n - 1]]
    BY <1>1, <2>1, Recursion DEF Recursive
  <2>3. ASSUME NEW n \in 1 .. N
        PROVE  f[n] = NextParm[f[n - 1]]
    <3>1. f[n - 1] \in I
      BY <1>1, <2>2
    <3> QED
      BY <2>2, <3>1 DEF step
  <2>4. \A n \in 0 .. N : f[n] = IF n = 0 THEN first ELSE NextParm[f[n - 1]]
    BY <1>1, <2>2, <2>3
  <2>5. Turns(f)
    BY <2>2, <2>4
  <2> QED
    BY <2>5
<1>5. Turns(read)
  <2> HIDE DEF Turns
  <2> QED
    BY <1>4
<1> HIDE DEF read
<1> DEFINE P == {n \in 0 .. N : read[n] \in I}
<1>6. 0 \in P
  BY <1>1, <1>5
<1>7. ASSUME NEW n \in P, n < N
      PROVE  n + 1 \in P
  <2>1. n + 1 \in 0 .. N /\ n + 1 # 0 /\ n + 1 - 1 = n
    BY <1>1, <1>7
  <2>2. read[n + 1] = NextParm[read[n]]
    BY <1>5, <2>1
  <2> QED
    BY <1>3, <2>1, <2>2
<1>8. N \in P
  <2>1. P \in SUBSET (0 .. N)
    OBVIOUS
  <2> HIDE DEF P
  <2>2. P = 0 .. N
    BY <1>1, <1>6, <1>7, <2>1, BoundedInduction
  <2> QED
    BY <1>1, <2>2
<1>9. ASSUME NEW p \in I PROVE StopsBehind(s, p.rest)
  <2>1. CASE p.more
    <3>1. PICK k \in 0 .. Len(s) : /\ Suffix(s, p.rest, k)
                                   /\ \A n \in 1 .. k : MayBeParm(s[n])
      BY <2>1 DEF I, InLine, ReadsOver
    <3>2. \A n \in 1 .. k - 1 : n \in 1 .. k
      OBVIOUS
    <3> QED
      BY <3>1, <3>2 DEF StopsBehind
  <2>2. CASE ~p.more
    BY <2>2 DEF I, InLine
  <2> QED
    BY <2>1, <2>2
<1> QED
  BY <1>2, <1>8, <1>9 DEF InLine, I

-----------------------------------------------------------------------------
(***************************************************************************)
(* Sections.  A stack of calls stands for a stack of sections.             *)
(***************************************************************************)
SectionsOf(fs) == [i \in 1 .. Len(fs) - 1 |-> SectionOf(fs[i + 1])]

SectionType == [live : BOOLEAN, seen_else : BOOLEAN]

(* The section that a call stands for, dead or live.                       *)
LEMMA SectionOfCall ==
  ASSUME NEW c \in Call
  PROVE  /\ SectionOf(c) \in SectionType
         /\ SectionOf(c).live <=> c.proc = "parse"
         /\ c.proc \in {"parse", "skip"}
<1>1. ASSUME NEW half \in Half, c = Read(half)
      PROVE  SectionOf(c) = Section(TRUE, half = "second") /\ c.proc = "parse"
  BY <1>1 DEF SectionOf, Read, Parse
<1>2. ASSUME NEW half \in Half, c = Skipped(half)
      PROVE  SectionOf(c) = Section(FALSE, half = "second") /\ c.proc = "skip"
  BY <1>2 DEF SectionOf, Skipped, Skip
<1>3. ASSUME NEW seen \in BOOLEAN, c = Inner(seen)
      PROVE  SectionOf(c) = Section(FALSE, seen) /\ c.proc = "skip"
  BY <1>3 DEF SectionOf, Inner, Skip
<1>4. \A live, seen \in BOOLEAN :
        Section(live, seen) \in SectionType /\ Section(live, seen).live = live
  BY DEF Section, SectionType
<1>5. /\ \A half \in Half : (half = "second") \in BOOLEAN
      /\ TRUE \in BOOLEAN /\ FALSE \in BOOLEAN
  OBVIOUS
<1> QED
  BY <1>1, <1>2, <1>3, <1>4, <1>5 DEF Call

(* The sections of a stack of calls, without the call for the file.        *)
LEMMA SectionsType ==
  ASSUME NEW fs, Calls(fs)
  PROVE  /\ SectionsOf(fs) \in Seq(SectionType)
         /\ Len(SectionsOf(fs)) = Len(fs) - 1
         /\ \A i \in 1 .. Len(fs) - 1 :
              /\ SectionsOf(fs)[i] = SectionOf(fs[i + 1])
              /\ fs[i + 1] \in Call
<1>1. Len(fs) \in Nat \ {0} /\ DOMAIN fs = 1 .. Len(fs)
  BY Ends DEF Calls
<1>2. ASSUME NEW i \in 1 .. Len(fs) - 1
      PROVE  SectionOf(fs[i + 1]) \in SectionType /\ fs[i + 1] \in Call
  <2>1. i + 1 \in DOMAIN fs /\ i + 1 # 1
    BY <1>1
  <2> QED
    BY <2>1, SectionOfCall DEF Calls
<1>3. Len(fs) - 1 \in Nat
  BY <1>1
<1> QED
  BY <1>2, <1>3 DEF SectionsOf

(* Nothing is read inside of what is skipped.                              *)
LEMMA AllRead ==
  ASSUME NEW fs, Calls(fs)
  PROVE  Last(fs).proc # "skip" => \A i \in DOMAIN fs : fs[i].proc = "parse"
<1> DEFINE n == Len(fs)
<1>1. n \in Nat \ {0} /\ DOMAIN fs = 1 .. n /\ Last(fs) = fs[n]
  BY Ends DEF Calls
<1>2. \A i \in DOMAIN fs : fs[i].proc \in {"parse", "skip"}
  BY SectionOfCall, CallFields DEF Calls
<1>3. ASSUME NEW i \in 1 .. n, i < n, fs[i].proc = "skip"
      PROVE  fs[i + 1].proc = "skip"
  <2>1. i + 1 \in DOMAIN fs /\ i + 1 > 1 /\ i + 1 # 1 /\ i + 1 - 1 = i
    BY <1>1, <1>3
  <2>2. fs[i + 1].caller = "nested" /\ fs[i + 1] \in Call
    BY <1>3, <2>1 DEF Calls
  <2>3. \A c \in Call : c.caller = "nested" => c.proc = "skip"
    BY CallFields DEF Call, Half
  <2> QED
    BY <2>2, <2>3
<1>4. ASSUME NEW i \in DOMAIN fs, fs[i].proc # "parse", fs[n].proc # "skip"
      PROVE  FALSE
  <2> DEFINE P == {k \in 0 .. n - i : fs[i + k].proc = "skip"}
  <2>1. 0 \in P
    BY <1>1, <1>2, <1>4
  <2>2. ASSUME NEW k \in P, k < n - i PROVE k + 1 \in P
    <3>1. i + k \in 1 .. n /\ i + k < n /\ i + k + 1 = i + (k + 1) /\ k + 1 \in 0 .. n - i
      BY <1>1, <2>2
    <3>2. fs[i + k].proc = "skip"
      OBVIOUS
    <3> QED
      BY <1>3, <3>1, <3>2
  <2>3. P \in SUBSET (0 .. n - i) /\ n - i \in Nat
    BY <1>1
  <2> HIDE DEF P
  <2>4. n - i \in P
    BY <2>1, <2>2, <2>3, BoundedInduction
  <2>5. fs[i + (n - i)].proc = "skip" /\ i + (n - i) = n
    BY <1>1, <2>4 DEF P
  <2> QED
    BY <1>4, <2>5
<1> QED
  BY <1>1, <1>4

(* What is read is live, what is skipped is dead.                          *)
LEMMA LiveTop ==
  ASSUME NEW fs, Calls(fs)
  PROVE  /\ AllLive(SectionsOf(fs)) <=> Last(fs).proc = "parse"
         /\ Last(fs).proc \in {"parse", "skip"}
<1> DEFINE n == Len(fs)
<1>1. n \in Nat \ {0} /\ DOMAIN fs = 1 .. n /\ Last(fs) = fs[n]
  BY Ends DEF Calls
<1>2. Last(fs).proc \in {"parse", "skip"}
  BY <1>1, SectionOfCall, CallFields DEF Calls
<1>3. DOMAIN SectionsOf(fs) = 1 .. n - 1
  BY DEF SectionsOf
<1>4. CASE Last(fs).proc = "parse"
  <2>1. ASSUME NEW i \in 1 .. n - 1 PROVE SectionsOf(fs)[i].live
    <3>1. fs[i + 1].proc = "parse" /\ fs[i + 1] \in Call
      <4>1. i + 1 \in DOMAIN fs /\ i + 1 # 1 /\ Last(fs).proc # "skip"
        BY <1>1, <1>4
      <4> QED
        BY <4>1, AllRead DEF Calls
    <3> QED
      BY <3>1, SectionsType, SectionOfCall
  <2> QED
    BY <1>3, <1>4, <2>1 DEF AllLive
<1>5. CASE Last(fs).proc = "skip"
  <2>1. n # 1
    BY <1>1, <1>5, CallFields DEF Calls
  <2>2. n - 1 \in 1 .. n - 1 /\ n - 1 + 1 = n
    BY <1>1, <2>1
  <2>3. ~SectionsOf(fs)[n - 1].live
    BY <1>1, <1>5, <2>2, SectionsType, SectionOfCall
  <2> QED
    BY <1>3, <1>5, <2>2, <2>3 DEF AllLive
<1> QED
  BY <1>2, <1>4, <1>5

(* A section begins.                                                       *)
LEMMA SectionBegins ==
  ASSUME NEW fs, Calls(fs), NEW c \in Call
  PROVE  SectionsOf(Append(fs, c)) = Append(SectionsOf(fs), SectionOf(c))
<1> DEFINE n == Len(fs)
           a == SectionsOf(Append(fs, c))
           b == Append(SectionsOf(fs), SectionOf(c))
<1>1. /\ n \in Nat \ {0} /\ Len(Append(fs, c)) = n + 1
      /\ Append(fs, c)[n + 1] = c
      /\ \A i \in 1 .. n : Append(fs, c)[i] = fs[i]
  <2>1. fs \in Seq(Call \cup {FileCall}) /\ c \in Call \cup {FileCall}
    BY DEF Calls
  <2> QED
    BY <2>1, AppendProperties, Ends DEF Calls
<1>2. /\ b \in Seq(SectionType) /\ Len(b) = n /\ b[n] = SectionOf(c)
      /\ \A i \in 1 .. n - 1 : b[i] = SectionOf(fs[i + 1])
  <2>1. SectionsOf(fs) \in Seq(SectionType) /\ Len(SectionsOf(fs)) = n - 1
    BY SectionsType
  <2>2. SectionOf(c) \in SectionType
    BY SectionOfCall
  <2>3. \A i \in 1 .. n - 1 : SectionsOf(fs)[i] = SectionOf(fs[i + 1])
    BY SectionsType
  <2> QED
    BY <1>1, <2>1, <2>2, <2>3, AppendProperties
<1>3. a = [i \in 1 .. n |-> SectionOf(Append(fs, c)[i + 1])]
  BY <1>1 DEF SectionsOf
<1> HIDE DEF a, b
<1>4. ASSUME NEW i \in 1 .. n PROVE a[i] = b[i]
  <2>1. CASE i = n
    BY <1>1, <1>2, <1>3, <2>1
  <2>2. CASE i # n
    <3>1. i \in 1 .. n - 1 /\ i + 1 \in 1 .. n
      BY <1>1, <2>2
    <3> QED
      BY <1>1, <1>2, <1>3, <3>1
  <2> QED
    BY <2>1, <2>2
<1>5. /\ n \in Nat /\ DOMAIN a = 1 .. n /\ DOMAIN b = 1 .. n
      /\ a = [i \in 1 .. n |-> a[i]] /\ b = [i \in 1 .. n |-> b[i]]
  BY <1>1, <1>2, <1>3, LenProperties
<1> QED
  BY <1>4, <1>5 DEF a, b

(* A section ends, or goes on with its other half.                         *)
LEMMA SectionEnds ==
  ASSUME NEW fs, Calls(fs), Len(fs) > 1, NEW c \in Call
  PROVE  /\ SectionsOf(fs) # <<>>
         /\ Last(SectionsOf(fs)) = SectionOf(Last(fs)) /\ Last(fs) \in Call
         /\ SectionsOf(Front(fs)) = Front(SectionsOf(fs))
         /\ SectionsOf([fs EXCEPT ![Len(fs)] = c]) =
              Append(Front(SectionsOf(fs)), SectionOf(c))
<1> DEFINE n == Len(fs)
           all == SectionsOf(fs)
           outer == Front(all)
<1>1. /\ n \in Nat \ {0} /\ n > 1 /\ DOMAIN fs = 1 .. n /\ Last(fs) = fs[n]
      /\ Len(Front(fs)) = n - 1 /\ \A i \in 1 .. n - 1 : Front(fs)[i] = fs[i]
  BY Ends DEF Calls
<1>2. /\ all \in Seq(SectionType) /\ Len(all) = n - 1
      /\ \A i \in 1 .. n - 1 : all[i] = SectionOf(fs[i + 1]) /\ fs[i + 1] \in Call
  BY SectionsType
<1>3. all # <<>>
  BY <1>1, <1>2
<1>4. Last(all) = SectionOf(Last(fs)) /\ Last(fs) \in Call
  <2>1. n - 1 \in 1 .. n - 1 /\ n - 1 + 1 = n
    BY <1>1
  <2> HIDE DEF all
  <2> QED
    BY <1>1, <1>2, <2>1 DEF Last
<1> HIDE DEF all
<1>5. /\ outer \in Seq(SectionType) /\ Len(outer) = n - 2
      /\ \A i \in 1 .. n - 2 : outer[i] = all[i]
  <2>1. /\ Front(all) \in Seq(SectionType) /\ Len(Front(all)) = Len(all) - 1
        /\ \A i \in 1 .. Len(all) - 1 : Front(all)[i] = all[i]
    BY <1>2, <1>3, Ends
  <2> QED
    BY <1>1, <1>2, <2>1
<1> HIDE DEF outer
<1>6. SectionsOf(Front(fs)) = outer
  <2>1. SectionsOf(Front(fs)) = [i \in 1 .. n - 2 |-> SectionOf(Front(fs)[i + 1])]
    BY <1>1 DEF SectionsOf
  <2> DEFINE a == SectionsOf(Front(fs))
  <2>2. ASSUME NEW i \in 1 .. n - 2 PROVE a[i] = outer[i]
    <3>1. i \in 1 .. n - 1 /\ i + 1 \in 1 .. n - 1
      BY <1>1
    <3> QED
      BY <1>1, <1>2, <1>5, <2>1, <3>1
  <2>3. /\ n - 2 \in Nat /\ DOMAIN outer = 1 .. n - 2 /\ outer = [i \in 1 .. n - 2 |-> outer[i]]
        /\ a = [i \in 1 .. n - 2 |-> a[i]]
    BY <1>1, <1>5, <2>1, LenProperties
  <2> HIDE DEF a
  <2> QED
    BY <2>2, <2>3 DEF a
<1>7. SectionsOf([fs EXCEPT ![n] = c]) = Append(outer, SectionOf(c))
  <2> DEFINE gs == [fs EXCEPT ![n] = c]
             a == SectionsOf(gs)
             b == Append(outer, SectionOf(c))
  <2>1. Len(gs) = n /\ gs[n] = c /\ \A i \in 1 .. n - 1 : gs[i] = fs[i]
    <3>1. fs \in Seq(Call \cup {FileCall}) /\ c \in Call \cup {FileCall} /\ n \in 1 .. Len(fs)
      BY <1>1 DEF Calls
    <3> QED
      BY <1>1, <3>1, ExceptSeq
  <2> HIDE DEF gs
  <2>2. a = [i \in 1 .. n - 1 |-> SectionOf(gs[i + 1])]
    BY <2>1 DEF SectionsOf
  <2>3. /\ b \in Seq(SectionType) /\ Len(b) = n - 1 /\ b[n - 1] = SectionOf(c)
        /\ \A i \in 1 .. n - 2 : b[i] = outer[i]
    <3>1. SectionOf(c) \in SectionType
      BY SectionOfCall
    <3>2. n - 2 + 1 = n - 1 /\ n - 1 # 0 /\ n \in Nat
      BY <1>1
    <3> QED
      BY <1>5, <3>1, <3>2, AppendProperties
  <2> HIDE DEF a, b
  <2>4. ASSUME NEW i \in 1 .. n - 1 PROVE a[i] = b[i]
    <3>1. CASE i = n - 1
      BY <1>1, <2>1, <2>2, <2>3, <3>1
    <3>2. CASE i # n - 1
      <4>1. i \in 1 .. n - 2 /\ i + 1 \in 1 .. n - 1
        <5>1. n \in Nat /\ n > 1
          BY <1>1
        <5> HIDE DEF n
        <5> QED
          BY <3>2, <5>1
      <4> QED
        BY <1>2, <1>5, <2>1, <2>2, <2>3, <4>1
    <3> QED
      BY <3>1, <3>2
  <2>5. /\ n - 1 \in Nat /\ DOMAIN b = 1 .. n - 1 /\ b = [i \in 1 .. n - 1 |-> b[i]]
        /\ a = [i \in 1 .. n - 1 |-> a[i]]
    BY <1>1, <2>2, <2>3, LenProperties
  <2> QED
    BY <2>4, <2>5 DEF a, b, gs
<1> QED
  BY <1>3, <1>4, <1>6, <1>7 DEF all, outer

(* No section is open just if the call for the file is the only one.       *)
LEMMA NoSection ==
  ASSUME NEW fs, Calls(fs)
  PROVE  /\ Len(fs) \in Nat \ {0}
         /\ Last(fs) = FileCall => Len(fs) = 1
         /\ Len(fs) = 1 => Last(fs) = FileCall /\ SectionsOf(fs) = <<>>
         /\ Len(fs) # 1 => Len(fs) > 1 /\ SectionsOf(fs) # <<>> /\ Last(fs) \in Call
<1>1. /\ Len(fs) \in Nat \ {0} /\ DOMAIN fs = 1 .. Len(fs) /\ Last(fs) = fs[Len(fs)]
  BY Ends DEF Calls
<1>2. Len(fs) # 1 => Len(fs) > 1 /\ Last(fs) \in Call /\ Last(fs) # FileCall
  BY <1>1, CallFields DEF Calls, Half
<1>3. Len(fs) > 1 => SectionsOf(fs) # <<>>
  BY <1>1, SectionsType
<1>4. Len(fs) = 1 => Last(fs) = FileCall /\ SectionsOf(fs) = <<>>
  <2> HAVE Len(fs) = 1
  <2>1. SectionsOf(fs) = <<>>
    <3>1. SectionsOf(fs) \in Seq(SectionType) /\ Len(SectionsOf(fs)) = 0
      BY <1>1, SectionsType
    <3> QED
      BY <3>1, EmptySeq
  <2> QED
    BY <1>1, <2>1 DEF Calls
<1> QED
  BY <1>1, <1>2, <1>3, <1>4

-----------------------------------------------------------------------------
(***************************************************************************)
(* The invariant.                                                          *)
(***************************************************************************)
IsText(t) ==
  /\ t = [sections |-> t.sections, definitions |-> t.definitions, ok |-> t.ok]
  /\ t.ok \in BOOLEAN

(* Each macro in the table was defined by a line that says the same.       *)
MacroOf(l) == Defined[Operands(l)].def
Definer(l) == l.means.kind = "define" /\ l.means.wellFormed
MacrosAgree(ms, definitions) ==
  /\ definitions = [name \in DOMAIN ms |-> MacroMeans(ms[name])]
  /\ \A name \in DOMAIN ms : \E l \in Lines :
       Definer(l) /\ l.means.name = name /\ ms[name] = Stored(MacroOf(l))

Agrees(fs, ms, t) ==
  SectionsOf(fs) = t.sections /\ MacrosAgree(ms, t.definitions) /\ t.ok

(* The calls in progress once the call that returns has been answered.     *)
Answered ==
  IF pc # "return" THEN frames
  ELSE IF value = "0" THEN Front(frames)
  ELSE [frames EXCEPT ![Len(frames)] = SecondHalf]

(* The text with the line in it, as it stands there and as it is read.     *)
Now == After(text, line.means)
Here == After(text, Means)

(* What the line has to say is still ahead; or it was a directive, and     *)
(* what stands behind it is read like a line; or it is being read as text. *)
Ahead == pc # "text" /\ Trim[rest] = Solid(line) /\ Agrees(Answered, macros, text)
Past ==
  /\ pc # "text"
  /\ NoPound(rest)
  /\ line.means.kind \in {"ifdef", "ifndef", "else"}
  /\ line.means.kind = "else" => ~Live(Now)
  /\ Agrees(Answered, macros, Now)
Within ==
  /\ pc = "text"
  /\ Means.kind \in {"text", "ifdef", "ifndef"}
  /\ Agrees(frames, macros, Here) /\ Live(Here)

OnLine ==
  /\ line \in Lines
  /\ rest \in Ended
  /\ pc = "return" => Len(frames) > 1
  /\ Ahead \/ Past \/ Within
BehindLines ==
  /\ line = NoLine /\ rest = <<>> /\ text.ok
  /\ pc = "text" => continued /\ Live(text)

LineInv == pc \in {"loop", "text", "return"} => OnLine \/ BehindLines

TextInv == IsText(text) /\ lineNo \in Nat

(* Text goes on behind a line's end only in the midst of text.             *)
ContinuedInv == continued \in BOOLEAN /\ (continued => pc = "text")

DoneInv == pc = "done" => text.ok

LiveInv ==
  FramesInv /\ TextInv /\ ContinuedInv /\ LineInv /\ DoneInv /\ RefusesOnlyBad

-----------------------------------------------------------------------------
(* What a line does to the text before it.                                 *)
LEMMA ChangesWith ==
  ASSUME NEW t, IsText(t), NEW x
  PROVE  /\ IsText([t EXCEPT !.sections = x])
         /\ [t EXCEPT !.sections = x].sections = x
         /\ [t EXCEPT !.sections = x].definitions = t.definitions
         /\ [t EXCEPT !.sections = x].ok = t.ok
         /\ IsText([t EXCEPT !.definitions = x])
         /\ [t EXCEPT !.definitions = x].sections = t.sections
         /\ [t EXCEPT !.definitions = x].definitions = x
         /\ [t EXCEPT !.definitions = x].ok = t.ok
         /\ [t EXCEPT !.ok = x] = [sections |-> t.sections, definitions |-> t.definitions, ok |-> x]
BY DEF IsText

(* What is left of the text by a line that is bad, or that opens a         *)
(* section.                                                                *)
LEMMA Changes ==
  ASSUME NEW t, IsText(t)
  PROVE  /\ IsText(Bad(t)) /\ ~Bad(t).ok
         /\ \A live :
              /\ Opened(t, live).sections = Append(t.sections, Section(live, FALSE))
              /\ Opened(t, live).definitions = t.definitions /\ Opened(t, live).ok = t.ok
              /\ IsText(Opened(t, live))
<1>1. IsText(Bad(t)) /\ ~Bad(t).ok
  <2> DEFINE no == FALSE
  <2>1. Bad(t) = [t EXCEPT !.ok = no]
    BY DEF Bad
  <2> HIDE DEF no
  <2>2. [t EXCEPT !.ok = no] = [sections |-> t.sections, definitions |-> t.definitions, ok |-> no]
    BY ChangesWith
  <2>3. Bad(t) = [sections |-> t.sections, definitions |-> t.definitions, ok |-> FALSE]
    BY <2>1, <2>2 DEF no
  <2> QED
    BY <2>3 DEF IsText
<1>2. ASSUME NEW live
      PROVE  /\ Opened(t, live).sections = Append(t.sections, Section(live, FALSE))
             /\ Opened(t, live).definitions = t.definitions /\ Opened(t, live).ok = t.ok
             /\ IsText(Opened(t, live))
  <2> DEFINE x == Append(t.sections, Section(live, FALSE))
  <2>1. Opened(t, live) = [t EXCEPT !.sections = x]
    BY DEF Opened
  <2> HIDE DEF x
  <2>2. /\ IsText([t EXCEPT !.sections = x])
        /\ [t EXCEPT !.sections = x].sections = x
        /\ [t EXCEPT !.sections = x].definitions = t.definitions
        /\ [t EXCEPT !.sections = x].ok = t.ok
    BY ChangesWith
  <2> QED
    BY <2>1, <2>2 DEF x
<1> QED
  BY <1>1, <1>2

(* No line leaves anything but a text.                                     *)
LEMMA AfterText ==
  ASSUME NEW t, IsText(t), NEW m
  PROVE  IsText(After(t, m))
<1>1. IsText(Conditional(t, m))
  BY Changes DEF Conditional
<1>2. IsText(Else(t))
  <2> DEFINE outer == Front(t.sections)
             other == Append(outer, Section(AllLive(outer) /\ ~Last(t.sections).live, TRUE))
  <2>1. Else(t) = Bad(t) \/ Else(t) = [t EXCEPT !.sections = other]
    BY DEF Else
  <2> HIDE DEF other
  <2>2. IsText([t EXCEPT !.sections = other])
    BY ChangesWith
  <2> QED
    BY <2>1, <2>2, Changes
<1>3. IsText(Endif(t, m))
  <2> DEFINE outer == Front(t.sections)
  <2>1. Endif(t, m) = Bad(t) \/ Endif(t, m) = [t EXCEPT !.sections = outer]
    BY DEF Endif
  <2> HIDE DEF outer
  <2>2. IsText([t EXCEPT !.sections = outer])
    BY ChangesWith
  <2> QED
    BY <2>1, <2>2, Changes
<1>4. IsText(Define(t, m))
  <2> DEFINE definitions == [name \in DOMAIN t.definitions \cup {m.name} |->
                               IF name = m.name THEN m.definition ELSE t.definitions[name]]
  <2>1. \/ Define(t, m) = Bad(t) \/ Define(t, m) = t
        \/ Define(t, m) = [t EXCEPT !.definitions = definitions]
    BY DEF Define
  <2> HIDE DEF definitions
  <2>2. IsText([t EXCEPT !.definitions = definitions])
    BY ChangesWith
  <2> QED
    BY <2>1, <2>2, Changes
<1>5. \/ After(t, m) = Conditional(t, m) \/ After(t, m) = Else(t)
      \/ After(t, m) = Endif(t, m) \/ After(t, m) = Define(t, m)
      \/ After(t, m) = Bad(t) \/ After(t, m) = t
  BY DEF After
<1> QED
  BY <1>1, <1>2, <1>3, <1>4, <1>5, Changes

(* The text goes on with the line once the line has been read.             *)
LEMMA TextStep ==
  ASSUME TextInv, LiveNext
  PROVE  TextInv'
<1>1. IsText(text')
  <2>1. IsText(text) /\ IsText(After(text, Means))
    BY AfterText DEF TextInv
  <2>2. text' = After(text, Means) \/ text' = text
    BY DEF LiveNext
  <2> HIDE DEF IsText
  <2> QED
    BY <2>1, <2>2
<1>2. lineNo' \in Nat
  <2> DEFINE Counts == lineNo' = lineNo \/ lineNo' = lineNo + 1
  <2>1. NextLine => Counts
    BY DEF NextLine
  <2>2. \A tokens : Goto(tokens) => Counts
    BY <2>1 DEF Goto
  <2>3. Fail \/ LineDone => Counts
    BY <2>1 DEF Fail, LineDone, file
  <2>4. \A t, tokens : AddToken(t, tokens) => Counts
    BY <2>2 DEF AddToken
  <2> HIDE DEF Counts
  <2>5. AddLeading \/ BeginText \/ AddText => Counts
    BY <2>2, <2>4 DEF AddLeading, BeginText, AddText
  <2>6. NakedPound \/ Warn \/ ParseFails \/ SkipLine \/ SkipFails => Counts
    BY <2>3 DEF NakedPound, Warn, ParseFails, SkipLine, SkipFails
  <2>7. ProcessDefine => Counts
    BY <2>1, <2>3 DEF ProcessDefine, Counts, file
  <2>8. ProcessIfdef => Counts
    BY <2>2, <2>3 DEF ProcessIfdef
  <2>9. ParseElse \/ ParseEndif => Counts
    BY <2>1, <2>2, <2>3 DEF ParseElse, ParseEndif
  <2>10. SkipNested \/ SkipElse \/ SkipEndif => Counts
    BY <2>1, <2>3 DEF SkipNested, SkipElse, SkipEndif
  <2>11. EndOfFile \/ HandOver \/ ReturnZero => Counts
    BY DEF EndOfFile, HandOver, ReturnZero, file, Counts
  <2>12. Counts
    BY <2>5, <2>6, <2>7, <2>8, <2>9, <2>10, <2>11 DEF LiveNext, PreprocNext
  <2> QED
    BY <2>12 DEF TextInv, Counts
<1> QED
  BY <1>1, <1>2 DEF TextInv, IsText

(* Steps are taken only while a line is read or a call returns.            *)
LEMMA WhileReading ==
  ASSUME PreprocNext
  PROVE  pc \in {"loop", "text", "return"}
BY DEF PreprocNext, AddLeading, BeginText, AddText, NakedPound, Warn, ProcessDefine,
     ProcessIfdef, ParseElse, ParseEndif, ParseFails, Directive, Parsing, SkipLine,
     SkipNested, SkipElse, SkipEndif, SkipFails, SkipDirective, Skipping, EndOfFile,
     HandOver, ReturnZero

(* A newline that is read as such ends the text.                           *)
LEMMA ContinuedStep ==
  ASSUME LiveInv, PreprocNext
  PROVE  ContinuedInv'
<1>1. continued \in BOOLEAN /\ (pc # "text" => ~continued)
  BY DEF LiveInv, ContinuedInv
<1>2. ASSUME NEW t, NEW tokens, AddToken(t, tokens)
      PROVE  /\ continued' \in BOOLEAN
             /\ IsNewline(t) => (continued' = (continued /\ tokens # <<>>))
  <2>1. CASE ~(IsName(t) /\ IsDefined(t))
    BY <1>2, <2>1 DEF AddToken
  <2>2. CASE IsName(t) /\ IsDefined(t)
    <3>1. continued' \in BOOLEAN
      <4>1. CASE macros[t.string].is_function
        BY <1>2, <2>2, <4>1 DEF AddToken
      <4>2. CASE ~macros[t.string].is_function
        BY <1>1, <1>2, <2>2, <4>2 DEF AddToken, Quiet
      <4> QED
        BY <4>1, <4>2
    <3> QED
      BY <2>2, <3>1 DEF IsName, IsNewline
  <2> QED
    BY <2>1, <2>2
<1>3. CASE AddText
  <2>1. rest = <<>> \/ rest \in Ended
    BY <1>3 DEF AddText, LiveInv, LineInv, OnLine, BehindLines
  <2>2. IsNewline(NewlineToken)
    BY DEF IsNewline, NewlineToken, Token
  <2>3. CASE rest = <<>>
    BY <1>2, <1>3, <2>2, <2>3 DEF AddText, ContinuedInv
  <2>4. CASE rest \in Ended
    <3>1. rest # <<>>
      BY <2>4, EndedFacts
    <3>2. AddToken(Head(rest), Tail(rest)) /\ pc' = InText(Head(rest))
      BY <1>3, <3>1 DEF AddText
    <3>3. CASE IsNewline(Head(rest))
      <4>1. Tail(rest) = <<>>
        BY <2>4, <3>3, EndedFacts
      <4> QED
        BY <1>2, <3>2, <3>3, <4>1 DEF ContinuedInv
    <3>4. CASE ~IsNewline(Head(rest))
      BY <1>2, <3>2, <3>4 DEF ContinuedInv, InText
    <3> QED
      BY <3>3, <3>4
  <2> QED
    BY <2>1, <2>3, <2>4
<1>4. CASE BeginText
  <2>1. AddToken(Head(rest), Tail(rest)) /\ pc' = InText(Head(rest)) /\ pc = "loop"
    BY <1>4 DEF BeginText, Parsing
  <2>2. CASE IsNewline(Head(rest))
    BY <1>1, <1>2, <2>1, <2>2 DEF ContinuedInv
  <2>3. CASE ~IsNewline(Head(rest))
    BY <1>2, <2>1, <2>3 DEF ContinuedInv, InText
  <2> QED
    BY <2>2, <2>3
<1>5. CASE ~AddText /\ ~BeginText
  <2>1. pc # "text"
    BY <1>5 DEF PreprocNext, AddLeading, NakedPound, Warn, ProcessDefine,
       ProcessIfdef, ParseElse, ParseEndif, ParseFails, Directive, Parsing, SkipLine,
       SkipNested, SkipElse, SkipEndif, SkipFails, SkipDirective, Skipping, EndOfFile,
       HandOver, ReturnZero
  <2>2. continued' = continued
    <3>1. Quiet \/ Fail \/ LineDone => continued' = continued
      BY DEF Quiet, Fail, LineDone
    <3>2. AddLeading => continued' = continued
      BY DEF AddLeading
    <3>3. NakedPound \/ Warn \/ ProcessDefine \/ ProcessIfdef => continued' = continued
      BY <3>1 DEF NakedPound, Warn, ProcessDefine, ProcessIfdef
    <3>4. ParseElse \/ ParseEndif \/ ParseFails => continued' = continued
      BY <3>1 DEF ParseElse, ParseEndif, ParseFails
    <3>5. SkipLine \/ SkipNested \/ SkipElse \/ SkipEndif \/ SkipFails => continued' = continued
      BY <3>1 DEF SkipLine, SkipNested, SkipElse, SkipEndif, SkipFails
    <3>6. EndOfFile \/ HandOver \/ ReturnZero => continued' = continued
      BY <3>1 DEF EndOfFile, HandOver, ReturnZero
    <3> QED
      BY <1>5, <3>2, <3>3, <3>4, <3>5, <3>6 DEF PreprocNext
  <2> QED
    BY <1>1, <2>1, <2>2 DEF ContinuedInv
<1> QED
  BY <1>3, <1>4, <1>5

(* What a step leaves of the text before the line.                         *)
NewText == text' = IF LineRead THEN Here ELSE text

(* A line that does not go on with another is read as it stands there.     *)
LEMMA AsItStands ==
  ASSUME ~continued
  PROVE  Means = line.means /\ Here = Now
BY DEF Means, Here, Now

(* There is no line behind the last.                                       *)
LEMMA NoLineIsNone == NoLine \notin Lines
<1> SUFFICES ASSUME NoLine \in Lines PROVE FALSE
  OBVIOUS
<1>1. NoLine.tokens \in Ended
  BY LinesAssumption
<1> QED
  BY <1>1, EndedFacts DEF NoLine

(* The line is passed: then its meaning is part of the text.               *)
LEMMA Passed ==
  ASSUME TextInv, NewText, line \in Lines, NextLine
  PROVE  /\ LineRead /\ text' = Here
         /\ \/ line' = NoLine /\ rest' = <<>>
            \/ line' \in Lines /\ rest' \in Ended /\ Trim[rest'] = Solid(line')
<1>2. CASE line' = NoLine /\ rest' = <<>> /\ lineNo' = lineNo
  <2>1. LineRead
    BY <1>2, NoLineIsNone DEF LineRead
  <2> QED
    BY <1>2, <2>1 DEF NewText
<1>3. CASE lineNo' = lineNo + 1 /\ \E l \in Lines : line' = l /\ rest' = l.tokens
  <2>1. LineRead
    BY <1>3 DEF LineRead, TextInv
  <2>2. line' \in Lines /\ rest' = line'.tokens
    BY <1>3
  <2>3. rest' \in Ended
    BY <2>2, LinesAssumption
  <2> QED
    BY <2>1, <2>2, <2>3 DEF NewText, Solid
<1> QED
  BY <1>2, <1>3 DEF NextLine

(* Something is left of the line.                                          *)
LEMMA Kept ==
  ASSUME NewText, NEW tokens \in Ended, Goto(tokens)
  PROVE  ~LineRead /\ text' = text /\ line' = line /\ rest' = tokens
<1>1. tokens # <<>>
  BY EndedFacts
<1>2. rest' = tokens /\ line' = line /\ lineNo' = lineNo
  BY <1>1 DEF Goto
<1> QED
  BY <1>2 DEF NewText, LineRead

(* A token of text is added, or expanded; what is expanded may take the    *)
(* newline away.                                                           *)
LEMMA TokenAdded ==
  ASSUME TextInv, ContinuedInv, NewText, line \in Lines, rest \in Ended,
         AddToken(Head(rest), Tail(rest))
  PROVE  \/ IsNewline(Head(rest)) /\ NextLine
         \/ ~IsNewline(Head(rest)) /\ NextLine /\ continued'
         \/ /\ ~IsNewline(Head(rest)) /\ continued' = continued
            /\ text' = text /\ line' = line /\ rest' \in Ended
<1> DEFINE t == Head(rest)
           tokens == Tail(rest)
           args == Parms(tokens)
<1>1. CASE IsNewline(t)
  <2>1. tokens = <<>> /\ ~IsName(t)
    BY <1>1, EndedFacts DEF IsNewline, IsName
  <2>2. Goto(tokens)
    BY <2>1 DEF AddToken
  <2> QED
    BY <1>1, <2>1, <2>2 DEF Goto
<1>2. CASE ~IsNewline(t)
  <2>1. tokens \in Ended /\ tokens # <<>>
    BY <1>2, EndedFacts
  <2>2. \/ Goto(tokens) /\ continued' = continued
        \/ Goto(args.rest) /\ continued' = (continued \/ args.rest = <<>>)
    BY <2>1 DEF AddToken, Quiet, ContinuedInv
  <2>3. args.rest \in Ended \cup {<<>>}
    BY <2>1, ParmsInLine
  <2> HIDE DEF tokens, args
  <2>4. CASE Goto(tokens) /\ continued' = continued
    BY <1>2, <2>1, <2>4, Kept
  <2>5. CASE Goto(args.rest) /\ continued' = (continued \/ args.rest = <<>>)
    <3>1. CASE args.rest = <<>>
      BY <1>2, <2>5, <3>1 DEF Goto
    <3>2. CASE args.rest # <<>>
      <4>1. args.rest \in Ended /\ continued' = continued
        BY <2>3, <2>5, <3>2 DEF ContinuedInv
      <4> QED
        BY <1>2, <2>5, <4>1, Kept
    <3> QED
      BY <3>1, <3>2
  <2> QED
    BY <2>2, <2>4, <2>5
<1> QED
  BY <1>1, <1>2

(* A line that was passed leaves the calls in line with its meaning.       *)
LEMMA LinePassed ==
  ASSUME TextInv, NewText, line \in Lines, NextLine,
         pc' \in {"loop", "return"}, pc' = "return" => Len(frames') > 1,
         Agrees(Answered', macros', Here)
  PROVE  LineInv' /\ DoneInv' /\ RefusesOnlyBad'
<1>1. /\ text' = Here
      /\ \/ line' = NoLine /\ rest' = <<>>
         \/ line' \in Lines /\ rest' \in Ended /\ Trim[rest'] = Solid(line')
  BY Passed
<1>2. Agrees(Answered', macros', text') /\ text'.ok
  BY <1>1 DEF Agrees
<1>3. CASE line' = NoLine /\ rest' = <<>>
  <2>1. BehindLines'
    BY <1>2, <1>3 DEF BehindLines
  <2> QED
    BY <2>1 DEF LineInv, DoneInv, RefusesOnlyBad
<1>4. CASE line' \in Lines /\ rest' \in Ended /\ Trim[rest'] = Solid(line')
  <2>1. Ahead'
    BY <1>2, <1>4 DEF Ahead
  <2>2. OnLine'
    BY <1>4, <2>1 DEF OnLine
  <2> QED
    BY <2>2 DEF LineInv, DoneInv, RefusesOnlyBad
<1> QED
  BY <1>1, <1>3, <1>4

(* So does a line that stands by itself.                                   *)
LEMMA NewLine ==
  ASSUME TextInv, NewText, ~continued, line \in Lines, NextLine,
         pc' \in {"loop", "return"}, pc' = "return" => Len(frames') > 1,
         Agrees(Answered', macros', Now)
  PROVE  LineInv' /\ DoneInv' /\ RefusesOnlyBad'
BY AsItStands, LinePassed

(* The parser gives up, at a line at which it may.                         *)
LEMMA GivesUp ==
  ASSUME NewText, ~continued, Fail,
         \/ ~Now.ok
         \/ ~Live(text) /\ line.means.kind \in {"elif", "undef", "unknown"}
  PROVE  LineInv' /\ DoneInv' /\ RefusesOnlyBad'
<1>1. pc' = "failed" /\ line' = line /\ text' = text /\ continued' = continued
  BY DEF NewText, LineRead, Fail, Quiet, file
<1>2. Means' = line.means
  BY <1>1 DEF Means
<1> QED
  BY <1>1, <1>2 DEF LineInv, DoneInv, RefusesOnlyBad, Now

(* A directive is read.                                                    *)
LEMMA AtDirective ==
  ASSUME line \in Lines, rest \in Ended, pc = "loop", Ahead \/ Past \/ Within,
         Head(Trim[rest]).id = "T__POUND"
  PROVE  /\ Trim[rest] = Solid(line) /\ IsDirective(line)
         /\ Agrees(frames, macros, text)
         /\ line.means.kind = KindOf(Head(WordsOf(line)).string)
         /\ LineMeans(line)
<1>1. Ahead
  BY DEF Past, Within, NoPound
<1>2. Trim[rest] = Solid(line) /\ IsDirective(line)
  BY <1>1 DEF Ahead, IsDirective
<1>3. LineMeans(line)
  BY MeansAssumption
<1> QED
  BY <1>1, <1>2, <1>3 DEF Ahead, Answered, LineMeans

(* The parser is at a directive: nothing of the line has been read before. *)
LEMMA ReadDirective ==
  ASSUME NEW names, Directive(names), line \in Lines, rest \in Ended, Ahead \/ Past \/ Within
  PROVE  /\ pc = "loop" /\ Top.proc = "parse"
         /\ words = WordsOf(line) /\ Head(WordsOf(line)).string \in names
         /\ WordsOf(line) \in Ended
         /\ Agrees(frames, macros, text)
         /\ line.means.kind = KindOf(Head(WordsOf(line)).string)
         /\ LineMeans(line) /\ IsDirective(line)
<1>1. /\ pc = "loop" /\ Top.proc = "parse" /\ Head(rest).id = "T__POUND"
      /\ Head(words).string \in names
  BY DEF Directive, Parsing
<1>2. Trim[rest] = rest
  BY <1>1, TrimFacts DEF IsSpace
<1>3. words = WordsOf(line) /\ words \in Ended
  <2>1. rest = Solid(line)
    BY <1>1, <1>2, AtDirective
  <2> QED
    BY <1>1, <2>1, Behind DEF words, WordsOf
<1> QED
  BY <1>1, <1>2, <1>3, AtDirective

(* So is the skipping half.                                                *)
LEMMA SkippedDirective ==
  ASSUME Skipping, Head(skipped).id = "T__POUND", line \in Lines, rest \in Ended,
         Ahead \/ Past \/ Within
  PROVE  /\ pc = "loop" /\ Top.proc = "skip"
         /\ SkippedWord = Head(WordsOf(line)).string
         /\ Agrees(frames, macros, text)
         /\ line.means.kind = KindOf(SkippedWord)
BY AtDirective DEF Skipping, SkippedWord, skipped, WordsOf

(* The parser is in live text, the skipping half in dead text.             *)
LEMMA LiveOrDead ==
  ASSUME FramesInv, pc # "done", NEW ms, NEW t, Agrees(frames, ms, t)
  PROVE  /\ Live(t) <=> Top.proc = "parse"
         /\ Top.proc \in {"parse", "skip"} /\ Calls(frames)
BY LiveTop DEF FramesInv, Agrees, Live, Top

-----------------------------------------------------------------------------
(* Text.                                                                   *)
LEMMA TextRead ==
  ASSUME TextInv, ContinuedInv, NewText, line \in Lines, rest \in Ended,
         AddToken(Head(rest), Tail(rest)), pc' = InText(Head(rest)),
         UNCHANGED <<frames, value, macros>>,
         Means.kind \in {"text", "ifdef", "ifndef"},
         Agrees(frames, macros, Here), Live(Here)
  PROVE  LineInv' /\ DoneInv' /\ RefusesOnlyBad'
<1>1. CASE IsNewline(Head(rest)) /\ NextLine
  <2>1. pc' = "loop" /\ Answered' = frames /\ macros' = macros
    BY <1>1 DEF InText, Answered
  <2> QED
    BY <1>1, <2>1, LinePassed
<1>2. CASE ~IsNewline(Head(rest)) /\ NextLine /\ continued'
  <2>1. pc' = "text"
    BY <1>2 DEF InText
  <2>2. /\ text' = Here
        /\ \/ line' = NoLine /\ rest' = <<>>
           \/ line' \in Lines /\ rest' \in Ended
    BY <1>2, Passed
  <2>3. Means'.kind = "text" /\ Here' = text'
    BY <1>2 DEF Means, Here, After
  <2>4. Agrees(frames', macros', text') /\ Live(text') /\ text'.ok
    BY <2>2 DEF Agrees
  <2>5. Within'
    BY <2>1, <2>3, <2>4 DEF Within
  <2>6. OnLine' \/ BehindLines'
    BY <1>2, <2>1, <2>2, <2>4, <2>5 DEF OnLine, BehindLines
  <2> QED
    BY <2>1, <2>6 DEF LineInv, DoneInv, RefusesOnlyBad
<1>3. CASE /\ ~IsNewline(Head(rest)) /\ continued' = continued
           /\ text' = text /\ line' = line /\ rest' \in Ended
  <2>1. pc' = "text" /\ Means' = Means /\ Here' = Here
    BY <1>3 DEF InText, Means, Here
  <2>2. Within'
    BY <1>3, <2>1 DEF Within
  <2>3. OnLine'
    BY <1>3, <2>1, <2>2 DEF OnLine
  <2> QED
    BY <2>1, <2>3 DEF LineInv, DoneInv, RefusesOnlyBad
<1> QED
  BY <1>1, <1>2, <1>3, TokenAdded

(* Text begins in a live line of text, or behind a directive that opens a  *)
(* live section.                                                           *)
LEMMA TextBegins ==
  ASSUME LiveInv, OnLine, pc = "loop", Top.proc = "parse", Head(Trim[rest]).id # "T__POUND"
  PROVE  /\ line.means.kind \in {"text", "ifdef", "ifndef"}
         /\ Agrees(frames, macros, Now) /\ Live(Now)
<1>1. line \in Lines
  BY DEF OnLine
<1>2. CASE Ahead
  <2>1. Agrees(frames, macros, text) /\ ~IsDirective(line)
    BY <1>2 DEF Ahead, Answered, IsDirective
  <2>2. line.means.kind = "text"
    BY <1>1, <2>1, MeansAssumption DEF LineMeans
  <2>3. Now = text
    BY <2>2 DEF Now, After
  <2> QED
    BY <2>1, <2>2, <2>3, LiveOrDead DEF LiveInv
<1>3. CASE Past
  <2>1. Agrees(frames, macros, Now)
    BY <1>3 DEF Past, Answered
  <2>2. Live(Now)
    BY <2>1, LiveOrDead DEF LiveInv
  <2> QED
    BY <1>3, <2>1, <2>2 DEF Past
<1> QED
  BY <1>2, <1>3 DEF OnLine, Within

(* A line of text, or what is behind a directive, begins.                  *)
LEMMA BeginTextStep ==
  ASSUME LiveInv, OnLine, BeginText, NewText
  PROVE  LineInv' /\ DoneInv' /\ RefusesOnlyBad'
<1>1. /\ pc = "loop" /\ Top.proc = "parse" /\ ~IsSpace(Head(rest)) /\ Head(rest).id # "T__POUND"
      /\ AddToken(Head(rest), Tail(rest)) /\ pc' = InText(Head(rest))
      /\ UNCHANGED <<frames, value, macros>>
  BY DEF BeginText, Parsing
<1>2. line \in Lines /\ rest \in Ended /\ TextInv /\ ContinuedInv
  BY DEF OnLine, LiveInv
<1>3. Trim[rest] = rest
  BY <1>1, <1>2, TrimFacts
<1>4. /\ Means.kind \in {"text", "ifdef", "ifndef"}
      /\ Agrees(frames, macros, Here) /\ Live(Here)
  BY <1>1, <1>2, <1>3, TextBegins, AsItStands DEF ContinuedInv
<1> QED
  BY <1>1, <1>2, <1>4, TextRead

(* The next token of text.                                                 *)
LEMMA AddTextStep ==
  ASSUME LiveInv, OnLine, AddText, NewText
  PROVE  LineInv' /\ DoneInv' /\ RefusesOnlyBad'
<1>1. line \in Lines /\ rest \in Ended /\ rest # <<>> /\ TextInv /\ ContinuedInv
  BY EndedFacts DEF OnLine, LiveInv
<1>2. /\ pc = "text" /\ AddToken(Head(rest), Tail(rest)) /\ pc' = InText(Head(rest))
      /\ UNCHANGED <<frames, value, macros>>
  BY <1>1 DEF AddText
<1>3. Within
  BY <1>2 DEF OnLine, Ahead, Past
<1> QED
  BY <1>1, <1>2, <1>3, TextRead DEF Within

(* The blanks at the start of a line.                                      *)
LEMMA AddLeadingStep ==
  ASSUME LiveInv, OnLine, AddLeading, NewText
  PROVE  LineInv' /\ DoneInv' /\ RefusesOnlyBad'
<1>1. /\ pc = "loop" /\ pc' = "loop" /\ IsSpace(Head(rest)) /\ Goto(Tail(rest))
      /\ UNCHANGED <<frames, value, macros>>
  BY DEF AddLeading, Parsing
<1>2. Tail(rest) \in Ended /\ Trim[Tail(rest)] = Trim[rest]
  BY <1>1, TrimFacts DEF OnLine
<1>3. text' = text /\ line' = line /\ rest' = Tail(rest)
  BY <1>1, <1>2, Kept
<1>4. Answered' = Answered /\ Now' = Now /\ macros' = macros
  BY <1>1, <1>3 DEF Answered, Now
<1>5. Ahead => Ahead'
  BY <1>1, <1>2, <1>3, <1>4 DEF Ahead
<1>6. Past => Past'
  BY <1>1, <1>2, <1>3, <1>4 DEF Past, NoPound
<1>7. OnLine'
  BY <1>1, <1>2, <1>3, <1>5, <1>6 DEF OnLine, Within
<1> QED
  BY <1>1, <1>7 DEF LineInv, DoneInv, RefusesOnlyBad

-----------------------------------------------------------------------------
(* Directives in live text.                                                *)

(* What a line that is a directive is made of.                             *)
LEMMA DirectiveLine ==
  ASSUME NEW l \in Lines,
         l.means.kind \in {"ifdef", "ifndef", "else", "endif", "define"}
  PROVE  /\ IsDirective(l) /\ WordsOf(l) \in Ended
         /\ Head(WordsOf(l)).string = l.means.kind
         /\ Tail(WordsOf(l)) \in Ended /\ Operands(l) \in Ended
<1>1. LineMeans(l)
  BY MeansAssumption
<1>2. IsDirective(l) /\ l.means.kind = KindOf(Head(WordsOf(l)).string)
  BY <1>1 DEF LineMeans
<1>3. Head(WordsOf(l)).string = l.means.kind
  BY <1>2 DEF KindOf
<1>4. Solid(l) \in Ended
  BY LinesAssumption, TrimFacts DEF Solid
<1>5. WordsOf(l) \in Ended
  BY <1>2, <1>4, Behind DEF IsDirective, WordsOf
<1>6. Tail(WordsOf(l)) \in Ended
  BY <1>3, <1>5, EndedFacts
<1>7. Operands(l) \in Ended
  BY <1>6, TrimFacts DEF Operands
<1> QED
  BY <1>2, <1>3, <1>5, <1>6, <1>7

(* What `#define` defines is named by the first of its operands.           *)
LEMMA MacroFields ==
  ASSUME NEW l \in Lines, Definer(l)
  PROVE  /\ MacroOf(l).name = Head(Operands(l)) /\ MacroOf(l).name.string = l.means.name
         /\ Stored(MacroOf(l)).name = MacroOf(l).name
         /\ Stored(MacroOf(l)).is_function = MacroOf(l).is_function
         /\ Stored(MacroOf(l)).parms = MacroOf(l).parms
<1> DEFINE ops == Operands(l)
           def == MacroOf(l)
<1>1. ops \in Tokens
  BY DirectiveLine DEF Definer, Ended
<1>2. \E f, p, b : def = Definition(Head(ops), f, p, b)
  BY <1>1 DEF MacroOf, Defined
<1>3. /\ def.name = Head(ops)
      /\ def = [name |-> def.name, is_function |-> def.is_function,
                parms |-> def.parms, body |-> def.body]
  BY <1>2 DEF Definition
<1>4. l.means.name = Head(ops).string
  <2>1. LineMeans(l)
    BY MeansAssumption
  <2> QED
    BY <2>1, DirectiveLine DEF Definer, LineMeans, DefineMeans, NameMeans
<1> HIDE DEF def, ops
<1>5. /\ Stored(def).name = def.name /\ Stored(def).is_function = def.is_function
      /\ Stored(def).parms = def.parms
  <2> DEFINE body == Normalized(Stripped[def.body])
  <2>1. Stored(def) = [def EXCEPT !.body = body]
    BY DEF Stored
  <2> HIDE DEF body
  <2> QED
    BY <1>3, <2>1
<1> QED
  BY <1>3, <1>4, <1>5 DEF def, ops

(* A table with another entry.                                             *)
With(f, name, x) ==
  [n \in DOMAIN f \cup {name} |-> IF n = name THEN x ELSE f[n]]

(* The parameters of a macro are the same just if the code, which does not *)
(* compare the text of blanks, takes them for it.                          *)
LEMMA SameParms ==
  ASSUME NEW ps \in Seq(ParmToken), NEW qs \in Seq(ParmToken)
  PROVE  ps = qs <=> /\ Len(ps) = Len(qs)
                     /\ \A i \in DOMAIN ps : SameToken(ps[i], qs[i])
<1>1. ASSUME NEW t \in ParmToken, NEW u \in ParmToken, SameToken(t, u)
      PROVE  t = u
  <2>1. /\ t = [id |-> t.id, string |-> t.string] /\ u = [id |-> u.id, string |-> u.string]
    BY DEF ParmToken, EmptyParm, Token
  <2>2. IsSpace(EmptyParm)
    BY DEF EmptyParm, Token, IsSpace
  <2>3. CASE IsSpace(t)
    <3>1. IsSpace(u)
      BY <1>1, <2>3 DEF SameToken, IsSpace
    <3>2. t = EmptyParm /\ u = EmptyParm
      BY <2>3, <3>1 DEF ParmToken
    <3> QED
      BY <3>2
  <2>4. CASE ~IsSpace(t)
    <3>1. t.id = u.id /\ t.string = u.string
      BY <1>1, <2>4 DEF SameToken
    <3> QED
      BY <2>1, <3>1
  <2> QED
    BY <2>3, <2>4
<1>2. Len(ps) \in Nat /\ DOMAIN ps = 1 .. Len(ps) /\ Len(qs) \in Nat
  BY LenProperties
<1>3. \A i \in 1 .. Len(ps) : ps[i] \in ParmToken
  BY ElementOfSeq
<1>4. \A i \in 1 .. Len(qs) : qs[i] \in ParmToken
  BY ElementOfSeq
<1>5. ASSUME Len(ps) = Len(qs), \A i \in DOMAIN ps : SameToken(ps[i], qs[i])
      PROVE  ps = qs
  <2>1. \A i \in 1 .. Len(ps) : ps[i] = qs[i]
    BY <1>1, <1>2, <1>3, <1>4, <1>5
  <2> QED
    BY <1>5, <2>1, SeqEqual
<1>6. ps = qs => Len(ps) = Len(qs) /\ \A i \in DOMAIN ps : SameToken(ps[i], qs[i])
  BY DEF SameToken
<1> QED
  BY <1>5, <1>6

(* A parameter list, or none.                                              *)
LEMMA MacroParms ==
  ASSUME NEW l \in Lines, Definer(l)
  PROVE  MacroOf(l).parms \in Seq(ParmToken)
<1> DEFINE ops == Operands(l)
           behind == Tail(ops)
           is_function == Head(behind).id = "T_PARENS_OPEN"
           list == IF is_function THEN Parms(Tail(behind)) ELSE Result(TRUE, <<>>, behind)
<1>1. ops \in Ended /\ ops \in Tokens
  BY DirectiveLine DEF Definer, Ended
<1>2. MacroOf(l).parms = list.parms
  BY <1>1 DEF MacroOf, Defined, Definition
<1>3. IsName(Head(ops))
  <2>1. LineMeans(l)
    BY MeansAssumption
  <2> QED
    BY <2>1, DirectiveLine DEF Definer, LineMeans, DefineMeans, Defines
<1> HIDE DEF ops
<1>4. behind \in Ended
  BY <1>1, <1>3, EndedFacts DEF IsName, IsNewline
<1> HIDE DEF behind
<1>5. CASE is_function
  <2>1. Tail(behind) \in Ended
    BY <1>4, <1>5, Behind
  <2> QED
    BY <1>2, <1>5, <2>1, ParmsInLine
<1>6. CASE ~is_function
  <2>1. list.parms = <<>>
    BY <1>6 DEF Result
  <2> QED
    BY <1>2, <2>1, EmptySeq
<1> QED
  BY <1>5, <1>6

(* The table takes a macro for a repetition just if its kind and its       *)
(* parameters are the same, and stays in line with the definitions when it *)
(* takes a new one.                                                        *)
LEMMA MacroAdded ==
  ASSUME NEW definitions, MacrosAgree(macros, definitions), line \in Lines, Definer(line)
  PROVE  LET name == line.means.name
             def  == MacroOf(line)
             meant == line.means.definition
         IN  /\ name \in DOMAIN macros <=> name \in DOMAIN definitions
             /\ name \in DOMAIN macros =>
                  (MacrosAreEqual(macros[name], def) <=> SameHead(definitions[name], meant))
             /\ name \notin DOMAIN macros /\ ~OutOfBounds(Stripped[def.body]) =>
                  MacrosAgree(With(macros, name, Stored(def)), With(definitions, name, meant))
<1> DEFINE name == line.means.name
           def == MacroOf(line)
           meant == line.means.definition
<1>1. DOMAIN macros = DOMAIN definitions
  BY DEF MacrosAgree
<1>2. /\ SameHead(meant, def)
      /\ ~OutOfBounds(Stripped[def.body]) => meant = MacroMeans(Stored(def))
  <2>1. LineMeans(line)
    BY MeansAssumption
  <2> QED
    BY <2>1, DirectiveLine DEF Definer, LineMeans, DefineMeans, MacroOf
<1>3. def.parms \in Seq(ParmToken)
  BY MacroParms
<1>4. ASSUME name \in DOMAIN macros
      PROVE  MacrosAreEqual(macros[name], def) <=> SameHead(definitions[name], meant)
  <2> DEFINE m == macros[name]
  <2>1. PICK k \in Lines : Definer(k) /\ k.means.name = name /\ m = Stored(MacroOf(k))
    BY <1>4 DEF MacrosAgree
  <2>2. m.parms \in Seq(ParmToken) /\ m.name = Head(Operands(k))
    BY <2>1, MacroParms, MacroFields
  <2>3. m.name = def.name
    <3>1. Head(Operands(k)) = Head(Operands(line))
      BY <2>1, MeansAssumption DEF OneWord, Definer
    <3> QED
      BY <2>2, <3>1, MacroFields
  <2>4. definitions[name] = MacroMeans(m)
    BY <1>4 DEF MacrosAgree
  <2> HIDE DEF m, def, meant
  <2>5. definitions[name].is_function = m.is_function /\ definitions[name].parms = m.parms
    BY <2>4 DEF MacroMeans
  <2>6. MacrosAreEqual(m, def) <=> m.is_function = def.is_function /\ m.parms = def.parms
    <3>1. m.parms = def.parms <=> /\ Len(m.parms) = Len(def.parms)
                                  /\ \A i \in DOMAIN m.parms : SameToken(m.parms[i], def.parms[i])
      BY <1>3, <2>2, SameParms
    <3>2. SameToken(m.name, def.name)
      BY <2>3 DEF SameToken
    <3> QED
      BY <3>1, <3>2 DEF MacrosAreEqual
  <2>7. SameHead(definitions[name], meant) <=>
          m.is_function = def.is_function /\ m.parms = def.parms
    BY <1>2, <2>5 DEF SameHead
  <2> QED
    BY <2>6, <2>7 DEF m
<1>5. ASSUME name \notin DOMAIN macros, ~OutOfBounds(Stripped[def.body])
      PROVE  MacrosAgree(With(macros, name, Stored(def)), With(definitions, name, meant))
  <2> DEFINE ms == With(macros, name, Stored(def))
             ds == With(definitions, name, meant)
  <2>1. /\ DOMAIN ms = DOMAIN macros \cup {name}
        /\ ms[name] = Stored(def) /\ \A n \in DOMAIN macros : n # name => ms[n] = macros[n]
    BY DEF With
  <2>2. /\ ds = [n \in DOMAIN macros \cup {name} |-> ds[n]]
        /\ ds[name] = meant
        /\ \A n \in DOMAIN macros : n # name => ds[n] = MacroMeans(macros[n])
    BY <1>1 DEF With, MacrosAgree
  <2> HIDE DEF ms, ds
  <2>3. \A n \in DOMAIN ms : ds[n] = MacroMeans(ms[n])
    BY <1>2, <1>5, <2>1, <2>2
  <2>4. ds = [n \in DOMAIN ms |-> MacroMeans(ms[n])]
    BY <2>1, <2>2, <2>3
  <2>5. ASSUME NEW n \in DOMAIN ms
        PROVE  \E l \in Lines : Definer(l) /\ l.means.name = n /\ ms[n] = Stored(MacroOf(l))
    <3>1. CASE n = name
      BY <2>1, <3>1
    <3>2. CASE n # name
      <4>1. n \in DOMAIN macros /\ ms[n] = macros[n]
        BY <2>1, <3>2
      <4> QED
        BY <4>1 DEF MacrosAgree
    <3> QED
      BY <3>1, <3>2
  <2>6. MacrosAgree(ms, ds)
    BY <2>4, <2>5 DEF MacrosAgree
  <2> QED
    BY <2>6 DEF ms, ds
<1> QED
  BY <1>1, <1>4, <1>5

(* #warning, and a # with nothing behind it.                               *)
LEMMA NoteStep ==
  ASSUME LiveInv, OnLine, NakedPound \/ Warn, NewText, ~continued
  PROVE  LineInv' /\ DoneInv' /\ RefusesOnlyBad'
<1>1. PICK names \in {{"\n"}, {"warning"}} : Directive(names) /\ LineDone
  BY DEF NakedPound, Warn
<1>2. line \in Lines /\ rest \in Ended /\ TextInv /\ (Ahead \/ Past \/ Within)
  BY DEF OnLine, LiveInv
<1>3. /\ pc = "loop" /\ Agrees(frames, macros, text)
      /\ line.means.kind = KindOf(Head(WordsOf(line)).string)
      /\ Head(WordsOf(line)).string \in names
  BY <1>1, <1>2, ReadDirective
<1>4. line.means.kind = "note"
  BY <1>1, <1>3 DEF KindOf
<1>5. Now = text
  BY <1>4 DEF Now, After
<1>6. NextLine /\ pc' = "loop" /\ Answered' = frames /\ macros' = macros
  BY <1>1, <1>3 DEF LineDone, Answered
<1> QED
  BY <1>2, <1>3, <1>5, <1>6, NewLine

(* What a definition does to live text.                                    *)
LEMMA AfterDefine ==
  ASSUME IsText(text), Live(text), line.means.kind = "define", line.means.wellFormed \in BOOLEAN
  PROVE  LET name == line.means.name
             meant == line.means.definition
         IN  /\ ~line.means.wellFormed => ~Now.ok
             /\ line.means.wellFormed /\ name \in DOMAIN text.definitions =>
                  IF SameHead(text.definitions[name], meant) THEN Now = text ELSE ~Now.ok
             /\ line.means.wellFormed /\ name \notin DOMAIN text.definitions =>
                  /\ Now.sections = text.sections /\ Now.ok = text.ok
                  /\ Now.definitions = With(text.definitions, name, meant)
<1> DEFINE name == line.means.name
           meant == line.means.definition
           more == With(text.definitions, name, meant)
<1>1. Now = Define(text, line.means)
  BY DEF Now, After
<1>2. ~Bad(text).ok
  BY Changes
<1>3. ~line.means.wellFormed => Now = Bad(text)
  BY <1>1 DEF Define
<1>4. line.means.wellFormed /\ name \in DOMAIN text.definitions =>
        Now = IF SameHead(text.definitions[name], meant) THEN text ELSE Bad(text)
  BY <1>1 DEF Define
<1>5. line.means.wellFormed /\ name \notin DOMAIN text.definitions =>
        Now = [text EXCEPT !.definitions = more]
  BY <1>1 DEF Define, With
<1> HIDE DEF more
<1>6. /\ [text EXCEPT !.definitions = more].sections = text.sections
      /\ [text EXCEPT !.definitions = more].definitions = more
      /\ [text EXCEPT !.definitions = more].ok = text.ok
  BY ChangesWith
<1> QED
  BY <1>2, <1>3, <1>4, <1>5, <1>6 DEF more

(* #define: a definition that is refused is no repetition of the one that  *)
(* is in effect.                                                           *)
LEMMA DefineStep ==
  ASSUME LiveInv, OnLine, ProcessDefine, NewText, ~continued
  PROVE  LineInv' /\ DoneInv' /\ RefusesOnlyBad'
<1> DEFINE name == line.means.name
           ops == Operands(line)
           def == MacroOf(line)
           good == line.means.wellFormed
           meant == line.means.definition
<1>1. /\ Directive({"define"}) /\ line \in Lines /\ rest \in Ended /\ TextInv
      /\ (Ahead \/ Past \/ Within)
  BY DEF ProcessDefine, OnLine, LiveInv
<1>2. /\ pc = "loop" /\ Top.proc = "parse" /\ Agrees(frames, macros, text)
      /\ line.means.kind = "define" /\ LineMeans(line) /\ IsDirective(line)
      /\ Trim[Tail(words)] = ops
  <2>1. /\ pc = "loop" /\ Top.proc = "parse" /\ Agrees(frames, macros, text) /\ LineMeans(line)
        /\ IsDirective(line) /\ words = WordsOf(line) /\ Head(WordsOf(line)).string = "define"
        /\ line.means.kind = KindOf(Head(WordsOf(line)).string)
    BY <1>1, ReadDirective
  <2> QED
    BY <2>1 DEF KindOf, Operands
<1>3. Live(text) /\ IsText(text)
  BY <1>2, LiveOrDead DEF LiveInv, TextInv
<1>4. good = Defines(ops) /\ def = Defined[ops].def
  BY <1>2 DEF LineMeans, DefineMeans, MacroOf
<1>5. good => /\ name \in DOMAIN macros <=> name \in DOMAIN text.definitions
              /\ name \in DOMAIN macros =>
                   (MacrosAreEqual(macros[name], def)
                      <=> SameHead(text.definitions[name], meant))
              /\ name \notin DOMAIN macros /\ ~OutOfBounds(Stripped[def.body]) =>
                   MacrosAgree(With(macros, name, Stored(def)),
                               With(text.definitions, name, meant))
              /\ def.name.string = name
  <2> HAVE good
  <2>1. Definer(line) /\ MacrosAgree(macros, text.definitions)
    BY <1>2 DEF Definer, Agrees
  <2>2. def.name.string = name
    BY <1>1, <2>1, MacroFields
  <2> HIDE DEF def, name, meant
  <2> QED
    BY <1>1, <2>1, <2>2, MacroAdded DEF def, name, meant
<1>6. good \in BOOLEAN
  BY <1>4 DEF Defines
<1> HIDE DEF ops, def, name, good, meant
<1>7. CASE ~Defines(ops) /\ Fail
  <2>1. ~Now.ok
    BY <1>2, <1>3, <1>4, <1>6, <1>7, AfterDefine DEF good
  <2> QED
    BY <1>7, <2>1, GivesUp
<1>8. CASE pc' = "undefined"
  BY <1>8 DEF LineInv, DoneInv, RefusesOnlyBad
<1>9. CASE Defines(ops) /\ Refused(def) /\ Fail
  <2>1. good /\ name \in DOMAIN macros /\ ~MacrosAreEqual(macros[name], def)
    BY <1>4, <1>5, <1>9 DEF Refused, IsDefined
  <2>2. ~Now.ok
    BY <1>2, <1>3, <1>5, <1>6, <2>1, AfterDefine DEF good, name, meant
  <2> QED
    BY <1>9, <2>2, GivesUp
<1>10. CASE /\ Defines(ops) /\ ~OutOfBounds(Stripped[def.body]) /\ ~Refused(def)
            /\ Add(def) /\ NextLine /\ UNCHANGED <<frames, pc, value>>
  <2>1. pc' = "loop" /\ Answered' = frames
    BY <1>2, <1>10 DEF Answered
  <2>2. good /\ (name \in DOMAIN macros => MacrosAreEqual(macros[name], def))
    BY <1>4, <1>5, <1>10 DEF Refused, IsDefined
  <2>3. Agrees(frames, macros', Now)
    <3>1. CASE name \in DOMAIN macros
      <4>1. macros' = macros
        BY <1>5, <1>10, <2>2, <3>1 DEF Add, IsDefined
      <4>2. Now = text
        BY <1>2, <1>3, <1>5, <1>6, <2>2, <3>1, AfterDefine DEF good, name, meant
      <4> QED
        BY <1>2, <4>1, <4>2
    <3>2. CASE name \notin DOMAIN macros
      <4>1. macros' = With(macros, name, Stored(def))
        BY <1>5, <1>10, <2>2, <3>2 DEF Add, IsDefined, With
      <4>2. /\ Now.sections = text.sections /\ Now.ok = text.ok
            /\ Now.definitions = With(text.definitions, name, meant)
        BY <1>2, <1>3, <1>5, <1>6, <2>2, <3>2, AfterDefine DEF good, name, meant
      <4> QED
        BY <1>2, <1>5, <1>10, <2>2, <3>2, <4>1, <4>2 DEF Agrees
    <3> QED
      BY <3>1, <3>2
  <2> QED
    BY <1>1, <1>10, <2>1, <2>3, NewLine
<1> QED
  BY <1>2, <1>4, <1>7, <1>8, <1>9, <1>10 DEF ProcessDefine

(* The sections of the calls that _process_IFDEF makes.                    *)
LEMMA HalfSections ==
  /\ SectionOf(Read("first")) = Section(TRUE, FALSE)
  /\ SectionOf(Read("second")) = Section(TRUE, TRUE)
  /\ SectionOf(Skipped("first")) = Section(FALSE, FALSE)
  /\ SectionOf(Skipped("second")) = Section(FALSE, TRUE)
  /\ \A seen \in BOOLEAN : SectionOf(Inner(seen)) = Section(FALSE, seen)
  /\ Read("first") \in Call /\ Read("second") \in Call
  /\ Skipped("first") \in Call /\ Skipped("second") \in Call
  /\ \A seen \in BOOLEAN : Inner(seen) \in Call
<1>1. /\ Read("first") \in Call /\ Read("second") \in Call
      /\ Skipped("first") \in Call /\ Skipped("second") \in Call
      /\ \A seen \in BOOLEAN : Inner(seen) \in Call
  BY CallFields DEF Half
<1>2. /\ SectionOf(Read("first")) = Section(TRUE, FALSE)
      /\ SectionOf(Read("second")) = Section(TRUE, TRUE)
  BY DEF SectionOf, Read, Parse
<1>3. /\ SectionOf(Skipped("first")) = Section(FALSE, FALSE)
      /\ SectionOf(Skipped("second")) = Section(FALSE, TRUE)
  BY DEF SectionOf, Skipped, Skip
<1>4. \A seen \in BOOLEAN : SectionOf(Inner(seen)) = Section(FALSE, seen)
  BY DEF SectionOf, Inner, Skip
<1> QED
  BY <1>1, <1>2, <1>3, <1>4

(* The line goes on with tokens that are no directive.                     *)
LEMMA GoesPast ==
  ASSUME NewText, line \in Lines, NEW tokens \in Ended, Goto(tokens), NoPound(tokens),
         line.means.kind \in {"ifdef", "ifndef", "else"},
         line.means.kind = "else" => ~Live(Now),
         pc' \in {"loop", "return"}, pc' = "return" => Len(frames') > 1,
         Agrees(Answered', macros', Now)
  PROVE  LineInv' /\ DoneInv' /\ RefusesOnlyBad'
<1>1. text' = text /\ line' = line /\ rest' = tokens
  BY Kept
<1>2. Now' = Now /\ NoPound(rest')
  BY <1>1 DEF Now
<1>3. Past'
  BY <1>1, <1>2 DEF Past, NoPound
<1>4. OnLine'
  BY <1>1, <1>3 DEF OnLine
<1> QED
  BY <1>4 DEF LineInv, DoneInv, RefusesOnlyBad

(* #ifdef and #ifndef: the half that is called is live just if the section *)
(* is.                                                                     *)
LEMMA IfdefStep ==
  ASSUME LiveInv, OnLine, ProcessIfdef, NewText, ~continued
  PROVE  LineInv' /\ DoneInv' /\ RefusesOnlyBad'
<1> DEFINE ops == Operands(line)
           kind == line.means.kind
           live == (line.means.name \in DOMAIN text.definitions) = (kind = "ifdef")
<1>1. /\ Directive({"ifdef", "ifndef"}) /\ line \in Lines /\ rest \in Ended /\ TextInv
      /\ (Ahead \/ Past \/ Within)
  BY DEF ProcessIfdef, OnLine, LiveInv
<1>2. /\ pc = "loop" /\ Top.proc = "parse" /\ Agrees(frames, macros, text)
      /\ kind \in {"ifdef", "ifndef"} /\ LineMeans(line) /\ IsDirective(line)
      /\ Trim[Tail(words)] = ops /\ Head(words).string = kind
  <2>1. /\ pc = "loop" /\ Top.proc = "parse" /\ Agrees(frames, macros, text) /\ LineMeans(line)
        /\ IsDirective(line) /\ words = WordsOf(line)
        /\ Head(WordsOf(line)).string \in {"ifdef", "ifndef"}
        /\ line.means.kind = KindOf(Head(WordsOf(line)).string)
    BY <1>1, ReadDirective
  <2> QED
    BY <2>1 DEF KindOf, Operands
<1>3. Live(text) /\ IsText(text) /\ Calls(frames)
  BY <1>2, LiveOrDead DEF LiveInv, TextInv
<1>4. /\ line.means.wellFormed = IsName(Head(ops))
      /\ line.means.wellFormed => line.means.name = Head(ops).string /\ NoPound(Tail(ops))
  BY <1>2 DEF LineMeans, IfdefMeans, NameMeans
<1>5. Now = Conditional(text, line.means)
  BY <1>2 DEF Now, After
<1>6. ops \in Ended
  BY <1>1, <1>2, DirectiveLine
<1> HIDE DEF ops
<1>7. CASE ~IsName(Head(ops)) /\ Fail
  <2>1. Now = Bad(text)
    BY <1>3, <1>4, <1>5, <1>7 DEF Conditional
  <2>2. ~Now.ok
    BY <1>3, <2>1, Changes
  <2> QED
    BY <1>7, <2>2, GivesUp
<1>8. CASE IsName(Head(ops)) /\ ~(~IsName(Head(ops)) /\ Fail)
  <2>1. Now = Opened(text, live)
    BY <1>2, <1>3, <1>4, <1>5, <1>8 DEF Conditional
  <2>2. /\ frames' = Append(frames, IF live THEN Read("first") ELSE Skipped("first"))
        /\ Goto(Tail(ops)) /\ pc' = pc /\ macros' = macros
    <3>1. Condition(Head(ops), Head(words).string = "ifndef") = live
      <4>1. DOMAIN macros = DOMAIN text.definitions
        BY <1>2 DEF Agrees, MacrosAgree
      <4> QED
        BY <1>2, <1>4, <1>8, <4>1 DEF Condition, IsDefined
    <3> HIDE DEF live
    <3> QED
      BY <1>2, <1>8, <3>1, CallNames DEF ProcessIfdef
  <2>3. Tail(ops) \in Ended
    BY <1>6, <1>8, EndedFacts DEF IsName, IsNewline
  <2>4. PICK c \in Call : frames' = Append(frames, c) /\ SectionOf(c) = Section(live, FALSE)
    <3>1. live \in BOOLEAN
      OBVIOUS
    <3> HIDE DEF live
    <3> QED
      BY <2>2, <3>1, HalfSections
  <2> HIDE DEF live
  <2>5. /\ Now.sections = Append(text.sections, Section(live, FALSE))
        /\ Now.definitions = text.definitions /\ Now.ok = text.ok
    BY <1>3, <2>1, Changes
  <2>6. SectionsOf(frames') = Append(SectionsOf(frames), Section(live, FALSE))
    BY <1>3, <2>4, SectionBegins
  <2>7. Agrees(frames', macros', Now)
    BY <1>2, <2>2, <2>5, <2>6 DEF Agrees
  <2>8. pc' = "loop" /\ Answered' = frames'
    BY <1>2, <2>2 DEF Answered
  <2> QED
    BY <1>1, <1>2, <1>4, <1>8, <2>2, <2>3, <2>7, <2>8, GoesPast
<1> QED
  BY <1>2, <1>7, <1>8 DEF ProcessIfdef

(* The call that reads.                                                    *)
LEMMA ReadingCall ==
  ASSUME Calls(frames), Top.proc = "parse"
  PROVE  /\ \/ Top = FileCall /\ Len(frames) = 1 /\ SectionsOf(frames) = <<>>
            \/ Top = Read("first") /\ Len(frames) > 1
            \/ Top = Read("second") /\ Len(frames) > 1
         /\ Top = FileCall => ~Top.is_if /\ ~Top.is_else
         /\ Top = Read("first") => Top.is_if /\ ~Top.is_else
         /\ Top = Read("second") => ~Top.is_if /\ Top.is_else
<1>1. Top \in Call \cup {FileCall}
  BY TopCall DEF Top
<1>2. Top \in {FileCall, Read("first"), Read("second")}
  BY <1>1, CallFields DEF Call, Half
<1>3. /\ Top = FileCall => Len(frames) = 1 /\ SectionsOf(frames) = <<>>
      /\ Top # FileCall => Len(frames) > 1
  BY NoSection DEF Top
<1>4. /\ Top = FileCall => ~Top.is_if /\ ~Top.is_else
      /\ Top = Read("first") => Top.is_if /\ ~Top.is_else
      /\ Top = Read("second") => ~Top.is_if /\ Top.is_else
  <2>1. Top = FileCall => ~Top.is_if /\ ~Top.is_else
    BY DEF FileCall, Parse
  <2>2. ASSUME NEW half \in Half, Top = Read(half)
        PROVE  (Top.is_if <=> half = "first") /\ (Top.is_else <=> half = "second")
    BY <2>2 DEF Read, Parse
  <2> QED
    BY <2>1, <2>2 DEF Half
<1> QED
  BY <1>2, <1>3, <1>4

(* What #else does.                                                        *)
LEMMA AfterElse ==
  ASSUME IsText(text), line.means.kind = "else"
  PROVE  LET outer == Front(text.sections)
             last  == Last(text.sections)
         IN  IF text.sections = <<>> \/ last.seen_else THEN ~Now.ok
             ELSE /\ Now.sections = Append(outer, Section(AllLive(outer) /\ ~last.live, TRUE))
                  /\ Now.definitions = text.definitions /\ Now.ok = text.ok
<1> DEFINE outer == Front(text.sections)
           last == Last(text.sections)
           sections == Append(outer, Section(AllLive(outer) /\ ~last.live, TRUE))
<1>1. Now = Else(text)
  BY DEF Now, After
<1>2. ~Bad(text).ok
  BY Changes
<1>3. IF text.sections = <<>> \/ last.seen_else THEN Now = Bad(text)
      ELSE Now = [text EXCEPT !.sections = sections]
  BY <1>1 DEF Else
<1> HIDE DEF sections
<1>4. /\ [text EXCEPT !.sections = sections].sections = sections
      /\ [text EXCEPT !.sections = sections].definitions = text.definitions
      /\ [text EXCEPT !.sections = sections].ok = text.ok
  BY ChangesWith
<1> QED
  BY <1>2, <1>3, <1>4 DEF sections

(* What #endif does.                                                       *)
LEMMA AfterEndif ==
  ASSUME IsText(text), line.means.kind = "endif"
  PROVE  IF text.sections = <<>> \/ (Live(text) /\ ~line.means.wellFormed) THEN ~Now.ok
         ELSE /\ Now.sections = Front(text.sections)
              /\ Now.definitions = text.definitions /\ Now.ok = text.ok
<1> DEFINE outer == Front(text.sections)
<1>1. Now = Endif(text, line.means)
  BY DEF Now, After
<1>2. ~Bad(text).ok
  BY Changes
<1>3. IF text.sections = <<>> \/ (Live(text) /\ ~line.means.wellFormed) THEN Now = Bad(text)
      ELSE Now = [text EXCEPT !.sections = outer]
  BY <1>1 DEF Endif
<1> HIDE DEF outer
<1>4. /\ [text EXCEPT !.sections = outer].sections = outer
      /\ [text EXCEPT !.sections = outer].definitions = text.definitions
      /\ [text EXCEPT !.sections = outer].ok = text.ok
  BY ChangesWith
<1> QED
  BY <1>2, <1>3, <1>4 DEF outer

(* A section that is dead is enough to make text dead.                     *)
LEMMA DeadSection ==
  ASSUME NEW outer \in Seq(SectionType), NEW seen \in BOOLEAN
  PROVE  ~AllLive(Append(outer, Section(FALSE, seen)))
<1> DEFINE dead == Section(FALSE, seen)
           all == Append(outer, dead)
<1>1. dead \in SectionType /\ ~dead.live
  BY DEF Section, SectionType
<1> HIDE DEF dead
<1>2. Len(outer) + 1 \in DOMAIN all /\ all[Len(outer) + 1] = dead
  <2>1. Len(outer) \in Nat
    BY LenProperties
  <2> QED
    BY <1>1, <2>1, AppendProperties, LenProperties
<1> QED
  BY <1>1, <1>2 DEF AllLive, dead

(* #else behind the half that is read: the other half is skipped.          *)
LEMMA ElseStep ==
  ASSUME LiveInv, OnLine, ParseElse, NewText, ~continued
  PROVE  LineInv' /\ DoneInv' /\ RefusesOnlyBad'
<1> DEFINE outer == Front(text.sections)
<1>1. /\ Directive({"else"}) /\ line \in Lines /\ rest \in Ended /\ TextInv
      /\ (Ahead \/ Past \/ Within)
  BY DEF ParseElse, OnLine, LiveInv
<1>2. /\ pc = "loop" /\ Top.proc = "parse" /\ Agrees(frames, macros, text)
      /\ line.means.kind = "else" /\ LineMeans(line) /\ IsDirective(line)
      /\ words = WordsOf(line)
  <2>1. /\ pc = "loop" /\ Top.proc = "parse" /\ Agrees(frames, macros, text) /\ LineMeans(line)
        /\ IsDirective(line) /\ words = WordsOf(line)
        /\ Head(WordsOf(line)).string = "else"
        /\ line.means.kind = KindOf(Head(WordsOf(line)).string)
    BY <1>1, ReadDirective
  <2> QED
    BY <2>1 DEF KindOf
<1>3. IsText(text) /\ Calls(frames) /\ text.sections = SectionsOf(frames)
  BY <1>2, LiveOrDead DEF LiveInv, TextInv, Agrees
<1>4. Tail(words) \in Ended /\ NoPound(Tail(words))
  BY <1>1, <1>2, DirectiveLine DEF LineMeans
<1>5. CASE Top = FileCall
  <2>1. Fail
    BY <1>3, <1>2, <1>5, ReadingCall DEF ParseElse
  <2>2. text.sections = <<>>
    BY <1>3, <1>5, NoSection DEF Top
  <2>3. ~Now.ok
    BY <1>2, <1>3, <2>2, AfterElse
  <2> QED
    BY <2>1, <2>3, GivesUp
<1>6. CASE Top = Read("second")
  <2>1. Fail
    BY <1>3, <1>2, <1>6, ReadingCall DEF ParseElse
  <2>2. Len(frames) > 1
    BY <1>3, <1>6, NoSection, HalfSections, CallFields DEF Top, Half
  <2>3. Last(text.sections) = Section(TRUE, TRUE)
    BY <1>3, <1>6, <2>2, SectionEnds, HalfSections DEF Top
  <2>4. ~Now.ok
    BY <1>2, <1>3, <2>3, AfterElse DEF Section
  <2> QED
    BY <2>1, <2>4, GivesUp
<1>7. CASE Top = Read("first") /\ Len(frames) > 1
  <2>1. /\ pc' = "return" /\ value' = "C_NORM_ELSE" /\ Goto(Tail(words))
        /\ frames' = frames /\ macros' = macros
    BY <1>2, <1>3, <1>7, ReadingCall DEF ParseElse, Return
  <2>2. SecondHalf' = Skipped("second")
    BY <1>2, <2>1, CallNames DEF SecondHalf, SecondSkip, Top
  <2>3. Answered' = [frames EXCEPT ![Len(frames)] = Skipped("second")]
    BY <2>1, <2>2 DEF Answered
  <2>4. /\ text.sections # <<>> /\ Last(text.sections) = Section(TRUE, FALSE)
        /\ SectionsOf(Answered') = Append(outer, Section(FALSE, TRUE))
    BY <1>3, <1>7, <2>3, SectionEnds, HalfSections DEF Top
  <2>5. /\ Now.sections = Append(outer, Section(FALSE, TRUE))
        /\ Now.definitions = text.definitions /\ Now.ok = text.ok
    <3>1. Last(text.sections).live = TRUE /\ ~Last(text.sections).seen_else
      BY <2>4 DEF Section
    <3>2. (AllLive(outer) /\ ~Last(text.sections).live) = FALSE
      BY <3>1
    <3> QED
      BY <1>2, <1>3, <2>4, <3>1, <3>2, AfterElse
  <2>6. Agrees(Answered', macros', Now)
    BY <1>2, <2>1, <2>4, <2>5 DEF Agrees
  <2>7. ~Live(Now)
    <3>1. outer \in Seq(SectionType)
      BY <1>3, <2>4, SectionsType, Ends
    <3> HIDE DEF outer
    <3> QED
      BY <2>5, <3>1, DeadSection DEF Live
  <2> QED
    BY <1>1, <1>2, <1>4, <1>7, <2>1, <2>6, <2>7, GoesPast
<1> QED
  BY <1>2, <1>3, <1>5, <1>6, <1>7, ReadingCall

(* #endif behind text that is read.                                        *)
LEMMA EndifStep ==
  ASSUME LiveInv, OnLine, ParseEndif, NewText, ~continued
  PROVE  LineInv' /\ DoneInv' /\ RefusesOnlyBad'
<1> DEFINE ops == Operands(line)
<1>1. /\ Directive({"endif"}) /\ line \in Lines /\ rest \in Ended /\ TextInv
      /\ (Ahead \/ Past \/ Within)
  BY DEF ParseEndif, OnLine, LiveInv
<1>2. /\ pc = "loop" /\ Top.proc = "parse" /\ Agrees(frames, macros, text)
      /\ line.means.kind = "endif" /\ LineMeans(line) /\ IsDirective(line)
      /\ Trim[Tail(words)] = ops
  <2>1. /\ pc = "loop" /\ Top.proc = "parse" /\ Agrees(frames, macros, text) /\ LineMeans(line)
        /\ IsDirective(line) /\ words = WordsOf(line)
        /\ Head(WordsOf(line)).string = "endif"
        /\ line.means.kind = KindOf(Head(WordsOf(line)).string)
    BY <1>1, ReadDirective
  <2> QED
    BY <2>1 DEF KindOf, Operands
<1>3. /\ IsText(text) /\ Calls(frames) /\ text.sections = SectionsOf(frames) /\ Live(text)
  BY <1>2, LiveOrDead DEF LiveInv, TextInv, Agrees
<1>4. line.means.wellFormed = IsNewline(Head(ops))
  BY <1>2 DEF LineMeans, EndifMeans
<1> HIDE DEF ops
<1>5. CASE Fail /\ ~((Top.is_if \/ Top.is_else) /\ IsNewline(Head(ops)))
  <2>1. Top = FileCall \/ ~line.means.wellFormed
    BY <1>2, <1>3, <1>4, <1>5, ReadingCall
  <2>2. Top = FileCall => text.sections = <<>>
    BY <1>3, NoSection DEF Top
  <2>3. ~Now.ok
    BY <1>2, <1>3, <2>1, <2>2, AfterEndif
  <2> QED
    BY <1>5, <2>3, GivesUp
<1>6. CASE (Top.is_if \/ Top.is_else) /\ IsNewline(Head(ops))
  <2>1. /\ pc' = "return" /\ value' = "0" /\ NextLine /\ frames' = frames /\ macros' = macros
    BY <1>2, <1>6 DEF ParseEndif, Return
  <2>2. Len(frames) > 1
    BY <1>2, <1>3, <1>6, ReadingCall
  <2>3. Answered' = Front(frames)
    BY <2>1 DEF Answered
  <2>4. text.sections # <<>> /\ SectionsOf(Answered') = Front(text.sections)
    BY <1>3, <2>2, <2>3, SectionEnds, HalfSections
  <2>5. /\ Now.sections = Front(text.sections) /\ Now.definitions = text.definitions /\ Now.ok = text.ok
    BY <1>2, <1>3, <1>4, <1>6, <2>4, AfterEndif
  <2>6. Agrees(Answered', macros', Now)
    BY <1>2, <2>1, <2>4, <2>5 DEF Agrees
  <2> QED
    BY <1>1, <2>1, <2>2, <2>6, NewLine
<1> QED
  BY <1>2, <1>5, <1>6 DEF ParseEndif

(* A directive that is not implemented.                                    *)
LEMMA FailsStep ==
  ASSUME LiveInv, OnLine, ParseFails, NewText, ~continued
  PROVE  LineInv' /\ DoneInv' /\ RefusesOnlyBad'
<1> DEFINE word == Head(WordsOf(line)).string
<1>1. /\ pc = "loop" /\ Top.proc = "parse" /\ Head(rest).id = "T__POUND" /\ Fail
      /\ line \in Lines /\ rest \in Ended /\ (Ahead \/ Past \/ Within)
      /\ Head(words).string \notin
           {"\n", "define", "ifdef", "ifndef", "else", "endif", "warning"}
  BY DEF ParseFails, Parsing, OnLine
<1>2. Trim[rest] = rest
  BY <1>1, TrimFacts DEF IsSpace
<1>3. /\ Agrees(frames, macros, text) /\ line.means.kind = KindOf(word)
      /\ words = WordsOf(line)
  BY <1>1, <1>2, AtDirective DEF words, WordsOf
<1>4. line.means.kind \in {"if", "error", "undef", "elif", "unknown"}
  BY <1>1, <1>3 DEF KindOf
<1>5. Live(text) /\ IsText(text)
  BY <1>1, <1>3, LiveOrDead DEF LiveInv, TextInv
<1>6. Now = Bad(text)
  BY <1>4, <1>5 DEF Now, After, Conditional
<1>7. ~Now.ok
  BY <1>5, <1>6, Changes
<1> QED
  BY <1>1, <1>7, GivesUp

-----------------------------------------------------------------------------
(* Skipping.                                                               *)

(* The call that skips, and what is around the section it skips.           *)
LEMMA SkippingCall ==
  ASSUME Calls(frames), Top.proc = "skip"
  PROVE  /\ Top \in Call /\ Len(frames) > 1
         /\ SectionsOf(frames) # <<>>
         /\ Last(SectionsOf(frames)) = Section(FALSE, Top.has_seen_else)
         /\ AllLive(Front(SectionsOf(frames))) <=> Top.caller # "nested"
<1> DEFINE n == Len(frames)
           fs == Front(frames)
<1>1. Top \in Call /\ Top = Last(frames) /\ Last(frames) # FileCall
  BY TopCall, CallFields DEF Top
<1>2. n \in Nat \ {0} /\ n > 1
  BY <1>1, NoSection
<1>3. /\ SectionsOf(frames) # <<>> /\ Last(SectionsOf(frames)) = SectionOf(Top)
      /\ SectionsOf(fs) = Front(SectionsOf(frames))
  BY <1>1, <1>2, SectionEnds
<1>4. SectionOf(Top) = Section(FALSE, Top.has_seen_else)
  BY DEF SectionOf
<1>5. Calls(fs)
  BY <1>1, CallFields, Pop DEF Half
<1>6. Last(fs) = frames[n - 1] /\ Top = frames[n] /\ n \in DOMAIN frames
  <2>1. /\ fs # <<>> /\ Len(fs) = n - 1 /\ n - 1 \in 1 .. n - 1
        /\ \A i \in 1 .. n - 1 : fs[i] = frames[i]
    BY <1>2, <1>5, Ends DEF Calls
  <2>2. Last(fs) = fs[n - 1]
    BY <1>5, <2>1, Ends DEF Calls
  <2> QED
    BY <1>1, <2>1, <2>2, Ends DEF Calls
<1>7. Top.caller = "nested" <=> Last(fs).proc = "skip"
  BY <1>2, <1>6 DEF Calls
<1> HIDE DEF fs
<1>8. AllLive(SectionsOf(fs)) <=> Top.caller # "nested"
  BY <1>5, <1>7, LiveTop
<1> QED
  BY <1>1, <1>2, <1>3, <1>4, <1>8

(* The skipping half at a directive.                                       *)
LEMMA SkipsDirective ==
  ASSUME LiveInv, OnLine, Skipping, Head(skipped).id = "T__POUND"
  PROVE  /\ pc = "loop" /\ Top.proc = "skip" /\ line \in Lines /\ TextInv
         /\ Agrees(frames, macros, text) /\ line.means.kind = KindOf(SkippedWord)
         /\ IsText(text) /\ Calls(frames) /\ ~Live(text) /\ text.sections = SectionsOf(frames)
<1>1. line \in Lines /\ rest \in Ended /\ (Ahead \/ Past \/ Within) /\ TextInv
  BY DEF OnLine, LiveInv
<1>2. /\ pc = "loop" /\ Top.proc = "skip" /\ Agrees(frames, macros, text)
      /\ line.means.kind = KindOf(SkippedWord)
  BY <1>1, SkippedDirective
<1>3. Calls(frames) /\ ~Live(text)
  BY <1>2, LiveOrDead DEF LiveInv
<1> QED
  BY <1>1, <1>2, <1>3 DEF TextInv, Agrees

(* A line that is skipped.                                                 *)
LEMMA SkipLineStep ==
  ASSUME LiveInv, OnLine, SkipLine, NewText, ~continued
  PROVE  LineInv' /\ DoneInv' /\ RefusesOnlyBad'
<1>1. /\ pc = "loop" /\ Top.proc = "skip" /\ line \in Lines /\ rest \in Ended /\ TextInv
      /\ NextLine /\ pc' = pc /\ frames' = frames /\ macros' = macros
  BY DEF SkipLine, Skipping, LineDone, OnLine, LiveInv
<1>2. Answered = frames /\ Answered' = frames
  BY <1>1 DEF Answered
<1>3. CASE Past
  BY <1>1, <1>2, <1>3, NewLine DEF Past
<1>4. CASE Ahead
  <2>1. Agrees(frames, macros, text)
    BY <1>2, <1>4 DEF Ahead
  <2>2. ~Live(text)
    BY <1>1, <2>1, LiveOrDead DEF LiveInv
  <2>3. line.means.kind \in {"text", "note", "define", "error", "unknown"}
    <3>1. CASE IsDirective(line)
      <4>1. Head(skipped).id = "T__POUND"
        BY <1>4, <3>1 DEF Ahead, IsDirective, skipped
      <4>2. SkippedWord \in Ignored \cup {"\n"}
        BY <4>1 DEF SkipLine
      <4>3. line.means.kind = KindOf(SkippedWord)
        BY <4>1, SkipsDirective DEF SkipLine
      <4> QED
        BY <4>2, <4>3 DEF Ignored, KindOf
    <3>2. CASE ~IsDirective(line)
      BY <1>1, <3>2, MeansAssumption DEF LineMeans
    <3> QED
      BY <3>1, <3>2
  <2>4. Now = text
    BY <2>2, <2>3 DEF Now, After, Define
  <2> QED
    BY <1>1, <1>2, <2>1, <2>4, NewLine
<1> QED
  BY <1>1, <1>3, <1>4 DEF OnLine, Within

(* A section inside of a skipped one begins.                               *)
LEMMA SkipNestedStep ==
  ASSUME LiveInv, OnLine, SkipNested, NewText, ~continued
  PROVE  LineInv' /\ DoneInv' /\ RefusesOnlyBad'
<1>1. /\ Skipping /\ Head(skipped).id = "T__POUND" /\ SkippedWord \in {"if", "ifdef", "ifndef"}
      /\ frames' = Append(frames, Inner(FALSE)) /\ NextLine /\ pc' = pc /\ macros' = macros
  BY CallNames DEF SkipNested, SkipDirective, Nested
<1>2. /\ pc = "loop" /\ Top.proc = "skip" /\ line \in Lines /\ TextInv
      /\ Agrees(frames, macros, text) /\ line.means.kind = KindOf(SkippedWord)
      /\ IsText(text) /\ Calls(frames) /\ ~Live(text) /\ text.sections = SectionsOf(frames)
  BY <1>1, SkipsDirective
<1> DEFINE no == FALSE
<1>3. Now = Opened(text, no)
  <2>1. line.means.kind \in {"if", "ifdef", "ifndef"}
    BY <1>1, <1>2 DEF KindOf
  <2> QED
    BY <1>2, <2>1 DEF Now, After, Conditional
<1>4. SectionsOf(frames') = Append(text.sections, Section(no, FALSE))
  <2>1. Inner(FALSE) \in Call /\ SectionOf(Inner(FALSE)) = Section(FALSE, FALSE)
    BY HalfSections
  <2> QED
    BY <1>1, <1>2, <2>1, SectionBegins
<1> HIDE DEF no
<1>5. /\ Now.sections = Append(text.sections, Section(no, FALSE))
      /\ Now.definitions = text.definitions /\ Now.ok = text.ok
  BY <1>2, <1>3, Changes
<1>6. Agrees(frames', macros', Now)
  BY <1>1, <1>2, <1>4, <1>5 DEF Agrees
<1>7. pc' = "loop" /\ Answered' = frames'
  BY <1>1, <1>2 DEF Answered
<1> QED
  BY <1>1, <1>2, <1>6, <1>7, NewLine

(* #else behind what is skipped.                                           *)
LEMMA SkipElseStep ==
  ASSUME LiveInv, OnLine, SkipElse, NewText, ~continued
  PROVE  LineInv' /\ DoneInv' /\ RefusesOnlyBad'
<1> DEFINE outer == Front(text.sections)
           seen == Top.has_seen_else
<1>1. Skipping /\ Head(skipped).id = "T__POUND" /\ SkippedWord = "else"
  BY DEF SkipElse, SkipDirective
<1>2. /\ pc = "loop" /\ Top.proc = "skip" /\ line \in Lines /\ TextInv
      /\ Agrees(frames, macros, text) /\ line.means.kind = "else"
      /\ IsText(text) /\ Calls(frames) /\ ~Live(text) /\ text.sections = SectionsOf(frames)
  <2>1. KindOf(SkippedWord) = "else"
    BY <1>1 DEF KindOf
  <2> QED
    BY <1>1, <2>1, SkipsDirective
<1>3. /\ Len(frames) > 1 /\ text.sections # <<>>
      /\ Last(text.sections) = Section(FALSE, seen)
      /\ AllLive(outer) <=> Top.caller # "nested"
  BY <1>2, SkippingCall
<1>4. Last(text.sections).live = FALSE /\ Last(text.sections).seen_else = seen
  BY <1>3 DEF Section
<1>5. CASE Top.has_seen_else
  <2>1. Fail
    BY <1>5 DEF SkipElse
  <2>2. ~Now.ok
    BY <1>2, <1>4, <1>5, AfterElse
  <2> QED
    BY <2>1, <2>2, GivesUp
<1>6. CASE ~Top.has_seen_else
  <2>1. NextLine /\ macros' = macros
    BY <1>6 DEF SkipElse
  <2>2. /\ Now.sections = Append(outer, Section(AllLive(outer) /\ ~Last(text.sections).live, TRUE))
        /\ Now.definitions = text.definitions /\ Now.ok = text.ok
    BY <1>2, <1>3, <1>4, <1>6, AfterElse
  <2>3. CASE Top.is_everything
    <3>1. pc' = pc /\ frames' = [frames EXCEPT ![Len(frames)].has_seen_else = TRUE]
      BY <1>6, <2>3 DEF SkipElse
    <3>2. frames' = [frames EXCEPT ![Len(frames)] = Inner(TRUE)] /\ Top.caller = "nested"
      BY <1>2, <2>3, <3>1, ElseRemembered
    <3>3. Inner(TRUE) \in Call /\ SectionOf(Inner(TRUE)) = Section(FALSE, TRUE)
      BY HalfSections
    <3>4. SectionsOf(frames') = Append(outer, Section(FALSE, TRUE))
      BY <1>2, <1>3, <3>2, <3>3, SectionEnds
    <3>5. (AllLive(outer) /\ ~Last(text.sections).live) = FALSE
      BY <1>3, <3>2
    <3>6. Agrees(frames', macros', Now)
      BY <1>2, <2>1, <2>2, <3>4, <3>5 DEF Agrees
    <3>7. pc' = "loop" /\ Answered' = frames'
      BY <1>2, <3>1 DEF Answered
    <3> QED
      BY <1>2, <2>1, <3>6, <3>7, NewLine
  <2>4. CASE ~Top.is_everything
    <3>1. pc' = "return" /\ value' = "C_NORM_ELSE" /\ frames' = frames
      BY <1>6, <2>4 DEF SkipElse, Return
    <3>2. Top = Skipped("first") /\ Top.caller # "nested"
      BY <1>2, <1>6, <2>4, TopCall, CallFields DEF Top, Half
    <3>3. SecondHalf' = Read("second")
      BY <1>2, <3>1, CallNames DEF SecondHalf, Top
    <3>4. Answered' = [frames EXCEPT ![Len(frames)] = Read("second")]
      BY <3>1, <3>3 DEF Answered
    <3>5. SectionsOf(Answered') = Append(outer, Section(TRUE, TRUE))
      BY <1>2, <1>3, <3>4, SectionEnds, HalfSections
    <3>6. (AllLive(outer) /\ ~Last(text.sections).live) = TRUE
      BY <1>3, <1>4, <3>2
    <3>7. Agrees(Answered', macros', Now)
      BY <1>2, <2>1, <2>2, <3>5, <3>6 DEF Agrees
    <3> QED
      BY <1>2, <1>3, <2>1, <3>1, <3>7, NewLine
  <2> QED
    BY <2>3, <2>4
<1> QED
  BY <1>5, <1>6

(* #endif behind what is skipped.                                          *)
LEMMA SkipEndifStep ==
  ASSUME LiveInv, OnLine, SkipEndif, NewText, ~continued
  PROVE  LineInv' /\ DoneInv' /\ RefusesOnlyBad'
<1>1. /\ Skipping /\ Head(skipped).id = "T__POUND" /\ SkippedWord = "endif"
      /\ pc' = "return" /\ value' = "0" /\ NextLine /\ frames' = frames /\ macros' = macros
  BY DEF SkipEndif, SkipDirective, Return
<1>2. /\ pc = "loop" /\ Top.proc = "skip" /\ line \in Lines /\ TextInv
      /\ Agrees(frames, macros, text) /\ line.means.kind = "endif"
      /\ IsText(text) /\ Calls(frames) /\ ~Live(text) /\ text.sections = SectionsOf(frames)
  <2>1. KindOf(SkippedWord) = "endif"
    BY <1>1 DEF KindOf
  <2> QED
    BY <1>1, <2>1, SkipsDirective
<1>3. Len(frames) > 1 /\ text.sections # <<>>
  BY <1>2, SkippingCall
<1>4. Answered' = Front(frames)
  BY <1>1 DEF Answered
<1>5. SectionsOf(Answered') = Front(text.sections)
  BY <1>2, <1>3, <1>4, SectionEnds, HalfSections
<1>6. /\ Now.sections = Front(text.sections) /\ Now.definitions = text.definitions /\ Now.ok = text.ok
  BY <1>2, <1>3, AfterEndif
<1>7. Agrees(Answered', macros', Now)
  BY <1>1, <1>2, <1>5, <1>6 DEF Agrees
<1> QED
  BY <1>1, <1>2, <1>3, <1>7, NewLine

(* A directive that cannot be skipped.                                     *)
LEMMA SkipFailsStep ==
  ASSUME LiveInv, OnLine, SkipFails, NewText, ~continued
  PROVE  LineInv' /\ DoneInv' /\ RefusesOnlyBad'
<1>1. /\ Skipping /\ Head(skipped).id = "T__POUND" /\ Fail
      /\ SkippedWord \notin Ignored \cup {"\n", "if", "ifdef", "ifndef", "else", "endif"}
  BY DEF SkipFails
<1>2. line.means.kind = KindOf(SkippedWord) /\ ~Live(text)
  BY <1>1, SkipsDirective
<1>3. line.means.kind \in {"elif", "undef", "unknown"}
  BY <1>1, <1>2 DEF KindOf, Ignored
<1> QED
  BY <1>1, <1>2, <1>3, GivesUp

-----------------------------------------------------------------------------
(* Returning.                                                              *)

(* A call returns while there is more to read: the calls are what they     *)
(* were promised to be.                                                    *)
LEMMA ReturnOnLine ==
  ASSUME LiveInv, OnLine, HandOver \/ ReturnZero, NewText
  PROVE  LineInv' /\ DoneInv' /\ RefusesOnlyBad'
<1>1. pc = "return" /\ line' = line /\ rest' = rest /\ lineNo' = lineNo /\ macros' = macros
  BY DEF HandOver, ReturnZero, file
<1>2. text' = text /\ Now' = Now
  BY <1>1 DEF NewText, LineRead, Now
<1>3. Calls(frames) /\ ElseAnswered /\ Len(frames) > 1
  BY <1>1 DEF LiveInv, FramesInv, OnLine
<1>4. frames' = Answered /\ pc' = "loop"
  <2>1. CASE HandOver
    BY <1>3, <2>1 DEF HandOver, ElseAnswered, Answered
  <2>2. CASE ReturnZero
    <3>1. Top.caller # "file"
      <4>1. Len(frames) # 1
        <5> DEFINE n == Len(frames)
        <5>1. n \in Nat /\ n > 1
          BY <1>3, NoSection
        <5> HIDE DEF n
        <5>2. n # 1
          BY <5>1
        <5> QED
          BY <5>2 DEF n
      <4>2. Top \in Call
        BY <1>3, <4>1, NoSection DEF Top
      <4> QED
        BY <4>2, CallFields DEF Half
    <3> QED
      BY <2>2, <3>1 DEF ReturnZero, Answered
  <2> QED
    BY <2>1, <2>2
<1>5. Answered' = Answered
  BY <1>4 DEF Answered
<1>6. Ahead => Ahead'
  BY <1>1, <1>2, <1>4, <1>5 DEF Ahead
<1>7. Past => Past'
  BY <1>1, <1>2, <1>4, <1>5 DEF Past, NoPound
<1>8. OnLine'
  BY <1>1, <1>4, <1>6, <1>7 DEF OnLine, Within
<1> QED
  BY <1>4, <1>8 DEF LineInv, DoneInv, RefusesOnlyBad

(* Behind the last line the text that goes on gets its newline, and every  *)
(* call returns.                                                           *)
LEMMA BehindStep ==
  ASSUME LiveInv, BehindLines, PreprocNext, NewText
  PROVE  LineInv' /\ DoneInv' /\ RefusesOnlyBad'
<1>1. rest = <<>> /\ line = NoLine /\ text.ok
  BY DEF BehindLines
<1>2. AddText \/ EndOfFile \/ HandOver \/ ReturnZero
  BY <1>1 DEF PreprocNext, AddLeading, BeginText, NakedPound, Warn, ProcessDefine,
       ProcessIfdef, ParseElse, ParseEndif, ParseFails, Directive, Parsing, SkipLine,
       SkipNested, SkipElse, SkipEndif, SkipFails, SkipDirective, Skipping
<1>3. line' = line /\ rest' = rest /\ lineNo' = lineNo
  <2>1. CASE AddText
    <3>1. AddToken(NewlineToken, <<>>) /\ ~IsName(NewlineToken)
      BY <1>1, <2>1 DEF AddText, IsName, NewlineToken, Token
    <3> QED
      BY <1>1, <3>1 DEF AddToken, Goto, NextLine
  <2>2. CASE EndOfFile \/ HandOver \/ ReturnZero
    BY <2>2 DEF EndOfFile, HandOver, ReturnZero, file
  <2> QED
    BY <1>2, <2>1, <2>2
<1>4. pc' \in {"return", "loop", "done"}
  <2>1. HandOver => Top.caller = "first"
    BY DEF HandOver, LiveInv, FramesInv, ElseAnswered
  <2> QED
    BY <1>1, <1>2, <2>1 DEF AddText, EndOfFile, Return, HandOver, ReturnZero
<1>5. text' = text
  BY <1>3 DEF NewText, LineRead
<1>6. BehindLines'
  BY <1>1, <1>3, <1>4, <1>5 DEF BehindLines
<1> QED
  BY <1>4, <1>6 DEF LineInv, DoneInv, RefusesOnlyBad, BehindLines

-----------------------------------------------------------------------------
(* Every step in the midst of the lines.                                   *)
LEMMA OnLineStep ==
  ASSUME LiveInv, OnLine, PreprocNext, NewText
  PROVE  LineInv' /\ DoneInv' /\ RefusesOnlyBad'
<1>1. CASE AddLeading \/ BeginText \/ AddText
  BY <1>1, AddLeadingStep, BeginTextStep, AddTextStep
<1>2. CASE ~AddText
  <2>1. ~continued
    <3>1. pc # "text"
      BY <1>2 DEF PreprocNext, AddLeading, BeginText, NakedPound, Warn, ProcessDefine,
         ProcessIfdef, ParseElse, ParseEndif, ParseFails, Directive, Parsing, SkipLine,
         SkipNested, SkipElse, SkipEndif, SkipFails, SkipDirective, Skipping, EndOfFile,
         HandOver, ReturnZero
    <3> QED
      BY <3>1 DEF LiveInv, ContinuedInv
  <2>2. CASE NakedPound \/ Warn \/ ProcessDefine \/ ProcessIfdef
    BY <2>1, <2>2, NoteStep, DefineStep, IfdefStep
  <2>3. CASE ParseElse \/ ParseEndif \/ ParseFails
    BY <2>1, <2>3, ElseStep, EndifStep, FailsStep
  <2>4. CASE SkipLine \/ SkipNested \/ SkipElse \/ SkipEndif \/ SkipFails
    BY <2>1, <2>4, SkipLineStep, SkipNestedStep, SkipElseStep, SkipEndifStep, SkipFailsStep
  <2>5. CASE EndOfFile
    <3>1. rest = <<>> /\ rest \in Ended
      BY <2>5 DEF EndOfFile, AtEnd, OnLine
    <3> QED
      BY <3>1, EndedFacts
  <2>6. CASE HandOver \/ ReturnZero
    BY <2>6, ReturnOnLine
  <2> QED
    BY <1>1, <1>2, <2>2, <2>3, <2>4, <2>5, <2>6 DEF PreprocNext
<1> QED
  BY <1>1, <1>2

(* Every step keeps the calls and the meaning of the lines in line.        *)
LEMMA LiveStep ==
  ASSUME LiveInv, LiveNext
  PROVE  LiveInv'
<1>1. FramesInv'
  BY ReadStep, SkipStep, ReturnStep DEF LiveInv, LiveNext, PreprocNext
<1>2. TextInv'
  BY TextStep DEF LiveInv
<1>3. ContinuedInv'
  BY ContinuedStep DEF LiveNext
<1>4. LineInv' /\ DoneInv' /\ RefusesOnlyBad'
  <2>1. PreprocNext /\ NewText
    BY DEF LiveNext, NewText, Here
  <2>2. OnLine \/ BehindLines
    BY <2>1, WhileReading DEF LiveInv, LineInv
  <2> QED
    BY <2>1, <2>2, OnLineStep, BehindStep
<1> QED
  BY <1>1, <1>2, <1>3, <1>4 DEF LiveInv

(* The calls and the macros are in line with the meaning of the lines in   *)
(* every reachable state.                                                  *)
THEOREM LiveInductive == LiveSpec => []LiveInv
<1>1. LiveInit => LiveInv
  <2> SUFFICES ASSUME LiveInit PROVE LiveInv
    OBVIOUS
  <2>1. /\ frames = <<FileCall>> /\ pc = "loop" /\ lineNo = 1 /\ macros = <<>>
        /\ continued = FALSE
        /\ line \in Lines /\ rest = line.tokens /\ text = Nothing
    BY DEF LiveInit, PreprocInit, FileCall
  <2>2. FramesInv /\ Calls(frames)
    BY <2>1, CallsBegin
  <2>3. TextInv
    BY <2>1 DEF TextInv, IsText, Nothing
  <2>4. Agrees(frames, macros, text)
    <3>1. SectionsOf(frames) = <<>>
      <4>1. Last(frames) = FileCall
        BY <2>1 DEF Last
      <4> QED
        BY <2>2, <4>1, NoSection
    <3>2. MacrosAgree(macros, text.definitions)
      <4>1. text.definitions = <<>> /\ macros = <<>> /\ DOMAIN macros = {}
        BY <2>1 DEF Nothing
      <4> QED
        BY <4>1 DEF MacrosAgree
    <3> QED
      BY <2>1, <3>1, <3>2 DEF Agrees, Nothing
  <2>5. Ahead
    BY <2>1, <2>4 DEF Ahead, Answered, Solid
  <2>6. OnLine
    BY <2>1, <2>5, LinesAssumption DEF OnLine
  <2>7. ContinuedInv /\ LineInv /\ DoneInv
    BY <2>1, <2>6 DEF ContinuedInv, LineInv, DoneInv
  <2>8. RefusesOnlyBad
    BY <2>1 DEF RefusesOnlyBad
  <2> QED
    BY <2>2, <2>3, <2>7, <2>8 DEF LiveInv
<1>2. LiveInv /\ [LiveNext]_<<pp, text>> => LiveInv'
  <2> SUFFICES ASSUME LiveInv, [LiveNext]_<<pp, text>> PROVE LiveInv'
    OBVIOUS
  <2>1. CASE UNCHANGED <<pp, text>>
    <3>1. FramesInv' /\ TextInv' /\ ContinuedInv' /\ DoneInv'
      BY <2>1 DEF pp, LiveInv, FramesInv, ElseAnswered, Top, TextInv, ContinuedInv, DoneInv
    <3>2. Answered' = Answered /\ Now' = Now /\ Means' = Means /\ Here' = Here
      BY <2>1 DEF pp, Answered, SecondHalf, Top, Now, Means, Here
    <3>3. /\ (Ahead => Ahead') /\ (Past => Past') /\ RefusesOnlyBad'
          /\ (Within => Within') /\ (BehindLines => BehindLines')
      BY <2>1, <3>2 DEF pp, LiveInv, Ahead, Past, Within, BehindLines, NoPound, RefusesOnlyBad
    <3>4. LineInv'
      BY <2>1, <3>3 DEF pp, LiveInv, LineInv, OnLine
    <3> QED
      BY <3>1, <3>3, <3>4 DEF LiveInv
  <2> QED
    BY <2>1, LiveStep
<1> QED
  BY <1>1, <1>2, PTL DEF LiveSpec

-----------------------------------------------------------------------------
(***************************************************************************)
(* What the runs check, for every set of lines and every length of file.   *)
(***************************************************************************)

(* When a line begins, its meaning is still ahead.                         *)
LEMMA LineBegins ==
  ASSUME LiveInv, AtLine
  PROVE  Agrees(frames, macros, text)
<1>1. OnLine /\ pc = "loop" /\ line \in Lines /\ Trim[rest] = Solid(line)
  BY DEF AtLine, LiveInv, LineInv, BehindLines, OnLine, Solid
<1>2. ~Past
  BY <1>1, DirectiveLine DEF Past, NoPound, IsDirective
<1> QED
  BY <1>1, <1>2 DEF OnLine, Ahead, Within, Answered

(* SectionsAgree: the recursion of _process_IFDEF and _process_SKIP keeps  *)
(* the conditional sections of the file, live and dead, first and second   *)
(* half, however deep; and the table has the macros of the live lines and  *)
(* no others, each with the kind, the parameters and the body of its first *)
(* definition.                                                             *)
THEOREM SectionsMatch == LiveSpec => []SectionsAgree
<1>1. LiveInv => SectionsAgree
  <2> SUFFICES ASSUME LiveInv, AtLine
               PROVE  /\ Sections = text.sections
                      /\ text.definitions = [name \in DOMAIN macros |-> MacroMeans(macros[name])]
    BY DEF SectionsAgree
  <2> QED
    BY LineBegins DEF Agrees, MacrosAgree, Sections, SectionsOf
<1> QED
  BY <1>1, LiveInductive, PTL

(* AcceptsOnlyGood: preproc_parse goes on, and returns 0, only behind      *)
(* lines that are in order; a macro defined again is in order if its kind  *)
(* and its parameters are the same, whatever its body.                     *)
THEOREM AcceptedIsGood == LiveSpec => []AcceptsOnlyGood
<1>1. LiveInv => AcceptsOnlyGood
  BY LineBegins DEF AcceptsOnlyGood, LiveInv, DoneInv, Agrees
<1> QED
  BY <1>1, LiveInductive, PTL

(* RefusesOnlyBad: it gives up only at a line that is not in order, or at  *)
(* a directive that it cannot skip.                                        *)
THEOREM RefusedIsBad == LiveSpec => []RefusesOnlyBad
<1>1. LiveInv => RefusesOnlyBad
  BY DEF LiveInv
<1> QED
  BY <1>1, LiveInductive, PTL

(* Only three actions add a token.                                         *)
LEMMA AddsToken ==
  ASSUME PreprocNext, out' # NoToken
  PROVE  AddLeading \/ BeginText \/ AddText
<1>1. ~Quiet /\ ~Fail /\ ~LineDone
  BY DEF Quiet, Fail, LineDone
<1> QED
  BY <1>1 DEF PreprocNext, NakedPound, Warn, ProcessDefine, ProcessIfdef, ParseElse,
       ParseEndif, ParseFails, SkipLine, SkipNested, SkipElse, SkipEndif, SkipFails,
       EndOfFile, HandOver, ReturnZero

(* OnlyLiveText: a token is added to pp->tokens only from live text.       *)
THEOREM NothingDeadAdded == LiveSpec => OnlyLiveText
<1>1. ASSUME LiveInv, LiveNext, out' # NoToken, OnLine
      PROVE  OnlyLiveTextStep
  <2>1. PreprocNext /\ (pc # "text" => ~continued)
    BY <1>1 DEF LiveNext, LiveInv, ContinuedInv
  <2>2. AddLeading \/ BeginText \/ AddText
    BY <1>1, <2>1, AddsToken
  <2>3. OnLine
    BY <1>1
  <2>4. CASE AddLeading
    <3>1. pc = "loop" /\ Top.proc = "parse" /\ IsSpace(out')
      BY <2>4 DEF AddLeading, Parsing
    <3>2. CASE Ahead
      <4>1. Agrees(frames, macros, text)
        BY <3>1, <3>2 DEF Ahead, Answered
      <4>2. Live(text)
        BY <1>1, <3>1, <4>1, LiveOrDead DEF LiveInv
      <4> QED
        BY <3>1, <4>2 DEF OnlyLiveTextStep
    <3>3. CASE Past
      <4>1. Agrees(frames, macros, Now)
        BY <3>1, <3>3 DEF Past, Answered
      <4>2. Live(Now)
        BY <1>1, <3>1, <4>1, LiveOrDead DEF LiveInv
      <4>3. Means = line.means
        BY <2>1, <3>1, AsItStands
      <4> QED
        BY <3>3, <4>2, <4>3 DEF OnlyLiveTextStep, Past, Now
    <3> QED
      BY <2>3, <3>1, <3>2, <3>3 DEF OnLine, Within
  <2>5. CASE BeginText
    <3>1. pc = "loop" /\ Top.proc = "parse" /\ ~IsSpace(Head(rest)) /\ Head(rest).id # "T__POUND"
      BY <2>5 DEF BeginText, Parsing
    <3>2. Trim[rest] = rest
      BY <2>3, <3>1, TrimFacts DEF OnLine
    <3>3. line.means.kind \in {"text", "ifdef", "ifndef"} /\ Live(Now)
      BY <1>1, <2>3, <3>1, <3>2, TextBegins
    <3>4. Means = line.means
      BY <2>1, <3>1, AsItStands
    <3> QED
      BY <3>3, <3>4 DEF OnlyLiveTextStep, Now
  <2>6. CASE AddText
    <3>1. Within
      BY <2>3, <2>6 DEF AddText, OnLine, Ahead, Past
    <3> QED
      BY <3>1 DEF OnlyLiveTextStep, Within, Here
  <2> QED
    BY <2>2, <2>4, <2>5, <2>6
<1>2. ASSUME LiveInv, LiveNext, out' # NoToken, BehindLines
      PROVE  OnlyLiveTextStep
  <2>1. pc = "text"
    BY <1>2, AddsToken DEF LiveNext, BehindLines, AddLeading, BeginText, AddText, Parsing
  <2>2. continued /\ Live(text)
    BY <1>2, <2>1 DEF BehindLines
  <2> QED
    BY <2>2 DEF OnlyLiveTextStep, Means, After
<1>3. LiveInv /\ LiveNext => OnLine \/ BehindLines
  BY WhileReading DEF LiveInv, LineInv, LiveNext
<1>4. LiveInv /\ [LiveNext]_<<pp, text>> => [OnlyLiveTextStep]_<<pp, text>>
  BY <1>1, <1>2, <1>3 DEF OnlyLiveTextStep
<1> QED
  BY <1>4, LiveInductive, PTL DEF LiveSpec, OnlyLiveText

(* What is left of a line once k tokens have been read.                    *)
LEMMA LeftOf ==
  ASSUME NEW s \in Ended, NEW r \in Ended \cup {<<>>}, NEW k, Suffix(s, r, k)
  PROVE  Len(s) - Len(r) = k /\ r = SubSeq(s, k + 1, Len(s))
<1>1. s \in Tokens /\ Len(s) \in Nat \ {0} /\ r \in Tokens /\ Len(r) \in Nat
  <2>1. s \in Tokens /\ Len(s) \in Nat \ {0}
    BY EndedFacts
  <2>2. r \in Tokens
    <3>1. CASE r = <<>>
      BY <3>1, Behind
    <3>2. CASE r \in Ended
      BY <3>2, EndedFacts
    <3> QED
      BY <3>1, <3>2
  <2>3. Len(r) \in Nat
    BY <2>2, LenProperties DEF Tokens
  <2> QED
    BY <2>1, <2>2, <2>3
<1>2. /\ k \in 0 .. Len(s) /\ Len(r) = Len(s) - k
      /\ \A i \in 1 .. Len(r) : r[i] = s[k + i]
  BY DEF Suffix
<1> DEFINE q == SubSeq(s, k + 1, Len(s))
<1>3. q \in Tokens /\ Len(q) = Len(s) - k /\ \A i \in 1 .. Len(s) - k : q[i] = s[k + i]
  <2>1. \A i \in k + 1 .. Len(s) : s[i] \in [id : STRING, string : STRING]
    BY <1>1, <1>2, EndedFacts
  <2>2. /\ q \in Tokens
        /\ Len(q) = IF k + 1 <= Len(s) THEN Len(s) - (k + 1) + 1 ELSE 0
        /\ \A i \in 1 .. Len(s) - (k + 1) + 1 : q[i] = s[(k + 1) + i - 1]
    BY <1>1, <1>2, <2>1, SubSeqProperties DEF Tokens
  <2>3. Len(s) - (k + 1) + 1 = Len(s) - k /\ \A i \in 1 .. Len(s) - k : (k + 1) + i - 1 = k + i
    BY <1>1, <1>2
  <2> QED
    BY <1>1, <1>2, <2>2, <2>3
<1> HIDE DEF q
<1>4. r = q
  BY <1>1, <1>2, <1>3, SeqEqual DEF Tokens
<1> QED
  BY <1>1, <1>2, <1>4 DEF q

(* What a step leaves of the line, and how many of its tokens it reads.    *)
LeftNow == IF LineRead THEN <<>> ELSE rest'
ReadNow == Len(rest) - Len(LeftNow)

(* What one token of text takes from its line.                             *)
LEMMA Taken ==
  ASSUME TextInv, NewText, line \in Lines, rest \in Ended,
         \/ AddLeading
         \/ AddToken(Head(rest), Tail(rest))
  PROVE  /\ ReadNow > 0 /\ LeftNow = SubSeq(rest, ReadNow + 1, Len(rest))
         /\ \/ out' = Head(rest) /\ ReadNow = 1
            \/ /\ IsName(Head(rest)) /\ IsDefined(Head(rest))
               /\ IF macros[Head(rest).string].is_function
                  THEN \A n \in 2 .. ReadNow - 1 : MayBeParm(rest[n])
                  ELSE ReadNow = 1
<1> DEFINE t == Head(rest)
           tokens == Tail(rest)
           args == Parms(tokens)
<1>1. /\ Len(rest) \in Nat \ {0} /\ rest \in Tokens
      /\ IsNewline(t) <=> Len(rest) = 1 /\ tokens = <<>>
      /\ ~IsNewline(t) => tokens \in Ended
      /\ t = rest[1] /\ Len(tokens) = Len(rest) - 1
      /\ \A i \in 1 .. Len(tokens) : tokens[i] = rest[i + 1]
  <2>1. /\ rest \in Tokens /\ rest # <<>> /\ Len(rest) \in Nat \ {0} /\ 1 \in 1 .. Len(rest)
        /\ t = rest[1] /\ (IsNewline(t) => tokens = <<>>) /\ (~IsNewline(t) => tokens \in Ended)
        /\ \A i \in 1 .. Len(rest) : IsNewline(rest[i]) <=> i = Len(rest)
    BY EndedFacts
  <2>2. Len(tokens) = Len(rest) - 1 /\ \A i \in 1 .. Len(tokens) : tokens[i] = rest[i + 1]
    BY <2>1, HeadTailProperties DEF Tokens
  <2>3. IsNewline(t) => Len(rest) = 1
    BY <2>1
  <2>4. Len(rest) = 1 => IsNewline(t)
    BY <2>1
  <2> QED
    BY <2>1, <2>2, <2>3, <2>4
<1>2. ASSUME NEW r \in Ended \cup {<<>>}, Goto(r), NEW k, Suffix(rest, r, k)
      PROVE  ReadNow = k /\ LeftNow = SubSeq(rest, k + 1, Len(rest))
  <2>1. LeftNow = r
    <3>1. CASE r = <<>>
      <4>1. NextLine
        BY <1>2, <3>1 DEF Goto
      <4> QED
        BY <3>1, <4>1, Passed DEF LeftNow
    <3>2. CASE r # <<>>
      BY <1>2, <3>2, Kept DEF LeftNow
    <3> QED
      BY <3>1, <3>2
  <2> QED
    BY <1>2, <2>1, LeftOf DEF ReadNow
<1>3. Suffix(rest, tokens, 1) /\ tokens \in Ended \cup {<<>>}
  BY <1>1 DEF Suffix
<1>4. Goto(tokens) => ReadNow = 1 /\ LeftNow = SubSeq(rest, 1 + 1, Len(rest))
  <2> HIDE DEF tokens
  <2> QED
    BY <1>2, <1>3
<1>5. ASSUME Goto(args.rest), tokens \in Ended
      PROVE  /\ ReadNow > 0 /\ LeftNow = SubSeq(rest, ReadNow + 1, Len(rest))
             /\ \A n \in 2 .. ReadNow - 1 : MayBeParm(rest[n])
  <2>1. args.rest \in Ended \cup {<<>>} /\ StopsBehind(tokens, args.rest)
    BY <1>5, ParmsInLine
  <2> HIDE DEF args, tokens
  <2>2. PICK k \in 0 .. Len(tokens) : /\ Suffix(tokens, args.rest, k)
                                      /\ \A n \in 1 .. k - 1 : MayBeParm(tokens[n])
    BY <2>1 DEF StopsBehind
  <2> DEFINE r == args.rest
  <2>3. Len(r) = Len(tokens) - k /\ \A i \in 1 .. Len(r) : r[i] = tokens[k + i]
    BY <2>2 DEF Suffix
  <2> HIDE DEF r
  <2>4. Suffix(rest, r, k + 1)
    <3>1. k + 1 \in 0 .. Len(rest) /\ Len(r) = Len(rest) - (k + 1)
      BY <1>1, <2>3
    <3>2. ASSUME NEW i \in 1 .. Len(r) PROVE r[i] = rest[(k + 1) + i]
      <4>1. k + i \in 1 .. Len(tokens) /\ (k + i) + 1 = (k + 1) + i
        BY <1>1, <2>3
      <4> QED
        BY <1>1, <2>3, <4>1
    <3> QED
      BY <3>1, <3>2 DEF Suffix
  <2>5. ReadNow = k + 1 /\ LeftNow = SubSeq(rest, (k + 1) + 1, Len(rest))
    <3> QED
      BY <1>2, <1>5, <2>1, <2>4 DEF r
    <2>6. ASSUME NEW n \in 2 .. ReadNow - 1 PROVE MayBeParm(rest[n])
    <3>1. n - 1 \in 1 .. k - 1 /\ n - 1 \in 1 .. Len(tokens) /\ (n - 1) + 1 = n
      BY <1>1, <2>5
    <3> QED
      BY <1>1, <2>2, <3>1
  <2> QED
    BY <2>5, <2>6
<1>6. CASE AddLeading
  <2>1. out' = t /\ Goto(tokens)
    BY <1>6 DEF AddLeading
  <2> HIDE DEF tokens
  <2> QED
    BY <1>4, <2>1
<1>7. CASE AddToken(t, tokens)
  <2>1. CASE ~(IsName(t) /\ IsDefined(t))
    <3>1. out' = t /\ Goto(tokens)
      BY <1>7, <2>1 DEF AddToken
    <3> HIDE DEF tokens
    <3> QED
      BY <1>4, <3>1
  <2>2. CASE IsName(t) /\ IsDefined(t) /\ ~macros[t.string].is_function
    <3>1. Goto(tokens)
      BY <1>7, <2>2 DEF AddToken
    <3> HIDE DEF tokens
    <3> QED
      BY <1>4, <2>2, <3>1
  <2>3. CASE IsName(t) /\ IsDefined(t) /\ macros[t.string].is_function
    <3>1. Goto(args.rest)
      BY <1>7, <2>3 DEF AddToken
    <3>2. tokens \in Ended
      BY <1>1, <2>3 DEF IsName, IsNewline
    <3> HIDE DEF tokens, args
    <3> QED
      BY <1>5, <2>3, <3>1, <3>2
  <2> QED
    BY <2>1, <2>2, <2>3
<1> QED
  BY <1>6, <1>7

(* OnlyMacrosDropped: of a live line of text, or of what goes on in it,    *)
(* every token is added in its order, except for the name of a macro and,  *)
(* if the macro has parameters, the blanks, names, commas and ellipses     *)
(* that _process_PARMS reads behind it and the one token, of any kind,     *)
(* that it stops at.                                                       *)
THEOREM OnlyMacrosLost == LiveSpec => OnlyMacrosDropped
<1>1. ASSUME LiveInv, LiveNext, Means.kind = "text", Live(text), file' # file
      PROVE  /\ NewText /\ line \in Lines /\ rest \in Ended
             /\ Agrees(frames, macros, text)
             /\ AddLeading \/ AddToken(Head(rest), Tail(rest))
  <2>1. PreprocNext /\ (OnLine \/ BehindLines) /\ NewText
    BY <1>1, WhileReading DEF LiveNext, LiveInv, LineInv, NewText, Here
  <2>2. ~EndOfFile /\ ~HandOver /\ ~ReturnZero
    BY <1>1 DEF EndOfFile, HandOver, ReturnZero
  <2>3. OnLine
    <3>1. CASE BehindLines
      <4>1. rest = <<>> /\ line = NoLine
        BY <3>1 DEF BehindLines
      <4>2. AddText
        BY <2>1, <2>2, <4>1 DEF PreprocNext, AddLeading, BeginText, NakedPound, Warn, ProcessDefine,
             ProcessIfdef, ParseElse, ParseEndif, ParseFails, Directive, Parsing, SkipLine,
             SkipNested, SkipElse, SkipEndif, SkipFails, SkipDirective, Skipping
      <4>3. AddToken(NewlineToken, <<>>) /\ ~IsName(NewlineToken)
        BY <4>1, <4>2 DEF AddText, IsName, NewlineToken, Token
      <4>4. file' = file
        BY <4>1, <4>3 DEF AddToken, Goto, NextLine, file
      <4> QED
        BY <1>1, <4>4
    <3> QED
      BY <2>1, <3>1
  <2>4. Here = text /\ line \in Lines /\ rest \in Ended
    BY <1>1, <2>3 DEF Here, After, OnLine
  <2>5. pc \in {"loop", "text"}
    BY <2>1, <2>2, WhileReading DEF PreprocNext, AddLeading, BeginText, AddText, NakedPound,
         Warn, ProcessDefine, ProcessIfdef, ParseElse, ParseEndif, ParseFails, Directive,
         Parsing, SkipLine, SkipNested, SkipElse, SkipEndif, SkipFails, SkipDirective, Skipping
  <2>6. CASE pc = "text"
    <3>1. Agrees(frames, macros, text)
      BY <2>3, <2>4, <2>6 DEF OnLine, Ahead, Past, Within
    <3>2. AddText
      BY <2>1, <2>6 DEF PreprocNext, AddLeading, BeginText, NakedPound, Warn, ProcessDefine,
           ProcessIfdef, ParseElse, ParseEndif, ParseFails, Directive, Parsing, SkipLine,
           SkipNested, SkipElse, SkipEndif, SkipFails, SkipDirective, Skipping, EndOfFile,
           HandOver, ReturnZero
    <3>3. AddToken(Head(rest), Tail(rest))
      BY <2>4, <3>2, EndedFacts DEF AddText
    <3> QED
      BY <2>1, <2>4, <3>1, <3>3
  <2>7. CASE pc = "loop"
    <3>1. Means = line.means /\ line.means.kind = "text"
      BY <1>1, <2>7, AsItStands DEF LiveInv, ContinuedInv
    <3>2. Ahead /\ Agrees(frames, macros, text)
      BY <2>3, <2>7, <3>1 DEF OnLine, Ahead, Past, Within, Answered
    <3>3. Top.proc = "parse"
      BY <1>1, <2>7, <3>2, LiveOrDead DEF LiveInv
    <3>4. ~IsDirective(line)
      BY <2>4, <3>1, MeansAssumption DEF LineMeans, KindOf
    <3>5. ~(Parsing /\ Head(rest).id = "T__POUND")
      <4> SUFFICES ASSUME Parsing, Head(rest).id = "T__POUND" PROVE FALSE
        OBVIOUS
      <4>1. Trim[rest] = rest
        BY <2>4, TrimFacts DEF IsSpace
      <4> QED
        BY <3>2, <3>4, <4>1 DEF Ahead, IsDirective
    <3>6. AddLeading \/ BeginText
      <4>1. ~Skipping /\ ~AddText
        BY <2>7, <3>3 DEF Skipping, AddText
      <4> QED
        BY <2>1, <2>2, <3>5, <4>1 DEF PreprocNext, NakedPound, Warn, ProcessDefine, ProcessIfdef,
             ParseElse, ParseEndif, ParseFails, Directive, SkipLine, SkipNested, SkipElse,
             SkipEndif, SkipFails, SkipDirective
    <3> QED
      BY <2>1, <2>4, <3>2, <3>6 DEF BeginText
  <2> QED
    BY <2>5, <2>6, <2>7
<1>2. ASSUME LiveInv, LiveNext PROVE OnlyMacrosDroppedStep
  <2> SUFFICES ASSUME Means.kind = "text", Live(text), file' # file
               PROVE  LET t    == Head(rest)
                          left == IF LineRead THEN <<>> ELSE rest'
                          read == Len(rest) - Len(left)
                      IN  /\ read > 0 /\ left = SubSeq(rest, read + 1, Len(rest))
                          /\ \/ out' = t /\ read = 1
                             \/ /\ IsName(t) /\ t.string \in DOMAIN text.definitions
                                /\ IF text.definitions[t.string].is_function
                                   THEN \A n \in 2 .. read - 1 : MayBeParm(rest[n])
                                   ELSE read = 1
    BY DEF OnlyMacrosDroppedStep
  <2> DEFINE t == Head(rest)
             left == IF LineRead THEN <<>> ELSE rest'
             read == Len(rest) - Len(left)
  <2>1. /\ read > 0 /\ left = SubSeq(rest, read + 1, Len(rest))
        /\ \/ out' = t /\ read = 1
           \/ /\ IsName(t) /\ IsDefined(t)
              /\ IF macros[t.string].is_function
                 THEN \A n \in 2 .. read - 1 : MayBeParm(rest[n])
                 ELSE read = 1
    BY <1>1, <1>2, Taken DEF LiveInv, LeftNow, ReadNow
  <2>2. IsDefined(t) => /\ t.string \in DOMAIN text.definitions
                        /\ text.definitions[t.string].is_function = macros[t.string].is_function
    <3>1. text.definitions = [name \in DOMAIN macros |-> MacroMeans(macros[name])]
      BY <1>1, <1>2 DEF Agrees, MacrosAgree
    <3>2. \A m : MacroMeans(m).is_function = m.is_function
      BY DEF MacroMeans
    <3> HIDE DEF t
    <3> QED
      BY <3>1, <3>2 DEF IsDefined
  <2> HIDE DEF t, left, read
  <2> QED
    BY <2>1, <2>2 DEF t, left, read
<1>3. LiveInv /\ UNCHANGED <<pp, text>> => [OnlyMacrosDroppedStep]_<<pp, text>>
  OBVIOUS
<1>4. LiveInv /\ [LiveNext]_<<pp, text>> => [OnlyMacrosDroppedStep]_<<pp, text>>
  BY <1>2
<1> QED
  BY <1>4, LiveInductive, PTL DEF LiveSpec, OnlyMacrosDropped

-----------------------------------------------------------------------------
(* Whatever macros have swallowed, what is left of a line ends in its      *)
(* newline.                                                                *)
RestInv == rest \in Ended \cup {<<>>}

(* The tokens behind a directive's name.                                   *)
LEMMA Operating ==
  ASSUME NEW names, Directive(names), "\n" \notin names, RestInv
  PROVE  Tail(words) \in Ended /\ Trim[Tail(words)] \in Ended
<1>1. rest \in Ended /\ Head(rest).id = "T__POUND" /\ Head(words).string \in names
  BY DEF Directive, Parsing, RestInv
<1>2. words \in Ended
  BY <1>1, Behind DEF words
<1>3. Tail(words) \in Ended
  BY <1>1, <1>2, EndedFacts
<1> QED
  BY <1>3, TrimFacts

(* Reading on leaves the end of the line where it is.                      *)
LEMMA RestStep ==
  ASSUME RestInv, PreprocNext
  PROVE  RestInv'
<1>1. NextLine => RestInv'
  <2>1. \A l \in Lines : l.tokens \in Ended
    BY LinesAssumption
  <2> QED
    BY <2>1 DEF NextLine, RestInv
<1>2. ASSUME NEW tokens \in Ended \cup {<<>>}, Goto(tokens)
      PROVE  RestInv'
  BY <1>1, <1>2 DEF Goto, RestInv
<1>3. UNCHANGED file \/ Fail \/ LineDone => RestInv'
  BY <1>1 DEF file, Fail, LineDone, RestInv
<1>4. ASSUME NEW t, NEW tokens \in Ended \cup {<<>>}, tokens = <<>> => ~IsName(t),
             AddToken(t, tokens)
      PROVE  RestInv'
  <2>1. Goto(tokens) \/ (tokens \in Ended /\ Goto(Parms(tokens).rest))
    BY <1>4 DEF AddToken
  <2>2. tokens \in Ended => Parms(tokens).rest \in Ended \cup {<<>>}
    BY ParmsInLine
  <2> DEFINE args == Parms(tokens)
  <2> HIDE DEF args
  <2> QED
    BY <1>2, <2>1, <2>2
<1>5. CASE AddLeading \/ BeginText
  <2>1. rest \in Ended
    BY <1>5 DEF AddLeading, BeginText, Parsing, RestInv
  <2>2. /\ Tail(rest) \in Ended \cup {<<>>}
        /\ Tail(rest) = <<>> => ~IsName(Head(rest))
    <3>1. ~IsNewline(Head(rest)) => Tail(rest) # <<>>
      BY <2>1, EndedFacts DEF Ended
    <3> QED
      BY <2>1, <3>1, Behind DEF IsName, IsNewline
  <2> QED
    BY <1>2, <1>4, <1>5, <2>2 DEF AddLeading, BeginText
<1>6. CASE AddText
  <2>1. CASE rest = <<>>
    <3>1. AddToken(NewlineToken, <<>>) /\ ~IsName(NewlineToken)
      BY <1>6, <2>1 DEF AddText, IsName, NewlineToken, Token
    <3> QED
      BY <1>4, <3>1
  <2>2. CASE rest # <<>>
    <3>1. rest \in Ended
      BY <2>2 DEF RestInv
    <3>2. /\ Tail(rest) \in Ended \cup {<<>>}
          /\ Tail(rest) = <<>> => ~IsName(Head(rest))
      <4>1. ~IsNewline(Head(rest)) => Tail(rest) # <<>>
        BY <3>1, EndedFacts DEF Ended
      <4> QED
        BY <3>1, <4>1, Behind DEF IsName, IsNewline
    <3> QED
      BY <1>4, <1>6, <2>2, <3>2 DEF AddText
  <2> QED
    BY <2>1, <2>2
<1>7. CASE NakedPound \/ Warn \/ ProcessDefine \/ ParseEndif \/ ParseFails
  BY <1>1, <1>3, <1>7 DEF NakedPound, Warn, ProcessDefine, ParseEndif, ParseFails
<1>8. CASE ProcessIfdef
  <2> DEFINE ops == Trim[Tail(words)]
  <2>1. ops \in Ended
    BY <1>8, Operating DEF ProcessIfdef
  <2>2. Fail \/ (IsName(Head(ops)) /\ Goto(Tail(ops)))
    BY <1>8 DEF ProcessIfdef
  <2> HIDE DEF ops
  <2>3. Tail(ops) \in Ended \cup {<<>>}
    BY <2>1, Behind
  <2> QED
    BY <1>2, <1>3, <2>2, <2>3
<1>9. CASE ParseElse
  <2>1. Tail(words) \in Ended
    BY <1>9, Operating DEF ParseElse
  <2> QED
    BY <1>2, <1>3, <1>9, <2>1 DEF ParseElse
<1>10. CASE SkipLine \/ SkipNested \/ SkipElse \/ SkipEndif \/ SkipFails
  BY <1>1, <1>3, <1>10 DEF SkipLine, SkipNested, SkipElse, SkipEndif, SkipFails
<1>11. CASE EndOfFile \/ HandOver \/ ReturnZero
  BY <1>3, <1>11 DEF EndOfFile, HandOver, ReturnZero
<1> QED
  BY <1>5, <1>6, <1>7, <1>8, <1>9, <1>10, <1>11 DEF PreprocNext

(* What tokenlist_normalize leaves of a body begins with the body's first  *)
(* token, unless that is a blank.                                          *)
LEMMA StrippedHead ==
  ASSUME NEW body \in Tokens, Len(body) \in Nat \ {0}, body[1].id # "T_WHITESPACE"
  PROVE  Stripped[body][1] = body[1]
<1> DEFINE n == Len(body)
           solid == {i \in 1 .. n : body[i].id # "T_WHITESPACE"}
           behind == {n - i : i \in solid}
<1>1. n \in Nat \ {0} /\ DOMAIN body = 1 .. n
  BY LenProperties DEF Tokens
<1>2. 1 \in solid /\ solid \subseteq 1 .. n
  BY <1>1
<1>3. Min(solid) = 1
  <2>1. \A i \in solid : 1 <= i
    BY <1>1
  <2>2. \A k \in solid : (\A i \in solid : k <= i) => k = 1
    <3> SUFFICES ASSUME NEW k \in solid, \A i \in solid : k <= i PROVE k = 1
      OBVIOUS
    <3>1. k <= 1 /\ k \in 1 .. n
      BY <1>2
    <3> QED
      BY <1>1, <3>1
  <2> HIDE DEF solid
  <2> QED
    BY <1>2, <2>1, <2>2 DEF Min
<1>4. Max(solid) \in 1 .. n
  <2>1. behind \subseteq Nat /\ behind # {}
    BY <1>1, <1>2
  <2>2. PICK b \in behind : \A c \in behind : b <= c
    <3> HIDE DEF behind
    <3> QED
      BY <2>1, LeastNatural
  <2>3. PICK m \in solid : b = n - m
    OBVIOUS
  <2>4. \A i \in solid : m >= i
    <3> SUFFICES ASSUME NEW i \in solid PROVE m >= i
      OBVIOUS
    <3>1. n - m <= n - i
      BY <2>2, <2>3
    <3>2. n \in Nat /\ m \in 1 .. n /\ i \in 1 .. n
      BY <1>1
    <3> QED
      BY <3>1, <3>2
  <2> HIDE DEF solid
  <2> QED
    BY <1>2, <2>4 DEF Max
<1>5. Stripped[body] = SubSeq(body, 1, Max(solid))
  <2>1. solid # {}
    BY <1>2
  <2>2. solid = {i \in DOMAIN body : body[i].id # "T_WHITESPACE"}
    BY <1>1
  <2> HIDE DEF solid
  <2> QED
    BY <1>3, <2>1, <2>2 DEF Stripped
<1> DEFINE m == Max(solid)
<1> HIDE DEF m
<1>6. m \in 1 .. n
  BY <1>4 DEF m
<1>7. SubSeq(body, 1, m)[1] = body[1]
  <2>1. \A i \in 1 .. m : body[i] \in [id : STRING, string : STRING]
    <3>1. \A i \in 1 .. n : body[i] \in [id : STRING, string : STRING]
      BY ElementOfSeq DEF Tokens
    <3>2. n \in Nat
      BY <1>1
    <3> HIDE DEF n
    <3>3. \A i \in 1 .. m : i \in 1 .. n
      BY <1>6, <3>2
    <3> QED
      BY <3>1, <3>3
  <2>2. /\ Len(body) \in Nat /\ 1 <= m /\ m <= Len(body)
    BY <1>1, <1>6
  <2>3. \A i \in 1 .. m - 1 + 1 : SubSeq(body, 1, m)[i] = body[1 + i - 1]
    BY <1>6, <2>1, <2>2, SubSeqProperties DEF Tokens
  <2> QED
    BY <1>6, <2>3
<1> QED
  BY <1>5, <1>7 DEF m

(* The body of a definition has no blank, and no comment, at its start.    *)
LEMMA BodyHead ==
  ASSUME NEW s \in Ended
  PROVE  /\ Body(s) \in Tokens
         /\ Body(s) = <<>> \/ (Len(Body(s)) \in Nat \ {0} /\ ~IsSpace(Body(s)[1]))
<1> DEFINE r == Trim[s]
           b == Front(r)
<1>1. r \in Ended /\ ~IsSpace(Head(r))
  BY TrimFacts
<1>2. Body(s) = b
  BY DEF Body
<1> HIDE DEF r
<1>3. r \in Tokens /\ r # <<>> /\ Len(r) \in Nat \ {0} /\ Head(r) = r[1]
  BY <1>1, EndedFacts
<1>4. b \in Tokens /\ Len(b) = Len(r) - 1 /\ \A i \in 1 .. Len(r) - 1 : b[i] = r[i]
  BY <1>3, Ends DEF Tokens
<1> HIDE DEF b
<1>5. CASE Len(r) = 1
  <2>1. Len(b) = 0
    BY <1>4, <1>5
  <2>2. b = <<>>
    BY <1>4, <2>1, EmptySeq DEF Tokens
  <2> QED
    BY <1>2, <1>4, <2>2
<1>6. CASE Len(r) # 1
  <2>1. 1 \in 1 .. Len(r) - 1 /\ Len(r) - 1 \in Nat \ {0}
    BY <1>3, <1>6
  <2>2. b[1] = r[1] /\ Len(b) \in Nat \ {0}
    BY <1>4, <2>1
  <2> QED
    BY <1>1, <1>2, <1>3, <1>4, <2>2
<1> QED
  BY <1>5, <1>6

(* NeverReadsBefore: tokenlist_normalize is never given a body that begins *)
(* with a comment, which it would compare with the token before the list.  *)
(* (Of its memmove behind the end of the array it says nothing.)           *)
THEOREM NeverReadBefore == LiveSpec => []NeverReadsBefore
<1>1. RestInv => NeverReadsBefore
  <2> SUFFICES ASSUME RestInv, Directive({"define"}), Defines(Trim[Tail(words)])
               PROVE  ~ReadsBefore(Stripped[Defined[Trim[Tail(words)]].def.body])
    BY DEF NeverReadsBefore
  <2> DEFINE ops == Trim[Tail(words)]
             behind == Tail(ops)
             body == Defined[ops].def.body
  <2>1. ops \in Ended /\ IsName(Head(ops)) /\ Defined[ops].ok
    BY Operating DEF Defines
  <2> HIDE DEF ops
  <2>2. behind \in Ended /\ ops \in Tokens
    BY <2>1, EndedFacts DEF IsName, IsNewline
  <2>3. PICK s \in Ended : body = Body(s)
    <3> DEFINE is_function == Head(behind).id = "T_PARENS_OPEN"
               list == IF is_function THEN Parms(Tail(behind))
                       ELSE Result(TRUE, <<>>, behind)
    <3>1. /\ Defined[ops].ok = list.ok
          /\ body = IF list.ok THEN Body(list.rest) ELSE <<>>
      BY <2>2 DEF Defined, Definition
    <3>2. list.ok => list.rest \in Ended
      <4>1. CASE is_function
        <5>1. Tail(behind) \in Ended
          BY <2>2, <4>1, Behind
        <5> QED
          BY <4>1, <5>1, ParmsInLine
      <4>2. CASE ~is_function
        BY <2>2, <4>2 DEF Result
      <4> QED
        BY <4>1, <4>2
    <3> HIDE DEF list
    <3> QED
      BY <2>1, <3>1, <3>2
  <2> HIDE DEF body
  <2>4. body \in Tokens /\ (body = <<>> \/ (Len(body) \in Nat \ {0} /\ ~IsSpace(body[1])))
    BY <2>3, BodyHead
  <2>5. CASE body = <<>>
    <3> DEFINE solid == {i \in DOMAIN body : body[i].id # "T_WHITESPACE"}
    <3>1. solid = {}
      BY <2>5
    <3>2. Stripped[body] = <<>>
      BY <2>4, <3>1 DEF Stripped
    <3> QED
      BY <3>2 DEF ReadsBefore, body, ops
  <2>6. CASE Len(body) \in Nat \ {0} /\ ~IsSpace(body[1])
    <3>1. Stripped[body][1] = body[1] /\ body[1].id # "T_COMMENT"
      BY <2>4, <2>6, StrippedHead DEF IsSpace
    <3> QED
      BY <3>1 DEF ReadsBefore, body, ops
  <2> QED
    BY <2>4, <2>5, <2>6
<1>2. LiveInit => RestInv
  BY LinesAssumption DEF LiveInit, PreprocInit, RestInv
<1>3. RestInv /\ [LiveNext]_<<pp, text>> => RestInv'
  <2>1. RestInv /\ UNCHANGED <<pp, text>> => RestInv'
    BY DEF pp, RestInv
  <2> QED
    BY <2>1, RestStep DEF LiveNext
<1> QED
  BY <1>1, <1>2, <1>3, PTL DEF LiveSpec
=============================================================================
