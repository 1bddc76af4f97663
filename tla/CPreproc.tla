------------------------------ MODULE CPreproc ------------------------------
(***************************************************************************)
(* src/examples/c-preproc.c: preproc_parse over one file.  The lexer turns *)
(* a file into tokens of which the last of a line is a T_NEWLINE, and it   *)
(* pretends another one at the end of the file (CLexer).  The recursion of *)
(* preproc_phase3_tokenize, _process_IFDEF and _process_SKIP is the stack  *)
(* `frames`.  A step is what a procedure does with one line, or, in text,  *)
(* with one token; the lines of the file are drawn as they are reached.    *)
(***************************************************************************)
EXTENDS MacroTable, SequencesExt

CONSTANTS
  Lines,     (* The lines a file may have: their tokens and their meaning.  *)
  MaxLines   (* Bound: lines of the file.                                   *)

NewlineToken == Token("T_NEWLINE", "\n")
IsNewline(t) == t.id = "T_NEWLINE"
IsName(t) == t.id \in {"T_IDENTIFIER", "T_KEYWORD"}

(* A line, or what is left of one: the newline is at the end, and only     *)
(* there.                                                                  *)
Ended ==
  {s \in Tokens :
     /\ s # <<>>
     /\ Last(s) = NewlineToken
     /\ \A i \in 1 .. Len(s) - 1 : ~IsNewline(s[i])}

ASSUME LinesAssumption ==
  /\ MaxLines \in Nat \ {0}
  /\ \A l \in Lines : l.tokens \in Ended

VARIABLES
  line,      (* The line that is being read, or NoLine at the end.          *)
  rest,      (* Its tokens that clex_next has not returned yet.             *)
  lineNo,    (* Lines of the file so far.                                   *)
  frames,    (* The calls of the parsing and the skipping half in progress. *)
  pc,
  value,     (* What the innermost call returns.                            *)
  out,       (* The token that the last step added to pp->tokens, if any.   *)
  continued  (* History: the text of the line before goes on in this one,   *)
             (* because the newline between was read with a macro's name.   *)

file == <<line, rest, lineNo>>
pp == <<line, rest, lineNo, frames, pc, value, out, continued, macros>>

NoLine == [tokens |-> <<>>, means |-> [kind |-> "end"]]
NoToken == Token("none", "")

(* The arguments of the two halves, and where they return to: to           *)
(* preproc_parse, to one of the two calls in _process_IFDEF, or to the     *)
(* call in _process_SKIP.                                                  *)
Parse(is_if, is_else, caller) ==
  [proc |-> "parse", is_if |-> is_if, is_else |-> is_else, caller |-> caller]
Skip(is_inside_else, is_everything, caller) ==
  [proc |-> "skip", has_seen_else |-> is_inside_else,
   is_everything |-> is_everything, caller |-> caller]

Top == Last(frames)

PreprocInit ==
  /\ \E l \in Lines : line = l /\ rest = l.tokens
  /\ lineNo = 1
  /\ frames = <<Parse(FALSE, FALSE, "file")>>
  /\ pc = "loop"
  /\ value = "0"
  /\ out = NoToken
  /\ continued = FALSE
  /\ macros = <<>>

-----------------------------------------------------------------------------
(* Behind a newline comes another line or the end of the file, which has   *)
(* no more tokens.                                                         *)
NextLine ==
  \/ line' = NoLine /\ rest' = <<>> /\ UNCHANGED lineNo
  \/ /\ line # NoLine
     /\ lineNo < MaxLines
     /\ lineNo' = lineNo + 1
     /\ \E l \in Lines : line' = l /\ rest' = l.tokens

(* Go on with what is left of the line.                                    *)
Goto(tokens) ==
  IF tokens = <<>> THEN NextLine
  ELSE rest' = tokens /\ UNCHANGED <<line, lineNo>>

(* _trimskip: without leading blanks and comments.                         *)
Trim[tokens \in Tokens] ==
  SubSeq(tokens, SelectInSeq(tokens, LAMBDA t : ~IsSpace(t)), Len(tokens))

Quiet == out' = NoToken /\ UNCHANGED continued

Fail == pc' = "failed" /\ Quiet /\ UNCHANGED <<file, frames, value, macros>>

Return(v) == pc' = "return" /\ value' = v

(* mutant: the rest of the line is not read                                *)
LineKept == Quiet /\ UNCHANGED <<file, frames, pc, value, macros>>

(* The line needs nothing more.                                            *)
LineDone == NextLine /\ Quiet /\ UNCHANGED <<frames, pc, value, macros>>

-----------------------------------------------------------------------------
(* _process_PARMS: the parameters read so far and the tokens that follow.  *)
(* Once it returns there is no more to do; an error has consumed the token *)
(* it is about.                                                            *)
HasIdentifier(parms, t) ==
  t.id = "T_IDENTIFIER" /\ \E i \in DOMAIN parms : parms[i] = t
EmptyParm == Token("T_WHITESPACE", "")
Parameters == Seq([id : STRING, string : STRING] \cup {EmptyParm})

Reading ==
  [more : BOOLEAN, ok : BOOLEAN, parms : Parameters, rest : Tokens]

Result(ok, parms, tokens) ==
  [more |-> FALSE, ok |-> ok, parms |-> parms, rest |-> tokens]
More(parms, tokens) ==
  [more |-> TRUE, ok |-> FALSE, parms |-> parms, rest |-> tokens]

Separated(list, tokens) ==
  CASE Head(tokens).id = "T_PARENS_CLOSE" -> Result(TRUE, list, Tail(tokens))
    [] Head(tokens).id = "T_COMMA" -> More(list, Trim[Tail(tokens)])
    [] OTHER -> Result(FALSE, list, Tail(tokens))

(* One turn of its loop, which reads a parameter and what separates it.    *)
NextParm[p \in Reading] ==
  LET t == Head(p.rest)
      next == Trim[Tail(p.rest)]
  IN  CASE ~p.more -> p
        [] p.more /\ t.id = "T_ELLIPSES" ->
             Result(Head(next).id = "T_PARENS_CLOSE", Append(p.parms, t),
                    Tail(next))
        [] p.more /\ IsName(t) /\ HasIdentifier(p.parms, t) ->
             Result(FALSE, p.parms, Tail(p.rest))
        [] p.more /\ IsName(t) /\ ~HasIdentifier(p.parms, t) ->
             Separated(Append(p.parms, t), next)
        [] p.more /\ t.id \in {"T_COMMA", "T_PARENS_CLOSE"} ->
             Separated(Append(p.parms, EmptyParm), p.rest)
        [] OTHER -> Separated(p.parms, p.rest)

(* Every turn uses up a token at least.                                    *)
Parms(tokens) ==
  LET read[n \in 0 .. Len(tokens)] ==
        IF n = 0 THEN More(<<>>, Trim[tokens]) ELSE NextParm[read[n - 1]]
  IN  read[Len(tokens)]

-----------------------------------------------------------------------------
(* preproc_add_token.  The name of a macro is dropped, and for one with    *)
(* parameters _process_PARMS reads on, into the next line if it meets the  *)
(* newline; that it failed is dropped by the caller.                       *)
AddToken(t, tokens) ==
  CASE ~(IsName(t) /\ IsDefined(t)) ->
         out' = t /\ Goto(tokens) /\ continued' = (continued /\ tokens # <<>>)
    [] IsName(t) /\ IsDefined(t) /\ ~macros[t.string].is_function ->
         Goto(tokens) /\ Quiet
    [] IsName(t) /\ IsDefined(t) /\ macros[t.string].is_function ->
         LET args == Parms(tokens)
         IN  /\ Goto(args.rest)
             /\ continued' = (continued \/ args.rest = <<>>)
             /\ out' = NoToken

Parsing == pc = "loop" /\ Top.proc = "parse" /\ rest # <<>>

(* mutant: blanks at the start of a line are skipped, as in a directive    *)
SkipLeading ==
  /\ Parsing
  /\ IsSpace(Head(rest))
  /\ Goto(Trim[rest])
  /\ Quiet
  /\ UNCHANGED <<frames, pc, value, macros>>

(* _trimadd keeps the blanks at the start of a line.                       *)
AddLeading ==
  /\ Parsing
  /\ IsSpace(Head(rest))
  /\ out' = Head(rest)
  /\ Goto(Tail(rest))
  /\ UNCHANGED <<frames, pc, value, macros, continued>>

InText(t) == IF IsNewline(t) THEN "loop" ELSE "text"

BeginText ==
  /\ Parsing
  /\ ~IsSpace(Head(rest))
  /\ Head(rest).id # "T__POUND"
  /\ AddToken(Head(rest), Tail(rest))
  /\ pc' = InText(Head(rest))
  /\ UNCHANGED <<frames, value, macros>>

AddText ==
  /\ pc = "text"
  /\ IF rest = <<>>
     THEN AddToken(NewlineToken, <<>>) /\ pc' = "loop"
     ELSE AddToken(Head(rest), Tail(rest)) /\ pc' = InText(Head(rest))
  /\ UNCHANGED <<frames, value, macros>>

-----------------------------------------------------------------------------
(* A directive in text that is not skipped.  `words` starts behind the #.  *)
words == Trim[Tail(rest)]
Directive(names) ==
  Parsing /\ Head(rest).id = "T__POUND" /\ Head(words).string \in names

NakedPound == Directive({"\n"}) /\ LineDone
Warn == Directive({"warning"}) /\ LineDone

BodyUntrimmed(tokens) == Front(tokens)   (* mutant: keeps leading blanks    *)
Body(tokens) == Front(Trim[tokens])

(* What `#define` defines, the macro's name being the first of `tokens`.   *)
Defined[tokens \in Tokens] ==
  LET behind == Tail(tokens)
      is_function == Head(behind).id = "T_PARENS_OPEN"
      list == IF is_function THEN Parms(Tail(behind))
              ELSE Result(TRUE, <<>>, behind)
  IN  [ok |-> list.ok,
       def |-> Definition(Head(tokens), is_function, list.parms,
                          IF list.ok THEN Body(list.rest) ELSE <<>>)]

Defines(tokens) == IsName(Head(tokens)) /\ Defined[tokens].ok

(* The body is normalized before the table is looked at.  Once memory      *)
(* outside of the array is touched, nothing more is claimed.               *)
ProcessDefine ==
  /\ Directive({"define"})
  /\ LET tokens == Trim[Tail(words)]
         def == Defined[tokens].def
     IN  \/ ~Defines(tokens) /\ Fail
         \/ /\ Defines(tokens) /\ OutOfBounds(Stripped[def.body])
            /\ pc' = "undefined"
            /\ Quiet
            /\ UNCHANGED <<file, frames, value, macros>>
         \/ /\ Defines(tokens) /\ ~OutOfBounds(Stripped[def.body])
            /\ Refused(def)
            /\ Fail
         \/ /\ Defines(tokens) /\ ~OutOfBounds(Stripped[def.body])
            /\ ~Refused(def)
            /\ Add(def)
            /\ NextLine
            /\ Quiet
            /\ UNCHANGED <<frames, pc, value>>

(* _process_IFDEF up to its first call.  What follows the name is left to  *)
(* the half that is called.                                                *)
ConditionPlain(name, is_inverted) == IsDefined(name)   (* mutant            *)
Condition(name, is_inverted) == IsDefined(name) # is_inverted

ProcessIfdef ==
  /\ Directive({"ifdef", "ifndef"})
  /\ LET tokens == Trim[Tail(words)]
         found  == Condition(Head(tokens), Head(words).string = "ifndef")
     IN  \/ ~IsName(Head(tokens)) /\ Fail
         \/ /\ IsName(Head(tokens))
            /\ frames' = Append(frames,
                 IF found THEN Parse(TRUE, FALSE, "first")
                 ELSE Skip(FALSE, FALSE, "first"))
            /\ Goto(Tail(tokens))
            /\ Quiet
            /\ UNCHANGED <<pc, value, macros>>

ParseElse ==
  /\ Directive({"else"})
  /\ \/ ~(Top.is_if /\ ~Top.is_else) /\ Fail
     \/ /\ Top.is_if /\ ~Top.is_else
        /\ Return("C_NORM_ELSE")
        /\ Goto(Tail(words))
        /\ Quiet
        /\ UNCHANGED <<frames, macros>>

ParseEndif ==
  /\ Directive({"endif"})
  /\ LET closes == /\ Top.is_if \/ Top.is_else
                   /\ IsNewline(Head(Trim[Tail(words)]))
     IN  \/ ~closes /\ Fail
         \/ /\ closes
            /\ Return("0")
            /\ NextLine
            /\ Quiet
            /\ UNCHANGED <<frames, macros>>

(* `#error`, and every directive that is not implemented.                  *)
ParseFails ==
  /\ Parsing
  /\ Head(rest).id = "T__POUND"
  /\ Head(words).string \notin
       {"\n", "define", "ifdef", "ifndef", "else", "endif", "warning"}
  /\ Fail

-----------------------------------------------------------------------------
(* _process_SKIP, one line.                                                *)
Skipping == pc = "loop" /\ Top.proc = "skip" /\ rest # <<>>

Ignored == {"define", "include", "warning", "error", "line", "pragma"}

skipped == Trim[rest]
SkippedWord == Head(Trim[Tail(skipped)]).string
SkipDirective(names) ==
  Skipping /\ Head(skipped).id = "T__POUND" /\ SkippedWord \in names

SkipLine ==
  /\ Skipping
  /\ Head(skipped).id = "T__POUND" => SkippedWord \in Ignored \cup {"\n"}
  /\ LineDone

NestedSeesElse == Skip(TRUE, TRUE, "nested")       (* mutant: any #else fails   *)
Nested == Skip(FALSE, TRUE, "nested")

SkipNested ==
  /\ SkipDirective({"if", "ifdef", "ifndef"})
  /\ frames' = Append(frames, Nested)
  /\ NextLine
  /\ Quiet
  /\ UNCHANGED <<pc, value, macros>>

SkipElse ==
  /\ SkipDirective({"else"})
  /\ \/ Top.has_seen_else /\ Fail
     \/ /\ ~Top.has_seen_else
        /\ NextLine
        /\ Quiet
        /\ \/ /\ ~Top.is_everything
              /\ Return("C_NORM_ELSE")
              /\ UNCHANGED frames
           \/ /\ Top.is_everything
              /\ frames' = [frames EXCEPT ![Len(frames)].has_seen_else = TRUE]
              /\ UNCHANGED <<pc, value>>
        /\ UNCHANGED macros

SkipEndif ==
  /\ SkipDirective({"endif"})
  /\ Return("0")
  /\ NextLine
  /\ Quiet
  /\ UNCHANGED <<frames, macros>>

(* `#elif`, `#undef` and what is no directive: the comment says that they  *)
(* are allowed, but the code returns -1.                                   *)
SkipFails ==
  /\ Skipping
  /\ Head(skipped).id = "T__POUND"
  /\ SkippedWord \notin
       Ignored \cup {"\n", "if", "ifdef", "ifndef", "else", "endif"}
  /\ Fail

-----------------------------------------------------------------------------
(* At the end of the file every call returns 0, a section that is still    *)
(* open included.                                                          *)
AtEnd == rest = <<>>

EndOfFile ==
  /\ pc = "loop"
  /\ AtEnd
  /\ Return("0")
  /\ Quiet
  /\ UNCHANGED <<file, frames, macros>>

SecondSkipAfresh == Skip(FALSE, FALSE, "second")   (* mutant: #else again    *)
SecondSkip == Skip(TRUE, FALSE, "second")

BothHalves == Parse(FALSE, TRUE, "second")   (* mutant: skips neither half  *)

(* The other half, after the first has met `#else`.                        *)
SecondHalf ==
  IF Top.proc = "parse" THEN SecondSkip ELSE Parse(FALSE, TRUE, "second")

(* The other callers take C_NORM_ELSE for an error.                        *)
HandOver ==
  /\ pc = "return"
  /\ value = "C_NORM_ELSE"
  /\ pc' = IF Top.caller = "first" THEN "loop" ELSE "failed"
  /\ frames' = [frames EXCEPT ![Len(frames)] = SecondHalf]
  /\ Quiet
  /\ UNCHANGED <<file, value, macros>>

ReturnZero ==
  /\ pc = "return"
  /\ value = "0"
  /\ frames' = Front(frames)
  /\ pc' = IF Top.caller = "file" THEN "done" ELSE "loop"
  /\ Quiet
  /\ UNCHANGED <<file, value, macros>>

PreprocNext ==
  \/ AddLeading \/ BeginText \/ AddText
  \/ NakedPound \/ Warn \/ ProcessDefine \/ ProcessIfdef
  \/ ParseElse \/ ParseEndif \/ ParseFails
  \/ SkipLine \/ SkipNested \/ SkipElse \/ SkipEndif \/ SkipFails
  \/ EndOfFile \/ HandOver \/ ReturnZero

PreprocSpec == PreprocInit /\ [][PreprocNext]_pp /\ WF_pp(PreprocNext)
=============================================================================
