------------------------------- MODULE CLexer -------------------------------
(***************************************************************************)
(* src/examples/c-lex.c on top of RegexLex: clex_next, which turns a call  *)
(* that finds nothing into a token of its own, and clex_push and clex_pop, *)
(* which c-preproc.c and regexx.h mean for a file that another includes.   *)
(* The texts and offsets of the files belong to the caller.                *)
(***************************************************************************)
EXTENDS RegexLex

CONSTANT MaxPushes   (* Bound: calls of clex_push.                          *)

ASSUME PushAssumption == MaxPushes \in Nat

VARIABLES
  token,  (* What clex_next returned.                                      *)
  next,   (* re->offsets.next: the saved positions that regexx.c can reach *)
  files,  (* The caller's suspended files, and the position each was at.   *)
  pushes, (* Calls of clex_push so far.                                    *)
  entered (* History: the offset in its text at which the file was turned  *)
          (* to, by a push or by a pop, and the line number at that time.  *)

clex == <<token, next, files, pushes, entered>>

Unset == "unset"   (* a field that is never assigned                       *)

Token(id, length, line, char) ==
  [id |-> id, length |-> length, line |-> line, char |-> char]

LexInit ==
  /\ Init
  /\ token = Token("none", 0, Unset, Unset)
  /\ next = <<>>
  /\ files = <<>>
  /\ pushes = 0
  /\ entered = [offset |-> 0, line |-> 1]

CallNext == Call /\ UNCHANGED clex

Try == TryPattern /\ UNCHANGED clex

Deliver ==
  /\ Return
  /\ Found
  /\ token' = Token(result.id, result.length, result.line, result.char)
  /\ UNCHANGED <<next, files, pushes, entered>>

(* "if end of input, pretend there's a newline"                            *)
PretendNewline ==
  /\ Return
  /\ ~Found
  /\ offset >= Len(text)
  /\ token' = Token("T_NEWLINE", 1, Unset, Unset)
  /\ UNCHANGED <<next, files, pushes, entered>>

Stay == offset   (* mutant: the character is returned but not skipped       *)
Skip == offset + 1

(* A character that no pattern matches is returned as a token.  Its line   *)
(* or column is not counted.                                               *)
BadChar ==
  /\ ~Found
  /\ offset < Len(text)
  /\ ReturnAt(Skip)
  /\ token' = Token("T__BADCHAR", 1, Unset, Unset)
  /\ UNCHANGED <<next, files, pushes, entered>>

PushKeepsPosition == offsets   (* mutant: goes on with the old file's lines *)
PushedPosition == [line |-> 1, char |-> 0]

(* regexx_lex_push allocates a copy of the position and then sets `next`   *)
(* to 0, so that the copy is out of reach.                                 *)
Push ==
  /\ pc = "idle"
  /\ pushes < MaxPushes
  /\ pushes' = pushes + 1
  /\ files' = <<[text |-> text, outcome |-> outcome, offset |-> offset,
                 offsets |-> offsets]>> \o files
  /\ \E t \in Texts : text' = t /\ outcome' \in Matchers(t)
  /\ offset' = 0
  /\ offsets' = PushedPosition
  /\ next' = <<>>
  /\ entered' = [offset |-> 0, line |-> 1]
  /\ UNCHANGED <<pc, i, longest, result, token>>

(* The caller goes back to its file.  regexx_lex_pop frees the position it *)
(* restores but leaves it in `next`.                                       *)
Pop ==
  /\ pc = "idle"
  /\ files # <<>>
  /\ text' = Head(files).text
  /\ outcome' = Head(files).outcome
  /\ offset' = Head(files).offset
  /\ files' = Tail(files)
  /\ offsets' = IF next = <<>> THEN offsets ELSE Head(next)
  /\ entered' = [offset |-> Head(files).offset, line |-> offsets.line]
  /\ UNCHANGED <<pc, i, longest, result, token, next, pushes>>

ClexNext ==
  \/ CallNext
  \/ Try
  \/ Deliver
  \/ PretendNewline
  \/ BadChar

LexNext == ClexNext \/ Push \/ Pop

LexSpec == LexInit /\ [][LexNext]_<<lex, clex>>

(* The preprocessor asks for tokens until the file ends.                   *)
FairLexSpec == LexSpec /\ WF_<<lex, clex>>(ClexNext)

-----------------------------------------------------------------------------
(* clex_next leaves no character of the file out and returns none twice,   *)
(* also around characters that are no token: a call moves the offset by    *)
(* the length of what it returns, except for the pretended newline.        *)
EveryCharacterOnceStep ==
  pc = "scan" /\ pc' = "idle" =>
    \/ offset' = offset + token'.length /\ offset' <= Len(text)
    \/ token'.id = "T_NEWLINE" /\ offset = Len(text) /\ offset' = offset
EveryCharacterOnce == [][EveryCharacterOnceStep]_<<lex, clex>>

(* If no pattern matches the empty text, the file comes to its end, and    *)
(* only the preprocessor's turning to another file can prevent that.       *)
ReachesEnd == Productive ~> (offset = Len(text) \/ ~Productive)

(* Since the file was turned to, its newlines have been counted exactly,   *)
(* around bad characters too, if every newline is in a token of some       *)
(* pattern and no two patterns match at one place.  The count starts from  *)
(* line 1 after a push, wherever the file is included; after a pop it goes *)
(* on from the line where the included file was left, not from that of the *)
(* file itself, although regexx.h:128 has the pop restore it.              *)
NewlinesLexed ==
  \A o \in 0 .. Len(text) - 1 : text[o + 1] = Newline =>
    \E p \in Pattern : outcome[p][o] > o
LinesSinceEntered ==
  pc = "idle" /\ Unrivalled /\ NewlinesLexed =>
    offsets.line = entered.line + Newlines(entered.offset, offset)

=============================================================================
