----------------------------- MODULE RegexMatch -----------------------------
(***************************************************************************)
(* The matcher of src/src/regexx.c on what the compiler built: a pattern   *)
(* is the chain that hangs below its root, and regexx_match tries every    *)
(* pattern at every offset.  All of it is a function of the nodes and the  *)
(* text, so that the state machine is the compiler's: what is said of it   *)
(* is said of every pattern the compiler accepts.                          *)
(***************************************************************************)
EXTENDS RegexCompile

CONSTANTS
  Class,   (* The characters that the bracketed classes contain.           *)
  Texts    (* The texts to search.                                         *)

ASSUME TextAssumption == Class \subseteq Char /\ Texts \subseteq Seq(Char)

INSTANCE RegexEval

(* The heap, with its classes filled in.                                   *)
Built ==
  [re EXCEPT !.data =
     [n \in Node |-> IF re.type[n] = "T_CHARCLASS" THEN [set |-> Class] ELSE re.data[n]]]

(* head->next                                                              *)
Pattern(i) == re.next[patterns[i]]

Compiled == IF pc = "idle" THEN {Pattern(i) : i \in DOMAIN patterns} ELSE {}

-----------------------------------------------------------------------------
(***************************************************************************)
(* regexx_match: pattern by pattern, offset by offset, until a call does   *)
(* not fail.  The calls' outcomes are put in a table first.                *)
(***************************************************************************)
Outcomes(text) ==
  [t \in (DOMAIN patterns) \X (0 .. Len(text) - 1) |-> Eval(Built, text, Pattern(t[1]), t[2])]

NotFound == [id |-> 0, offset |-> 0, end |-> NoMatch]

Before(t, u) == t[1] < u[1] \/ (t[1] = u[1] /\ t[2] < u[2])

Match(outcomes, from) ==
  LET hits == {t \in DOMAIN outcomes : t[2] >= from /\ outcomes[t] # NoMatch}
  IN  IF hits = {} THEN NotFound
      ELSE LET t == CHOOSE t \in hits : \A u \in hits \ {t} : Before(t, u)
           IN  [id |-> t[1], offset |-> t[2], end |-> outcomes[t]]

-----------------------------------------------------------------------------
(* A match that is reported is a match: backtracking, laziness, lookahead  *)
(* and the choice of the longer alternative never invent one.  A negated   *)
(* lookahead turns a match that was missed into one that is claimed, so it *)
(* is left out.                                                            *)
Positive(n) == \A m \in Nodes(Built, n) : re.type[m] = "T_GROUP" => ~re.data[m].inv
MatchSound ==
  \A n \in Compiled : Positive(n) =>
    \A text \in Texts : \A o \in Offsets(text) :
      LET e == Eval(Built, text, n, o)
      IN  Matched(e) => e \in Ends(Built, text, n, o)

(* Without groups, and with quantifiers that repeat single nodes only.     *)
Flat(n) ==
  \A m \in Nodes(Built, n) :
    /\ re.type[m] \notin {"T_GROUP", "T_GROUP_START"}
    /\ re.type[m] = "T_QUANTIFIER" => re.child[m] # NULL /\ re.type[re.child[m]] \in Single

(* In a flat pattern every way to split the text between the quantifiers   *)
(* is tried, so that a match is missed only where it could be empty and at *)
(* the start of the text.                                                  *)
FlatComplete ==
  \A n \in Compiled : Flat(n) =>
    \A text \in Texts : \A o \in 0 .. Len(text) - 1 :
      LET ends == Ends(Built, text, n, o)
      IN  ends # {} /\ 0 \notin ends => Matched(Eval(Built, text, n, o))

(* Matching comes to an end unless an unbounded quantifier repeats         *)
(* something that can be empty.                                            *)
Progressing(n) ==
  \A m \in Nodes(Built, n) :
    re.type[m] = "T_QUANTIFIER" /\ re.data[m].max = SIZE_MAX => ~Nullable(Built, re.child[m])
HangNeedsNullable ==
  \A n \in Compiled : Progressing(n) =>
    \A text \in Texts : \A o \in Offsets(text) : Eval(Built, text, n, o) # Hang

(* The matcher knows every node of a pattern whose groups are all closed.  *)
ClosedNeverAborts ==
  \A n \in Compiled : (\A m \in Nodes(Built, n) : re.type[m] # "T_GROUP_START") =>
    \A text \in Texts : \A o \in Offsets(text) : Eval(Built, text, n, o) # Abort

-----------------------------------------------------------------------------
(* docs/REGEX.md:28 reads '?' as {,1}: zero repetitions are a match too,   *)
(* wherever in the text they are looked for.                               *)
OptionalMatches ==
  \A n \in Compiled : Flat(n) =>
    \A text \in Texts : \A o \in 0 .. Len(text) - 1 :
      o \in Ends(Built, text, n, o) => Matched(Eval(Built, text, n, o))
=============================================================================
