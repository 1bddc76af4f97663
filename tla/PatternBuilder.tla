--------------------------- MODULE PatternBuilder ---------------------------
(***************************************************************************)
(* What the pattern compiler of src/src/regexx.c does, without its heap: a *)
(* pattern under construction is a sequence of items, some of which are    *)
(* open groups, and every fragment rearranges the end of that sequence in  *)
(* one step.  RegexCompile does the same with pointers, node by node;      *)
(* CompileRefines relates the two.                                         *)
(***************************************************************************)
EXTENDS Integers, Sequences

CONSTANTS Char, Atoms, Data, Zeroed, StringMax

VARIABLES
  chain,    (* The items of the pattern that is being read.                *)
  done,     (* The item sequences of the accepted patterns.                *)
  call,     (* Is a pattern being read, given up, the object released?     *)
  dropped   (* A counted repetition has lost its operand.                  *)

bvars == <<chain, done, call, dropped>>

Item(t, d, sub) == [t |-> t, d |-> d, sub |-> sub]
Last(s)  == s[Len(s)]
Front(s) == SubSeq(s, 1, Len(s) - 1)

(* The items behind the innermost open group, and those up to it.          *)
OpenGroups(s) == {i \in DOMAIN s : s[i].t = "T_GROUP_START"}
LevelStart(s) ==
  IF OpenGroups(s) = {} THEN 0
  ELSE CHOOSE i \in OpenGroups(s) : \A j \in OpenGroups(s) : j <= i
Level(s)  == SubSeq(s, LevelStart(s) + 1, Len(s))
Outside(s) == SubSeq(s, 1, LevelStart(s))

(* Neighbouring characters share a string item until it is full.           *)
WithChar(s, c) ==
  IF s # <<>> /\ Last(s).t = "T_STRING" /\ Len(Last(s).d.str) < StringMax
    THEN [s EXCEPT ![Len(s)].d.str = Append(@, c)]
    ELSE Append(s, Item("T_STRING", [Zeroed EXCEPT !.str = <<c>>], <<>>))

Quantifier(min, max, sub) ==
  Item("T_QUANTIFIER", [Zeroed EXCEPT !.min = min, !.max = max], sub)

(***************************************************************************)
(* What is made of s by one more fragment, and of a whole pattern.         *)
(***************************************************************************)
(* Everything of the level so far becomes one alternative; if there is     *)
(* nothing of it, the '|' is a character.                                  *)
Alternated(s, c) ==
  IF Level(s) = <<>> THEN WithChar(s, c)
  ELSE Append(Outside(s), Item("T_ALTERNATION", Zeroed, Level(s)))

(* A ')' closes the innermost open group, or is a character.               *)
Closed(s) ==
  IF OpenGroups(s) = {} THEN WithChar(s, ")")
  ELSE LET start == LevelStart(s)
       IN  Append(SubSeq(s, 1, start - 1), Item("T_GROUP", s[start].d, Level(s)))

Repeated(s, min, max) == Append(Front(s), Quantifier(min, max, <<Last(s)>>))
Lazy(s) == [s EXCEPT ![Len(s)].d.lazy = TRUE]

With(s, f) ==
  CASE f.k = "char"     -> WithChar(s, f.c)
    [] f.k = "atom"     -> Append(s, Item(f.t, Zeroed, <<>>))
    [] f.k = "class"    -> Append(s, Item("T_CHARCLASS", [set |-> f.set], <<>>))
    [] f.k = "open"     ->
         Append(s, Item("T_GROUP_START", [Zeroed EXCEPT !.look = f.look, !.inv = f.inv], <<>>))
    [] f.k = "bar"      -> Alternated(s, "|")
    [] f.k = "close"    -> Closed(s)
    [] f.k = "quant"    -> Repeated(s, f.min, f.max)
    [] f.k = "question" ->
         IF Last(s).t = "T_QUANTIFIER" THEN Lazy(s) ELSE Repeated(s, 0, 1)
    [] f.k = "brace"    -> Alternated(Front(s), "{")

Compile(fragments) ==
  LET built[x \in 0 .. Len(fragments)] ==
        IF x = 0 THEN <<>> ELSE With(built[x - 1], fragments[x])
  IN  built[Len(fragments)]

-----------------------------------------------------------------------------
BInit == chain = <<>> /\ done = <<>> /\ call = "none" /\ dropped = FALSE

(* A pattern starts where a failed one left off.                           *)
Begin ==
  /\ call \in {"none", "failed"}
  /\ call' = "adding"
  /\ UNCHANGED <<chain, done, dropped>>

Adding == call = "adding" /\ ~dropped /\ UNCHANGED <<done, call, dropped>>

Atom ==
  /\ Adding
  /\ \E t \in Atoms : chain' = Append(chain, Item(t, Zeroed, <<>>))

Character ==
  /\ Adding
  /\ \E c \in Char : chain' = WithChar(chain, c)

Open ==
  /\ Adding
  /\ \E look, inv \in BOOLEAN :
       chain' = Append(chain, Item("T_GROUP_START",
                                   [Zeroed EXCEPT !.look = look, !.inv = inv], <<>>))

(* The last item, whatever it is, is what gets repeated.                   *)
Quantify ==
  /\ Adding
  /\ chain # <<>>
  /\ \E d \in Data :
       chain' = Repeated(chain, d.min, d.max)

MakeLazy ==
  /\ Adding
  /\ chain # <<>>
  /\ Last(chain).t = "T_QUANTIFIER"
  /\ chain' = Lazy(chain)

Bar == Adding /\ chain' = Alternated(chain, "|")

(* "{2,3": the operand goes away and the rest of the level is treated as   *)
(* by a '|'.                                                               *)
Drop ==
  /\ call = "adding" /\ ~dropped
  /\ chain # <<>>
  /\ chain' = Front(chain)
  /\ dropped' = TRUE
  /\ UNCHANGED <<done, call>>

BarAfterDrop ==
  /\ dropped
  /\ chain' = Alternated(chain, "{")
  /\ dropped' = FALSE
  /\ UNCHANGED <<done, call>>

Close == Adding /\ chain' = Closed(chain)

(* A fragment that fails may leave a last item behind.                     *)
GiveUp ==
  /\ call = "adding" /\ ~dropped
  /\ call' = "failed"
  /\ \/ chain' = chain
     \/ \E t \in {"T_UNKNOWN", "T_CHARCLASS", "T_GROUP_START"} :
          chain' = Append(chain, Item(t, Zeroed, <<>>))
     \/ chain = <<>> /\ \E d \in Data : chain' = <<Quantifier(d.min, d.max, <<>>)>>
  /\ UNCHANGED <<done, dropped>>

Accept ==
  /\ call = "adding" /\ ~dropped
  /\ done' = Append(done, chain)
  /\ chain' = <<>>
  /\ call' = "none"
  /\ UNCHANGED dropped

Release ==
  /\ call \in {"none", "failed"}
  /\ call' = "released"
  /\ UNCHANGED <<chain, done, dropped>>

BNext ==
  \/ Begin
  \/ Atom
  \/ Character
  \/ Open
  \/ Quantify
  \/ MakeLazy
  \/ Bar
  \/ Drop
  \/ BarAfterDrop
  \/ Close
  \/ GiveUp
  \/ Accept
  \/ Release

BSpec == BInit /\ [][BNext]_bvars
=============================================================================
