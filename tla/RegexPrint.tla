----------------------------- MODULE RegexPrint -----------------------------
(***************************************************************************)
(* regexx_print of src/src/regexx.c: _node_print walks a pattern and       *)
(* writes it, fragment by fragment, as it would be given to the compiler.  *)
(* How a character or a class is spelled is RegexFragment's business.      *)
(***************************************************************************)
EXTENDS CompileRefines

Mark(k) == [k |-> k]
Forever(min) == [k |-> "quant", min |-> min, max |-> SIZE_MAX]

LazyMarkNever(d) == <<>>   (* mutant: no quantifier is printed as lazy       *)
LazyMark(d) == IF d.lazy THEN <<Mark("question")>> ELSE <<>>

(* What is written behind the operand.  A {0,1} is a '?', lazy or not.     *)
(* The compiler drops the operand of a counted repetition, so that only    *)
(* the first two cases are met in a pattern that it has made.              *)
Suffix(d) ==
  CASE d.min = 0 /\ d.max = 1 -> <<Mark("question")>>
    [] d.min \in {0, 1} /\ d.max = SIZE_MAX -> <<Forever(d.min)>> \o LazyMark(d)
    [] d.min = 1 /\ d.max = 1 -> <<>>
    [] OTHER -> <<[k |-> "brace", min |-> d.min, max |-> d.max], RBrace>> \o LazyMark(d)

RECURSIVE NodePrint(_)

NodePrintOne(item) ==
  LET inner == NodePrint(item.sub)
  IN  CASE item.t \in AtomType -> <<[k |-> "atom", t |-> item.t]>>
        [] item.t = "T_STRING" ->
             [x \in DOMAIN item.d.str |-> [k |-> "char", c |-> item.d.str[x]]]
        [] item.t = "T_QUANTIFIER" ->
             IF item.d.min = 0 /\ item.d.max = 0 THEN <<>> ELSE inner \o Suffix(item.d)
        [] item.t = "T_ALTERNATION" -> inner \o <<Mark("bar")>>
        [] item.t = "T_GROUP" -> <<Mark("open")>> \o inner \o <<Mark("close")>>
        [] item.t = "T_GROUP_START" -> <<Mark("open")>>

(* The walk along the items, which stops where they do: at a T_TRUE.       *)
NodePrint(items) ==
  IF items = <<>> THEN <<>> ELSE NodePrintOne(Head(items)) \o NodePrint(Tail(items))

-----------------------------------------------------------------------------
(* PatternBuilder's steps as a function of the items so far, which is what *)
(* CompileRefines has shown the compiler to do with each fragment.  A '('  *)
(* in the print has no flags.                                              *)
Compile(fragments) ==
  Builder!Compile(
    [x \in DOMAIN fragments |->
       IF fragments[x].k = "open" THEN [k |-> "open", look |-> FALSE, inv |-> FALSE]
       ELSE fragments[x]])

(* What the print does not tell: that a group looks ahead, and that a '?'  *)
(* is lazy.                                                                *)
RECURSIVE Told(_)
Told(items) ==
  \A x \in DOMAIN items :
    /\ items[x].t \in {"T_GROUP", "T_GROUP_START"} => ~items[x].d.look
    /\ items[x].t = "T_QUANTIFIER" /\ items[x].d.max = 1 => ~items[x].d.lazy
    /\ Told(items[x].sub)

(* A pattern that is printed and compiled again gives the tree it was      *)
(* printed from: the print keeps the nesting of groups, alternatives and   *)
(* repetitions, whichever surgery has made them.                           *)
PrintedRebuilds ==
  pc = "idle" =>
    \A items \in {Items(re.next[patterns[i]]) : i \in DOMAIN patterns} :
      Told(items) => Compile(NodePrint(items)) = items
=============================================================================
