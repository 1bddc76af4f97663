------------------------------ MODULE RegexEval ------------------------------
(***************************************************************************)
(* _node_eval of src/src/regexx.c, as a function of a heap of nodes, a     *)
(* text, a node and an offset.  A heap has the fields size, type, data,    *)
(* next and child of RegexCompile's: RegexMatch takes the one that the     *)
(* compiler has built, CTokens lays one out for each entry of the C        *)
(* lexer's table.                                                          *)
(*                                                                         *)
(* Calls of _node_eval nest.  Each of the recursive functions below gives  *)
(* the outcomes of the calls in which at most k more are nested; in a heap *)
(* without circles no more nest than it has nodes.                         *)
(***************************************************************************)
EXTENDS Integers, Sequences

CONSTANT SIZE_MAX   (* The largest size_t: as a maximum, none.             *)

(* What _node_eval does other than return an end offset.                   *)
NoMatch == -1
Hang    == -2    (* a quantifier goes round and round on the spot          *)
Abort   == -3    (* an unknown type: abort(), or a chain without a T_TRUE  *)
Returned(r) == r >= NoMatch
Matched(r)  == r >= 0

Pointer(h) == 0 .. Len(h.type)   (* 0 is NULL *)
Offsets(text) == 0 .. Len(text)

Single == {"T_STRING", "T_DOT_ALL", "T_CHARCLASS"}
Matches(h, n, text, o) ==
  CASE h.type[n] = "T_STRING" ->
         LET s == h.data[n].str
         IN  /\ Len(s) <= Len(text) - o
             /\ SubSeq(text, o + 1, o + Len(s)) = s
    [] h.type[n] = "T_CHARCLASS" -> text[o + 1] \in h.data[n].set
    [] OTHER -> TRUE

Width(h, n) == IF h.type[n] = "T_STRING" THEN Len(h.data[n].str) ELSE 1

(* The first test: at the end of the text only these go on.                *)
PastEndStrict(h, n, text, o) ==   (* mutant: "a*" must not stop at the end *)
  o >= Len(text) /\ h.type[n] \notin {"T_TRUE", "T_ANCHOR_END"}
PastEnd(h, n, text, o) ==
  /\ o >= Len(text)
  /\ h.type[n] \notin {"T_TRUE", "T_ANCHOR_END"}
  /\ h.type[n] = "T_QUANTIFIER" => h.data[n].min # 0

(***************************************************************************)
(* One call for each kind of node, given what the nested ones do: inner[o] *)
(* for its child and rest[o] for the node behind it, called at o.          *)
(***************************************************************************)
(* The left side, the right side, or the longer of both.                   *)
EvalAlternation(inner, rest, o) ==
  LET left  == inner[o]
      right == rest[o]
  IN  IF ~Returned(left) THEN left
      ELSE IF ~Returned(right) \/ right >= left THEN right
      ELSE left

EvalGroupRestores(d, inner, rest, o) ==   (* mutant: every group is a lookahead *)
  LET e == inner[o]
  IN  IF ~Returned(e) THEN e ELSE IF Matched(e) = d.inv THEN NoMatch ELSE rest[o]
EvalGroupConsumes(d, inner, rest, o) ==   (* mutant: so does a lookahead    *)
  LET e == inner[o]
  IN  IF ~Returned(e) THEN e
      ELSE IF Matched(e) = d.inv THEN NoMatch
      ELSE rest[IF Matched(e) THEN e ELSE o]
EvalGroup(d, inner, rest, o) ==
  LET e == inner[o]
  IN  IF ~Returned(e) THEN e
      ELSE IF Matched(e) = d.inv THEN NoMatch
      ELSE rest[IF d.look \/ ~Matched(e) THEN o ELSE e]

(* The child `count` times in a row.                                       *)
AtLeast(inner, o, count) ==
  LET after[c \in 0 .. count] ==
        IF c = 0 THEN o ELSE LET e == after[c - 1] IN IF Matched(e) THEN inner[e] ELSE e
  IN  after[count]

(* "Do up to the maximum number of steps": one turn of that loop.  Without *)
(* a maximum and without progress the next turn is this one again: count   *)
(* wraps, it never ends.                                                   *)
Turn(d, inner, rest, s) ==
  LET e == inner[s.offset]
      x == rest[e]
      stop(longest) == [offset |-> s.offset, longest |-> longest, on |-> FALSE]
  IN  IF ~s.on THEN s
      ELSE IF e = NoMatch THEN stop(s.longest)
      ELSE IF ~Returned(e) THEN stop(e)
      ELSE IF ~Returned(x) \/ (Matched(x) /\ d.lazy) THEN stop(x)
      ELSE IF e = s.offset /\ d.max = SIZE_MAX THEN stop(Hang)
      ELSE [offset |-> e, longest |-> IF Matched(x) THEN x ELSE s.longest, on |-> TRUE]

(* Where the loop has no maximum, it makes no more turns than the text has *)
(* characters.                                                             *)
Turns(d, text) ==
  IF d.max = SIZE_MAX THEN Len(text) + 1 ELSE IF d.max > d.min THEN d.max - d.min ELSE 0

(* `longest` starts at 0, and 0 at the end means that nothing matched.     *)
Further(d, inner, rest, text, from, first) ==
  LET start == [offset |-> from, longest |-> IF Matched(first) THEN first ELSE 0, on |-> TRUE]
      loop[c \in 0 .. Turns(d, text)] ==
        IF c = 0 THEN start ELSE Turn(d, inner, rest, loop[c - 1])
  IN  loop[Turns(d, text)].longest

EvalQuantifier(d, inner, rest, text, o) ==
  LET from    == AtLeast(inner, o, d.min)
      first   == rest[from]
      longest == Further(d, inner, rest, text, from, first)
  IN  IF ~Matched(from) THEN from
      ELSE IF ~Returned(first) \/ (Matched(first) /\ d.lazy) THEN first
      ELSE IF longest = 0 THEN NoMatch ELSE longest

(* One call.  calls[m][o] is what a call nested in it does.                *)
Call(h, text, calls, n, o) ==
  LET inner == calls[h.child[n]]
      rest  == calls[h.next[n]]
  IN  IF n = 0 THEN Abort
      ELSE IF PastEnd(h, n, text, o) THEN NoMatch
      ELSE IF h.type[n] \in Single
        THEN IF Matches(h, n, text, o) THEN rest[o + Width(h, n)] ELSE NoMatch
      ELSE CASE h.type[n] = "T_TRUE" -> o
             [] h.type[n] = "T_ROOT" -> rest[o]
             [] h.type[n] = "T_ANCHOR_BEGIN" -> IF o # 0 THEN NoMatch ELSE rest[o]
             [] h.type[n] = "T_ANCHOR_END" -> IF o # Len(text) THEN NoMatch ELSE rest[o]
             [] h.type[n] = "T_ALTERNATION" -> EvalAlternation(inner, rest, o)
             [] h.type[n] = "T_GROUP" -> EvalGroup(h.data[n], inner, rest, o)
             [] h.type[n] = "T_QUANTIFIER" -> EvalQuantifier(h.data[n], inner, rest, text, o)
             [] OTHER -> Abort

Calls(h, text) ==
  LET upTo[k \in 0 .. h.size] ==
        [n \in Pointer(h) |-> [o \in Offsets(text) |->
           IF k = 0 THEN Abort ELSE Call(h, text, upTo[k - 1], n, o)]]
  IN  upTo

Eval(h, text, n, o) == Calls(h, text)[h.size][n][o]

-----------------------------------------------------------------------------
(***************************************************************************)
(* The reference: every offset at which a match may end, as docs/REGEX.md  *)
(* reads the nodes.  inner[o] and rest[o] are now sets of offsets.         *)
(***************************************************************************)
Behind(ends, froms) == UNION {ends[o] : o \in froms}

(* Where `count` matches in a row may end.                                 *)
Steps(inner, o, count) ==
  LET after[c \in 0 .. count] == IF c = 0 THEN {o} ELSE Behind(inner, after[c - 1])
  IN  after[count]

(* Without a maximum, no more than one step for every character makes a    *)
(* difference.  A maximum below the minimum is none.                       *)
Counts(d, text) ==
  d.min .. IF d.max = SIZE_MAX THEN d.min + Len(text)
           ELSE IF d.max > d.min THEN d.max ELSE d.min

NodeEnds(h, text, ends, n, o) ==
  LET inner == ends[h.child[n]]
      rest  == ends[h.next[n]]
  IN  IF n = 0 THEN {}
      ELSE IF h.type[n] \in Single
        THEN IF o < Len(text) /\ Matches(h, n, text, o) THEN rest[o + Width(h, n)] ELSE {}
      ELSE CASE h.type[n] = "T_TRUE" -> {o}
             [] h.type[n] = "T_ROOT" -> rest[o]
             [] h.type[n] = "T_ANCHOR_BEGIN" -> IF o = 0 THEN rest[o] ELSE {}
             [] h.type[n] = "T_ANCHOR_END" -> IF o = Len(text) THEN rest[o] ELSE {}
             [] h.type[n] = "T_ALTERNATION" -> inner[o] \cup rest[o]
             [] h.type[n] = "T_GROUP" ->
                  IF (inner[o] # {}) = h.data[n].inv THEN {}
                  ELSE Behind(rest, IF h.data[n].look THEN {o} ELSE inner[o])
             [] h.type[n] = "T_QUANTIFIER" ->
                  Behind(rest, UNION {Steps(inner, o, c) : c \in Counts(h.data[n], text)})
             [] OTHER -> {}

EndsTable(h, text) ==
  LET upTo[k \in 0 .. h.size] ==
        [n \in Pointer(h) |-> [o \in Offsets(text) |->
           IF k = 0 THEN {} ELSE NodeEnds(h, text, upTo[k - 1], n, o)]]
  IN  upTo

Ends(h, text, n, o) == EndsTable(h, text)[h.size][n][o]

(* A node from which on the empty text is matched.                         *)
NodeNullable(h, nullable, n) ==
  LET inner == nullable[h.child[n]]
      rest  == nullable[h.next[n]]
  IN  n # 0 /\ CASE h.type[n] \in Single \cup {"T_GROUP_START"} -> FALSE
                 [] h.type[n] = "T_TRUE" -> TRUE
                 [] h.type[n] = "T_ALTERNATION" -> inner \/ rest
                 [] h.type[n] = "T_GROUP" -> (h.data[n].look \/ h.data[n].inv \/ inner) /\ rest
                 [] h.type[n] = "T_QUANTIFIER" -> (h.data[n].min = 0 \/ inner) /\ rest
                 [] OTHER -> rest

NullableTable(h) ==
  LET upTo[k \in 0 .. h.size] ==
        [n \in Pointer(h) |-> k # 0 /\ NodeNullable(h, upTo[k - 1], n)]
  IN  upTo

Nullable(h, n) == NullableTable(h)[h.size][n]

(* The nodes from n on, those below them included.                         *)
Branching == {"T_QUANTIFIER", "T_ALTERNATION", "T_GROUP"}
NodesTable(h) ==
  LET upTo[k \in 0 .. h.size] ==
        [n \in Pointer(h) |->
           IF k = 0 \/ n = 0 THEN {}
           ELSE {n} \cup upTo[k - 1][h.next[n]]
                \cup (IF h.type[n] \in Branching THEN upTo[k - 1][h.child[n]] ELSE {})]
  IN  upTo

Nodes(h, n) == NodesTable(h)[h.size][n]
=============================================================================
