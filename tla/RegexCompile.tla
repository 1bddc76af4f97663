---------------------------- MODULE RegexCompile ----------------------------
(***************************************************************************)
(* The pattern compiler of src/src/regexx.c: regexx_create, add_macro,     *)
(* add_pattern (with _parse_next_node and the helpers it calls) and free.  *)
(*                                                                         *)
(* The compiler reads a pattern left to right and grows a doubly linked    *)
(* chain of heap nodes between re->head and re->tail; groups, alternations *)
(* and quantifiers cut a piece out of that chain and hang it below a node  *)
(* as its child.  The model keeps the heap, every pointer write and every  *)
(* failure path.  The characters of one fragment (an escape, a bracketed   *)
(* class, a macro reference, ...) are abstracted to one record.            *)
(***************************************************************************)
EXTENDS Integers, Sequences, FiniteSets

CONSTANTS
  Char,            (* Characters a string node can hold.                   *)
  MacroName,       (* Names of lex-style macros.                           *)
  SIZE_MAX,        (* Stands for the largest size_t.                       *)
  Fragments,       (* Fragments the caller's patterns are made of.         *)
  MacroDefs,       (* The macros the caller may define.                    *)
  StringMax,       (* sizeof(node->string.chars), 56 in the source.        *)
  MaxNodes,        (* Bound: nodes the heap has room for.                  *)
  MaxFragments,    (* Bound: fragments in one pattern.                     *)
  MaxPatterns,     (* Bound: patterns added to one object.                 *)
  MaxMacros,       (* Bound: macros added to one object.                   *)
  ReuseAfterError  (* Does the caller go on with an object after an error? *)

NULL == 0
Node == 1 .. MaxNodes

AtomType == {"T_ANCHOR_BEGIN", "T_ANCHOR_END", "T_DOT_ALL", "T_CHARCLASS"}
Composite == {"T_QUANTIFIER", "T_ALTERNATION", "T_GROUP"}
NodeType == AtomType \cup Composite \cup
  {"T_UNKNOWN", "T_ROOT", "T_GROUP_START", "T_STRING", "T_TRUE"}

(***************************************************************************)
(* What one call of _parse_next_node reads.  A "brace" is "{2,3" without   *)
(* its closing brace, which the code leaves in the input; "bad" is any     *)
(* fragment on which the switch fails after its node was added, t being    *)
(* the type the node has by then.                                          *)
(***************************************************************************)
AllFragments ==
  [k: {"char"}, c: Char] \cup
  [k: {"atom"}, t: AtomType] \cup
  [k: {"open"}, look: BOOLEAN, inv: BOOLEAN] \cup
  [k: {"close", "bar", "question"}] \cup
  [k: {"quant", "brace"}, min: Nat, max: Nat] \cup
  [k: {"macro"}, name: MacroName] \cup
  [k: {"bad"}, t: {"T_UNKNOWN", "T_CHARCLASS", "T_GROUP_START"}]

RBrace == [k |-> "char", c |-> "}"]

(* Every brace of a macro's value is closed, as _is_quantifier requires.   *)
BracesClosed(body) ==
  \A i \in DOMAIN body :
    body[i].k = "brace" => i + 1 \in DOMAIN body /\ body[i + 1] = RBrace

ASSUME CharAssumption     == {"{", "}", "|", ")"} \subseteq Char
ASSUME FragmentAssumption == Fragments \subseteq AllFragments
ASSUME MacroAssumption    ==
  /\ MacroDefs \subseteq [name: MacroName, value: Seq(AllFragments)]
  /\ \A m \in MacroDefs : BracesClosed(m.value)
ASSUME BoundAssumption    ==
  /\ SIZE_MAX \in Nat \ {0}
  /\ StringMax \in Nat \ {0}
  /\ MaxNodes \in Nat \ {0}
  /\ MaxFragments \in Nat /\ MaxPatterns \in Nat /\ MaxMacros \in Nat
  /\ ReuseAfterError \in BOOLEAN

VARIABLES
  re,       (* The node heap with re->head and re->tail.                   *)
  patterns, (* Heads of the accepted patterns, re->patterns.               *)
  macros,   (* re->macros, in the order they were added.                   *)
  frames,   (* The nested _parse_next_node calls that read macro values.   *)
  input,    (* Fragments of the current pattern read so far.               *)
  pc,       (* Where the object is in the call it executes.                *)
  scan,     (* The local `start` of the two loops that hunt backwards.     *)
  todo      (* Pending calls of _node_free.                                *)

vars == <<re, patterns, macros, frames, input, pc, scan, todo>>

-----------------------------------------------------------------------------
(***************************************************************************)
(* The heap.  Node ids are handed out in order and never reused, so an id  *)
(* in `freed` that is reached again is a use after free.                   *)
(***************************************************************************)
Zeroed == [str |-> <<>>, min |-> 0, max |-> 0, lazy |-> FALSE,
           look |-> FALSE, inv |-> FALSE]

Live(h) == (1 .. h.size) \ h.freed

(* What regexx_create allocates: one T_ROOT.                               *)
NewHeap ==
  [ size  |-> 1,
    freed |-> {},
    head  |-> 1,
    tail  |-> 1,
    type  |-> [n \in Node |-> IF n = 1 THEN "T_ROOT" ELSE "T_UNKNOWN"],
    next  |-> [n \in Node |-> NULL],
    prev  |-> [n \in Node |-> NULL],
    child |-> [n \in Node |-> NULL],
    data  |-> [n \in Node |-> Zeroed] ]

(* A new T_ROOT that becomes head and tail, leaving the old chain to its   *)
(* pattern.                                                                *)
AddRootKeepsTail(h) ==   (* mutant: the tail stays in the accepted pattern  *)
  LET n == h.size + 1
  IN  [h EXCEPT !.size = n, !.type[n] = "T_ROOT", !.head = n]
AddRoot(h) ==
  LET n == h.size + 1
  IN  [h EXCEPT !.size = n, !.type[n] = "T_ROOT", !.head = n, !.tail = n]

AddNode(h) ==
  LET n == h.size + 1
  IN  [h EXCEPT !.size = n, !.prev[n] = h.tail, !.next[h.tail] = n, !.tail = n]

(* The fragment's type and data, written over the zeroes of a new node.    *)
Label(h, n, t, d) == [h EXCEPT !.type[n] = t, !.data[n] = d]

Terminate(h, n) ==
  LET t == h.size + 1
  IN  [h EXCEPT !.size = t, !.type[t] = "T_TRUE", !.prev[t] = n, !.next[n] = t]

RemoveSelfForward(h, n) ==   (* mutant: tail moves to the wrong side        *)
  [h EXCEPT !.tail = h.next[n], !.next[h.prev[n]] = NULL, !.freed = @ \cup {n}]
RemoveSelfFreeOnly(h, n) ==  (* mutant: freed but not unlinked              *)
  [h EXCEPT !.freed = @ \cup {n}]
RemoveSelf(h, n) ==
  [h EXCEPT !.tail = h.prev[n], !.next[h.prev[n]] = NULL, !.freed = @ \cup {n}]

(* The node is the chain's last one; it is merged into a string before it  *)
(* while that has room.                                                    *)
CanAppend(h, p) ==
  p # NULL /\ h.type[p] = "T_STRING" /\ Len(h.data[p].str) < StringMax

AddChar(h, n, c) ==
  LET p == h.prev[n]
  IN  IF CanAppend(h, p)
        THEN RemoveSelf([h EXCEPT !.data[p].str = Append(@, c)], n)
        ELSE [h EXCEPT !.type[n] = "T_STRING", !.child[n] = NULL,
                       !.data[n] = [Zeroed EXCEPT !.str = <<c>>]]

SetQuantifier(h, n, min, max) ==
  Label(h, n, "T_QUANTIFIER", [Zeroed EXCEPT !.min = min, !.max = max])

SetLazy(h, n) == [h EXCEPT !.data[n].lazy = TRUE]

(* "There must be a previous node that this one refers to"                 *)
HasOperand(h, n) == h.prev[n] # h.head /\ h.prev[n] # NULL

(* The previous node leaves the chain and becomes the node's child.        *)
AdoptKeepsLink(h, n) ==   (* mutant: the operand still points at its old place *)
  LET c == h.prev[n]
      g == h.prev[c]
  IN  Terminate([h EXCEPT !.child[n] = c, !.prev[n] = g, !.next[g] = n], c)
Adopt(h, n) ==
  LET c == h.prev[n]
      g == h.prev[c]
  IN  Terminate([h EXCEPT !.child[n] = c, !.prev[n] = g, !.next[g] = n,
                          !.prev[c] = NULL], c)

(* '|': everything from s to the chain's end moves below a new node.       *)
SplitForgetsLeft(h, s) ==   (* mutant: the left side is hung nowhere         *)
  LET p   == h.prev[s]
      cut == [h EXCEPT !.type[h.tail] = "T_TRUE", !.prev[s] = NULL,
                       !.next[p] = NULL, !.tail = p]
  IN  [AddNode(cut) EXCEPT !.type[cut.size + 1] = "T_ALTERNATION"]
Split(h, s) ==
  LET p   == h.prev[s]
      cut == [h EXCEPT !.type[h.tail] = "T_TRUE", !.prev[s] = NULL,
                       !.next[p] = NULL, !.tail = p]
      alt == cut.size + 1
  IN  [AddNode(cut) EXCEPT !.type[alt] = "T_ALTERNATION", !.child[alt] = s]

(* ')': everything after s moves below s, which becomes the group.         *)
CloseGroupUnterminated(h, s) ==   (* mutant: the ')' stays in the group     *)
  LET first == h.next[s]
  IN  [h EXCEPT !.type[s] = "T_GROUP", !.child[s] = first, !.next[s] = NULL,
                !.prev[first] = NULL, !.tail = s]
CloseGroup(h, s) ==
  LET first == h.next[s]
  IN  [h EXCEPT !.type[s] = "T_GROUP", !.child[s] = first, !.next[s] = NULL,
                !.prev[first] = NULL, !.tail = s, !.type[h.tail] = "T_TRUE"]

-----------------------------------------------------------------------------
Init ==
  /\ re = NewHeap
  /\ patterns = <<>>
  /\ macros = <<>>
  /\ frames = <<>>
  /\ input = <<>>
  /\ pc = "idle"
  /\ scan = NULL
  /\ todo = <<>>

(***************************************************************************)
(* Reading.  Fragments come from the innermost macro value being expanded, *)
(* or from the caller's pattern, which is chosen as it is read.            *)
(***************************************************************************)
InMacro == frames # <<>>
Top == frames[Len(frames)]
LastIsBrace == input # <<>> /\ input[Len(input)].k = "brace"

Readable(f) ==
  /\ pc = "parse"
  /\ re.size + 2 <= MaxNodes
  /\ IF InMacro
       THEN Top.off <= Len(Top.body) /\ f = Top.body[Top.off]
       ELSE /\ Len(input) < MaxFragments \/ LastIsBrace
            /\ IF LastIsBrace THEN f = RBrace ELSE f \in Fragments

AdvancedNot == frames   (* mutant: the offset is not passed back            *)
Advanced ==
  IF InMacro THEN [frames EXCEPT ![Len(frames)].off = @ + 1] ELSE frames

Read(f) ==
  /\ Readable(f)
  /\ input' = IF InMacro THEN input ELSE Append(input, f)
  /\ UNCHANGED <<patterns, macros, todo>>

(* The fragment was parsed: go on with the next one.                       *)
Continue == pc' = "parse" /\ frames' = Advanced /\ UNCHANGED scan

(* `goto fail` in every pending call: the pattern is given up, its nodes   *)
(* stay on the chain.                                                      *)
Fail == pc' = "error" /\ frames' = <<>> /\ UNCHANGED scan

-----------------------------------------------------------------------------
(* The caller may call again after an error, or give the object up.        *)
Callable == pc = "idle" \/ (pc = "error" /\ ReuseAfterError)

(* A name that regexx_add_macro refuses (regexx.c:248-255) changes nothing; *)
(* the names of MacroDefs are such that it accepts them.                   *)
AddMacro(m) ==
  /\ Callable
  /\ Len(macros) < MaxMacros
  /\ macros' = Append(macros, m)
  /\ UNCHANGED <<re, patterns, frames, input, pc, scan, todo>>

BeginPattern ==
  /\ Callable
  /\ Len(patterns) < MaxPatterns
  /\ pc' = "parse"
  /\ input' = <<>>
  /\ UNCHANGED <<re, patterns, macros, frames, scan, todo>>

ParseAtom(f) ==
  /\ f.k = "atom"
  /\ Read(f)
  /\ re' = Label(AddNode(re), re.size + 1, f.t, Zeroed)
  /\ Continue

ParseChar(f) ==
  /\ f.k = "char"
  /\ Read(f)
  /\ re' = AddChar(AddNode(re), re.size + 1, f.c)
  /\ Continue

ParseOpen(f) ==
  /\ f.k = "open"
  /\ Read(f)
  /\ re' = Label(AddNode(re), re.size + 1, "T_GROUP_START",
                 [Zeroed EXCEPT !.look = f.look, !.inv = f.inv])
  /\ Continue

(* '*' and '+'.  A quantifier without operand fails, its node stays.       *)
ParseQuantifier(f) ==
  /\ f.k = "quant"
  /\ Read(f)
  /\ LET n == re.size + 1
         h == SetQuantifier(AddNode(re), n, f.min, f.max)
     IN  \/ HasOperand(h, n) /\ re' = Adopt(h, n) /\ Continue
         \/ ~HasOperand(h, n) /\ re' = h /\ Fail

(* '?' after a quantifier makes that one lazy, else it means {0,1}.        *)
ParseQuestion(f) ==
  /\ f.k = "question"
  /\ Read(f)
  /\ LET n == re.size + 1
         a == AddNode(re)
         h == SetQuantifier(a, n, 0, 1)
         p == a.prev[n]
     IN  \/ /\ a.type[p] = "T_QUANTIFIER"
            /\ re' = RemoveSelf(SetLazy(a, p), n)
            /\ Continue
         \/ /\ a.type[p] # "T_QUANTIFIER"
            /\ HasOperand(h, n)
            /\ re' = Adopt(h, n)
            /\ Continue
         \/ /\ a.type[p] # "T_QUANTIFIER"
            /\ ~HasOperand(h, n)
            /\ re' = h
            /\ Fail

(* "{2,3": the case has no break, so control falls into the one of '|'     *)
(* with the quantifier as its node.                                        *)
ParseBrace(f) ==
  /\ f.k = "brace"
  /\ Read(f)
  /\ LET n == re.size + 1
         h == SetQuantifier(AddNode(re), n, f.min, f.max)
     IN  \/ /\ HasOperand(h, n)
            /\ re' = Adopt(h, n)
            /\ pc' = "bar"
            /\ scan' = n
            /\ frames' = Advanced
         \/ ~HasOperand(h, n) /\ re' = h /\ Fail

ParseBar(f) ==
  /\ f.k = "bar"
  /\ Read(f)
  /\ re' = AddNode(re)
  /\ pc' = "bar"
  /\ scan' = re.size + 1
  /\ frames' = Advanced

ParseClose(f) ==
  /\ f.k = "close"
  /\ Read(f)
  /\ re' = AddNode(re)
  /\ pc' = "close"
  /\ scan' = re.tail
  /\ frames' = Advanced

(* The node of '{' is removed before the macro is looked up.               *)
Defined(name) == \E i \in DOMAIN macros : macros[i].name = name
Lookup(name, i) ==
  macros[i].name = name /\ \A j \in 1 .. i - 1 : macros[j].name # name

ParseMacro(f) ==
  /\ f.k = "macro"
  /\ Read(f)
  /\ re' = RemoveSelf(AddNode(re), re.size + 1)
  /\ \/ \E i \in DOMAIN macros :
           /\ Lookup(f.name, i)
           /\ frames' = Append(Advanced, [body |-> macros[i].value, off |-> 1])
           /\ UNCHANGED <<pc, scan>>
     \/ ~Defined(f.name) /\ Fail

ParseBad(f) ==
  /\ f.k = "bad"
  /\ Read(f)
  /\ re' = Label(AddNode(re), re.size + 1, f.t, Zeroed)
  /\ Fail

-----------------------------------------------------------------------------
(***************************************************************************)
(* The loop of '|': `start` goes back to the chain's first node after a    *)
(* root or an open group.  The code reports a programming error where      *)
(* start->prev is NULL; NoProgrammingError below says that never happens,  *)
(* so the failure is no action of its own.                                 *)
(***************************************************************************)
AtGroupStart ==   (* mutant: a root does not stop the hunt                   *)
  re.type[re.prev[scan]] = "T_GROUP_START"
AtRoot ==   (* mutant: '|' reaches out of the group it is in                  *)
  re.type[re.prev[scan]] = "T_ROOT"
AtChainStart == re.type[re.prev[scan]] \in {"T_ROOT", "T_GROUP_START"}

(* The character a '|' case that has nothing to its left adds as text.     *)
BarChar == IF re.type[re.tail] = "T_QUANTIFIER" THEN "{" ELSE "|"

BarBack ==
  /\ pc = "bar"
  /\ ~AtChainStart
  /\ scan' = re.prev[scan]
  /\ UNCHANGED <<re, patterns, macros, frames, input, pc, todo>>

BarLiteral ==
  /\ pc = "bar"
  /\ AtChainStart
  /\ scan = re.tail
  /\ re' = AddChar(re, re.tail, BarChar)
  /\ pc' = "parse"
  /\ UNCHANGED <<patterns, macros, frames, input, scan, todo>>

BarSplit ==
  /\ pc = "bar"
  /\ AtChainStart
  /\ scan # re.tail
  /\ re.size < MaxNodes
  /\ re' = Split(re, scan)
  /\ pc' = "parse"
  /\ UNCHANGED <<patterns, macros, frames, input, scan, todo>>

(***************************************************************************)
(* The loop of ')': `start` goes back to the innermost open group.         *)
(***************************************************************************)
CloseBack ==
  /\ pc = "close"
  /\ scan # NULL
  /\ re.type[scan] # "T_GROUP_START"
  /\ scan' = re.prev[scan]
  /\ UNCHANGED <<re, patterns, macros, frames, input, pc, todo>>

CloseLiteral ==
  /\ pc = "close"
  /\ scan = NULL
  /\ re' = AddChar(re, re.tail, ")")
  /\ pc' = "parse"
  /\ UNCHANGED <<patterns, macros, frames, input, scan, todo>>

CloseMatch ==
  /\ pc = "close"
  /\ scan # NULL
  /\ re.type[scan] = "T_GROUP_START"
  /\ re' = CloseGroup(re, scan)
  /\ pc' = "parse"
  /\ UNCHANGED <<patterns, macros, frames, input, scan, todo>>

-----------------------------------------------------------------------------
EndMacro ==
  /\ pc = "parse"
  /\ InMacro
  /\ Top.off > Len(Top.body)
  /\ frames' = SubSeq(frames, 1, Len(frames) - 1)
  /\ UNCHANGED <<re, patterns, macros, input, pc, scan, todo>>

EndPattern ==
  /\ pc = "parse"
  /\ ~InMacro
  /\ ~LastIsBrace
  /\ re.size + 2 <= MaxNodes
  /\ patterns' = Append(patterns, re.head)
  /\ re' = AddRoot(Terminate(re, re.tail))
  /\ pc' = "idle"
  /\ UNCHANGED <<macros, frames, input, scan, todo>>

(* regexx_free: _node_free on re->head, then the object itself.            *)
BeginFree ==
  /\ pc \in {"idle", "error"}
  /\ todo' = <<re.head>>
  /\ pc' = "freeing"
  /\ UNCHANGED <<re, patterns, macros, frames, input, scan>>

Below(n) ==
  IF re.type[n] \in Composite THEN <<re.child[n], re.next[n]>> ELSE <<re.next[n]>>

FreeNode ==
  /\ pc = "freeing"
  /\ todo # <<>>
  /\ LET n == Head(todo)
     IN  \/ n = NULL /\ todo' = Tail(todo) /\ UNCHANGED re
         \/ /\ n # NULL
            /\ todo' = Below(n) \o Tail(todo)
            /\ re' = [re EXCEPT !.freed = @ \cup {n}]
  /\ UNCHANGED <<patterns, macros, frames, input, pc, scan>>

EndFree ==
  /\ pc = "freeing"
  /\ todo = <<>>
  /\ pc' = "freed"
  /\ UNCHANGED <<re, patterns, macros, frames, input, scan, todo>>

-----------------------------------------------------------------------------
Parse(f) ==
  \/ ParseAtom(f)
  \/ ParseChar(f)
  \/ ParseOpen(f)
  \/ ParseQuantifier(f)
  \/ ParseQuestion(f)
  \/ ParseBrace(f)
  \/ ParseBar(f)
  \/ ParseClose(f)
  \/ ParseMacro(f)
  \/ ParseBad(f)

Hunt ==
  \/ BarBack
  \/ BarLiteral
  \/ BarSplit
  \/ CloseBack
  \/ CloseLiteral
  \/ CloseMatch

MacroFragments == UNION {{m.value[i] : i \in DOMAIN m.value} : m \in MacroDefs}

Next ==
  \/ \E m \in MacroDefs : AddMacro(m)
  \/ BeginPattern
  \/ \E f \in Fragments \cup {RBrace} \cup MacroFragments : Parse(f)
  \/ Hunt
  \/ EndMacro
  \/ EndPattern
  \/ BeginFree
  \/ FreeNode
  \/ EndFree

Spec == Init /\ [][Next]_vars

(* What a call does on its own; the caller decides about the other actions. *)
Work ==
  \/ \E f \in Fragments \cup {RBrace} \cup MacroFragments : Parse(f)
  \/ Hunt
  \/ EndMacro
  \/ EndPattern
  \/ FreeNode
  \/ EndFree

FairSpec == Spec /\ WF_vars(Work)

-----------------------------------------------------------------------------
DataType == [str: Seq(Char), min: Nat, max: Nat, lazy: BOOLEAN,
             look: BOOLEAN, inv: BOOLEAN]

HeapType ==
  [ size  : 1 .. MaxNodes,
    freed : SUBSET Node,
    head  : Node,
    tail  : Node,
    type  : [Node -> NodeType],
    next  : [Node -> Node \cup {NULL}],
    prev  : [Node -> Node \cup {NULL}],
    child : [Node -> Node \cup {NULL}],
    data  : [Node -> DataType] ]

ControlType ==
  /\ patterns \in Seq(Node)
  /\ macros \in Seq(MacroDefs)
  /\ frames \in Seq([body: Seq(AllFragments), off: Nat \ {0}])
  /\ input \in Seq(AllFragments)
  /\ pc \in {"idle", "parse", "bar", "close", "error", "freeing", "freed"}
  /\ scan \in Node \cup {NULL}
  /\ todo \in Seq(Node \cup {NULL})

(* Every variable has its type; the heap's pointers stay in the heap.      *)
TypeOK == re \in HeapType /\ ControlType

(* Two neighbours of a chain point at each other, the older one first, so  *)
(* that neither direction of a walk can go round in a circle.              *)
LinksAgree(h) ==
  \A n \in Live(h) :
    /\ h.next[n] # NULL => /\ h.next[n] \in Live(h)
                           /\ h.next[n] > n
                           /\ h.prev[h.next[n]] = n
    /\ h.prev[n] # NULL => h.prev[n] \in Live(h) /\ h.next[h.prev[n]] = n

Owns(h, n, c) == h.type[n] \in Composite /\ h.child[n] = c

(* The child of a node starts a chain of its own and hangs nowhere else.   *)
NeverShared(h) ==
  \A n \in Live(h), c \in Node : Owns(h, n, c) =>
    /\ c \in Live(h)
    /\ h.prev[c] = NULL
    /\ h.type[c] # "T_ROOT"
    /\ \A m \in Live(h) : Owns(h, m, c) => m = n

(* A chain that is no longer being extended ends in T_TRUE, so that a walk *)
(* down from a pattern never runs off its end.                             *)
ChainsTerminated(h) ==
  \A n \in Live(h) : h.next[n] = NULL /\ n # h.tail => h.type[n] = "T_TRUE"

EndsValid(h) ==
  /\ h.head \in Live(h) /\ h.type[h.head] = "T_ROOT" /\ h.prev[h.head] = NULL
  /\ h.tail \in Live(h) /\ h.next[h.tail] = NULL

(* The heap is a forest of doubly linked chains whenever a fragment was    *)
(* parsed, whichever surgery _parse_next_node just did on it.              *)
ChainsWellFormed ==
  pc \notin {"freeing", "freed"} =>
    EndsValid(re) /\ LinksAgree(re) /\ NeverShared(re) /\ ChainsTerminated(re)

(* What the helpers dereference is there: '|' never reports its            *)
(* "programming error", ')' finds content behind its group, and a          *)
(* quantifier finds a node before its operand.                             *)
NoNullDereference ==
  /\ pc = "bar" => re.prev[scan] # NULL
  /\ pc = "close" /\ scan # NULL /\ re.type[scan] = "T_GROUP_START" =>
       re.next[scan] # NULL
  /\ pc = "parse" /\ re.tail # re.head => re.prev[re.tail] # NULL

(* A loop that walks pointers, or _node_free, never reaches freed memory;  *)
(* in particular no node is freed twice.                                   *)
NoUseAfterFree ==
  /\ pc \in {"bar", "close"} => scan \in Live(re) \cup {NULL}
  /\ pc = "freeing" =>
       \A i \in DOMAIN todo : todo[i] # NULL =>
         /\ todo[i] \in Live(re)
         /\ \A j \in DOMAIN todo : todo[j] = todo[i] => i = j

(* regexx_free releases the whole chain under construction, also one that  *)
(* a failure has left with open groups and half a fragment: what stays are *)
(* the accepted patterns, and the operands that "{2,3}" has cut off.       *)
FreesUnfinished ==
  pc = "freed" /\ (\A f \in Fragments \cup MacroFragments : f.k # "brace") =>
    \A n \in Live(re) : n < re.head

(* Parsing a pattern, failing at it, or freeing the object writes no node  *)
(* of a pattern that was accepted before.                                  *)
SameNode(n) ==
  /\ re'.type[n] = re.type[n] /\ re'.data[n] = re.data[n]
  /\ re'.next[n] = re.next[n] /\ re'.prev[n] = re.prev[n]
  /\ re'.child[n] = re.child[n]
  /\ n \in re'.freed <=> n \in re.freed

FrozenStep ==
  /\ \A n \in 1 .. re.head - 1 : SameNode(n)
  /\ \A i \in DOMAIN patterns : i \in DOMAIN patterns' /\ patterns'[i] = patterns[i]

AcceptedFrozen == [][FrozenStep]_vars

(* regexx_add_pattern returns, with success or an error, and regexx_free   *)
(* comes to an end, whatever mix of fragments and macros it reads.         *)
Returns ==
  /\ pc \in {"parse", "bar", "close"} ~> pc \in {"idle", "error"}
  /\ pc = "freeing" ~> pc = "freed"

-----------------------------------------------------------------------------
(* regexx.c:43 describes {2,3} as the "number of times repeated": what     *)
(* stands before it gets a quantifier.                                     *)
BraceQuantifies ==
  pc = "parse" /\ ~InMacro /\ LastIsBrace => re.type[re.tail] = "T_QUANTIFIER"
=============================================================================
