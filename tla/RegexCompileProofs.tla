------------------------- MODULE RegexCompileProofs -------------------------
(***************************************************************************)
(* The inductive invariant of the pattern compiler and what follows from   *)
(* it, for every set of fragments and macros and every size of the heap.   *)
(* RegexHeapProofs holds one lemma for each piece of pointer surgery; this *)
(* module puts them together along the disjuncts of Next.                  *)
(***************************************************************************)
EXTENDS RegexHeapProofs

(* A heap that the next fragment can be added to.                          *)
Chained(h) == HeapInv(h) /\ \E S : OpenChain(h, S)

(* The heap's invariant for each value of pc: the hunts stay on the open   *)
(* chain and never touch its last, still unfinished node by mistake.       *)
HeapIInv ==
  /\ re \in HeapType
  /\ pc \in {"idle", "parse", "error"} => Chained(re)
  /\ pc = "bar" =>
       /\ HeapInv(re)
       /\ re.tail # re.head /\ scan # re.head
       /\ \E S : OpenChain(re, S) /\ scan \in S
  /\ pc = "close" =>
       /\ HeapInv(re)
       /\ re.tail # re.head /\ scan # re.tail /\ re.type[re.tail] = "T_UNKNOWN"
       /\ \E S : OpenChain(re, S) /\ (scan # 0 => scan \in S)
  /\ pc = "freeing" => FreeInv(re, todo)

IInv == ControlType /\ HeapIInv

-----------------------------------------------------------------------------
(* The fields a fragment of each kind has.                                 *)
LEMMA FragmentFields ==
  ASSUME NEW f \in AllFragments
  PROVE  /\ f.k = "char" => f.c \in Char
         /\ f.k = "atom" => f.t \in AtomType
         /\ f.k = "open" => f.look \in BOOLEAN /\ f.inv \in BOOLEAN
         /\ f.k \in {"quant", "brace"} => f.min \in Nat /\ f.max \in Nat
         /\ f.k = "bad" => f.t \in {"T_UNKNOWN", "T_CHARCLASS", "T_GROUP_START"}
BY DEF AllFragments

(* Every fragment that Next offers is one the compiler knows.              *)
LEMMA SourceFragments ==
  Fragments \cup {RBrace} \cup MacroFragments \subseteq AllFragments
<1>1. RBrace \in AllFragments
  BY CharAssumption DEF RBrace, AllFragments
<1>2. MacroFragments \subseteq AllFragments
  <2> SUFFICES ASSUME NEW m \in MacroDefs, NEW i \in DOMAIN m.value
               PROVE  m.value[i] \in AllFragments
    BY DEF MacroFragments
  <2>1. m.value \in Seq(AllFragments)
    BY MacroAssumption
  <2> QED
    BY <2>1, ElementOfSeq, LenProperties
<1> QED
  BY <1>1, <1>2, FragmentAssumption

(* The fields a new node is zeroed to are well typed.                      *)
LEMMA ZeroedType == Zeroed \in DataType
BY DEF Zeroed, DataType

(* Writing one field of a node keeps the heap well typed.                  *)
LEMMA SetData ==
  ASSUME NEW h \in HeapType, NEW n \in Node, NEW d \in DataType
  PROVE  /\ [h EXCEPT !.data[n] = d] \in HeapType
         /\ h.data[n] \in DataType
BY DEF HeapType

(* Writing the type of a node keeps the heap well typed.                   *)
LEMMA SetType ==
  ASSUME NEW h \in HeapType, NEW n \in Node, NEW ty \in NodeType
  PROVE  [h EXCEPT !.type[n] = ty] \in HeapType
BY DEF HeapType

(* Label writes the type and the data of one node, nothing else.           *)
LEMMA LabelFields ==
  ASSUME NEW h \in HeapType, NEW n \in Node, NEW ty \in NodeType, NEW d \in DataType
  PROVE  LET g == Label(h, n, ty, d)
         IN  /\ g \in HeapType
             /\ g.size = h.size /\ g.freed = h.freed /\ g.head = h.head /\ g.tail = h.tail
             /\ g.next = h.next /\ g.prev = h.prev /\ g.child = h.child
             /\ g.type = [h.type EXCEPT ![n] = ty]
             /\ g.data = [h.data EXCEPT ![n] = d]
<1> DEFINE g == Label(h, n, ty, d)
           j == [h EXCEPT !.type[n] = ty]
<1>1. /\ g.size = h.size /\ g.freed = h.freed /\ g.head = h.head /\ g.tail = h.tail
      /\ g.next = h.next /\ g.prev = h.prev /\ g.child = h.child
      /\ g.type = [h.type EXCEPT ![n] = ty]
      /\ g.data = [h.data EXCEPT ![n] = d]
  BY DEF HeapType, Label
<1>2. j \in HeapType
  BY SetType
<1>3. g = [j EXCEPT !.data[n] = d]
  BY DEF HeapType, Label
<1> HIDE DEF j
<1>4. g \in HeapType
  BY <1>2, <1>3, SetData
<1> QED
  BY <1>1, <1>4

(* The last node of the chain gets its type and data.                      *)
LEMMA LabelTailInv ==
  ASSUME NEW h, HeapInv(h), NEW S, OpenChain(h, S),
         NEW n, n = h.tail, n # h.head, h.child[n] = 0,
         NEW ty \in NodeType, ty # "T_ROOT", NEW d \in DataType,
         NEW g, g = Label(h, n, ty, d)
  PROVE  /\ HeapInv(g) /\ OpenChain(g, S) /\ SameBelow(h, g)
         /\ g.size = h.size /\ g.head = h.head /\ g.tail = h.tail
         /\ g.prev = h.prev /\ g.child = h.child /\ g.type[n] = ty
<1>1. h \in HeapType
  BY DEF HeapInv
<1>2. n \in Node /\ n \in Live(h) /\ n >= h.head
  BY <1>1, FieldTypes DEF OpenChain
<1>3. /\ g \in HeapType
      /\ g.size = h.size /\ g.freed = h.freed /\ g.head = h.head /\ g.tail = h.tail
      /\ g.next = h.next /\ g.prev = h.prev /\ g.child = h.child
      /\ g.type = [h.type EXCEPT ![n] = ty]
      /\ g.data = [h.data EXCEPT ![n] = d]
  BY <1>1, <1>2, LabelFields
<1>5. /\ g.type[n] = ty
      /\ \A m \in Node : m # n => g.type[m] = h.type[m] /\ g.child[m] = h.child[m]
                                  /\ g.data[m] = h.data[m]
  BY <1>1, <1>2, <1>3 DEF HeapType
<1>6. HeapInv(g) /\ OpenChain(g, S) /\ SameBelow(h, g)
  <2>1. /\ g \in HeapType
        /\ g.size = h.size /\ g.freed = h.freed /\ g.head = h.head /\ g.tail = h.tail
        /\ g.next = h.next /\ g.prev = h.prev
    BY <1>3
  <2>2. g.type[n] # "T_ROOT" /\ g.child[n] = 0
    BY <1>3, <1>5
  <2> QED
    BY <1>2, <1>5, <2>1, <2>2, RelabelInv
<1> QED
  BY <1>3, <1>5, <1>6

(* A fragment gets a node of its own, whose type and data then change.     *)
LEMMA NewNode ==
  ASSUME NEW h, Chained(h), h.size < MaxNodes
  PROVE  LET k == AddNode(h)
             n == h.size + 1
         IN  /\ k \in HeapType /\ Chained(k) /\ SameBelow(h, k)
             /\ k.tail = n /\ n # k.head /\ k.size = n /\ k.head = h.head
             /\ k.child[n] = 0 /\ k.prev[n] = h.tail /\ n \in Node
             /\ k.type[n] = "T_UNKNOWN"
             /\ k.prev = [h.prev EXCEPT ![n] = h.tail] /\ k.type = h.type
<1> DEFINE k == AddNode(h)
           n == h.size + 1
<1>1. PICK S : OpenChain(h, S)
  BY DEF Chained
<1>2. HeapInv(h) /\ h \in HeapType
  BY DEF Chained, HeapInv
<1>3. HeapInv(k) /\ OpenChain(k, S \cup {n}) /\ SameBelow(h, k)
  BY <1>1, <1>2, AddNodeInv
<1>4. /\ n \in Node /\ k \in HeapType
      /\ k.size = n /\ k.head = h.head /\ k.tail = n
      /\ k.child = h.child /\ k.type = h.type
      /\ k.prev = [h.prev EXCEPT ![n] = h.tail]
  BY <1>2, AddNodeFields
<1>5. k.child[n] = 0 /\ k.prev[n] = h.tail /\ k.type[n] = "T_UNKNOWN"
  <2>1. n > h.size /\ h.prev \in [Node -> Node \cup {0}]
    BY <1>2, FieldTypes
  <2> QED
    BY <2>1, <1>2, <1>4 DEF HeapInv, Fresh, NULL
<1>6. n # h.head
  <2>1. h.head \in Live(h)
    BY <1>2 DEF HeapInv, EndsValid
  <2>2. h.head <= h.size
    BY <2>1, <1>2, FieldTypes DEF Live
  <2> QED
    BY <2>2, <1>2, FieldTypes
<1> QED
  BY <1>3, <1>4, <1>5, <1>6 DEF Chained

(* A fragment's new node with its type and data keeps the heap.            *)
LEMMA NewNodeInv ==
  ASSUME NEW h, Chained(h), h.size < MaxNodes,
         NEW ty \in NodeType, ty # "T_ROOT", NEW d \in DataType
  PROVE  LET n == h.size + 1
             g == Label(AddNode(h), n, ty, d)
         IN  /\ Chained(g) /\ SameBelow(h, g)
             /\ g.tail = n /\ n # g.head /\ g.size = n /\ g.head = h.head
             /\ g.type[n] = ty /\ g.child[n] = 0 /\ g.prev[n] = h.tail
<1> DEFINE k == AddNode(h)
           n == h.size + 1
<1>1. /\ k \in HeapType /\ Chained(k) /\ SameBelow(h, k)
      /\ k.tail = n /\ n # k.head /\ k.size = n /\ k.head = h.head
      /\ k.child[n] = 0 /\ k.prev[n] = h.tail /\ n \in Node
  BY NewNode
<1> HIDE DEF k, n
<1> DEFINE g == Label(k, n, ty, d)
<1> HIDE DEF g
<1>2. HeapInv(k)
  BY <1>1 DEF Chained
<1>3. PICK S : OpenChain(k, S)
  BY <1>1 DEF Chained
<1>4. /\ HeapInv(g) /\ OpenChain(g, S) /\ SameBelow(k, g)
      /\ g.size = k.size /\ g.head = k.head /\ g.tail = k.tail
      /\ g.prev = k.prev /\ g.child = k.child /\ g.type[n] = ty
  BY <1>1, <1>2, <1>3, LabelTailInv DEF g
<1>5. SameBelow(h, g)
  BY <1>1, <1>4 DEF SameBelow
<1>6. /\ Chained(g) /\ SameBelow(h, g)
      /\ g.tail = n /\ n # g.head /\ g.size = n /\ g.head = h.head
      /\ g.type[n] = ty /\ g.child[n] = 0 /\ g.prev[n] = h.tail
  BY <1>1, <1>4, <1>5 DEF Chained
<1> QED
  BY <1>6 DEF g, k, n

(* _add_char, on the last node of the chain.                               *)
LEMMA AddCharInv ==
  ASSUME NEW h, HeapInv(h), NEW S, OpenChain(h, S), NEW n, n = h.tail, n # h.head,
         NEW c \in Char,
         h.type[n] = "T_UNKNOWN" \/ h.type[h.prev[n]] # "T_STRING",
         NEW g, g = AddChar(h, n, c)
  PROVE  Chained(g) /\ SameBelow(h, g)
<1> DEFINE p == h.prev[n]
<1>1. h \in HeapType
  BY DEF HeapInv
<1>2. /\ n \in S /\ p \in S /\ p \in Live(h) /\ n \in Live(h)
      /\ Live(h) \subseteq Node /\ p \in Node /\ n \in Node
      /\ p >= h.head /\ n >= h.head
  <2>1. n \in S /\ p \in S /\ S \subseteq Live(h) /\ p >= h.head /\ n >= h.head
    BY DEF OpenChain
  <2>2. Live(h) \subseteq Node
    BY <1>1, FieldTypes DEF Live
  <2> QED
    BY <2>1, <2>2
<1>3. CASE CanAppend(h, p)
  <2> DEFINE k == [h EXCEPT !.data[p].str = Append(@, c)]
  <2>1. /\ k.size = h.size /\ k.freed = h.freed /\ k.head = h.head /\ k.tail = h.tail
        /\ k.next = h.next /\ k.prev = h.prev /\ k.child = h.child /\ k.type = h.type
    BY <1>1 DEF HeapType
  <2>2. k.data = [h.data EXCEPT ![p].str = Append(@, c)]
    BY <1>1 DEF HeapType
  <2>3. k \in HeapType
    <3>1. [h.data[p] EXCEPT !.str = Append(@, c)] \in DataType
      <4>1. h.data[p] \in DataType
        BY <1>1, <1>2 DEF HeapType
      <4>2. Append(h.data[p].str, c) \in Seq(Char)
        BY <4>1 DEF DataType
      <4> QED
        BY <4>1, <4>2 DEF DataType
    <3>2. k = [h EXCEPT !.data[p] = [h.data[p] EXCEPT !.str = Append(@, c)]]
      BY <1>1, <1>2 DEF HeapType
    <3> QED
      BY <3>1, <3>2, <1>1, <1>2 DEF HeapType
  <2>4. g = RemoveSelf(k, n)
    BY <1>3 DEF AddChar
  <2>5. \A m \in Node : m # p => k.type[m] = h.type[m] /\ k.child[m] = h.child[m]
                                 /\ k.data[m] = h.data[m]
    BY <1>1, <1>2, <2>1, <2>2 DEF HeapType
  <2> HIDE DEF k
  <2>6. HeapInv(k) /\ OpenChain(k, S) /\ SameBelow(h, k)
    BY <1>2, <2>1, <2>3, <2>5, RelabelInv
  <2>7. \A m \in Node : ~Owns(k, n, m)
    BY <1>3, <2>1 DEF Owns, Composite, CanAppend
  <2>8. HeapInv(g) /\ OpenChain(g, S \ {n}) /\ SameBelow(k, g)
    BY <2>1, <2>4, <2>6, <2>7, RemoveSelfInv
  <2> QED
    BY <2>1, <2>6, <2>8 DEF SameBelow, Chained
<1>4. CASE ~CanAppend(h, p)
  <2> DEFINE d == [Zeroed EXCEPT !.str = <<c>>]
  <2>1. g = [h EXCEPT !.type[n] = "T_STRING", !.child[n] = NULL, !.data[n] = d]
    BY <1>4 DEF AddChar
  <2>2. d \in DataType
    <3>1. <<c>> \in Seq(Char)
      OBVIOUS
    <3> QED
      BY <3>1, ZeroedType DEF DataType
  <2> HIDE DEF d
  <2>3. /\ g.size = h.size /\ g.freed = h.freed /\ g.head = h.head /\ g.tail = h.tail
        /\ g.next = h.next /\ g.prev = h.prev
    BY <1>1, <2>1 DEF HeapType
  <2>4. /\ g.type = [h.type EXCEPT ![n] = "T_STRING"]
        /\ g.child = [h.child EXCEPT ![n] = NULL]
        /\ g.data = [h.data EXCEPT ![n] = d]
    BY <1>1, <2>1 DEF HeapType
  <2>5. g \in HeapType
    <3> DEFINE j == [h EXCEPT !.type[n] = "T_STRING"]
               i == [j EXCEPT !.child[n] = NULL]
    <3>1. j \in HeapType
      <4>1. "T_STRING" \in NodeType
        BY DEF NodeType
      <4> QED
        BY <4>1, <1>1, <1>2 DEF HeapType
    <3>2. g = [i EXCEPT !.data[n] = d]
      BY <1>1, <2>1 DEF HeapType
    <3> HIDE DEF j
    <3>3. i \in HeapType
      BY <3>1, <1>2 DEF HeapType
    <3> HIDE DEF i
    <3> QED
      BY <3>2, <3>3, <1>2, <2>2 DEF HeapType
  <2>6. /\ g.type[n] = "T_STRING"
        /\ \A m \in Node : m # n => g.type[m] = h.type[m] /\ g.child[m] = h.child[m]
                                    /\ g.data[m] = h.data[m]
    BY <1>1, <1>2, <2>4 DEF HeapType
  <2>7. "T_STRING" # "T_ROOT" /\ "T_STRING" \notin Composite
    BY DEF Composite
  <2>8. HeapInv(g) /\ OpenChain(g, S) /\ SameBelow(h, g)
    BY <1>2, <2>3, <2>5, <2>6, <2>7, RelabelInv
  <2> QED
    BY <2>8 DEF Chained
<1> QED
  BY <1>3, <1>4

-----------------------------------------------------------------------------
(* The heap between two fragments, from which any fragment can be read.    *)
LEMMA ReadyInv ==
  ASSUME Chained(re'), pc' \in {"idle", "parse", "error"}
  PROVE  HeapIInv'
BY DEF HeapIInv, Chained, HeapInv

(* A quantifier's new node, and the operand it takes where it has one,     *)
(* keep the heap.                                                          *)
LEMMA QuantifierInv ==
  ASSUME NEW h, Chained(h), h.size + 2 <= MaxNodes, NEW min \in Nat, NEW max \in Nat
  PROVE  LET n == h.size + 1
             g == SetQuantifier(AddNode(h), n, min, max)
         IN  /\ Chained(g) /\ SameBelow(h, g)
             /\ HasOperand(g, n) => /\ Chained(Adopt(g, n)) /\ SameBelow(h, Adopt(g, n))
                                    /\ Adopt(g, n).tail = n /\ n # Adopt(g, n).head
                                    /\ HeapInv(Adopt(g, n))
                                    /\ \E S : OpenChain(Adopt(g, n), S) /\ n \in S
<1> DEFINE n == h.size + 1
           d == [Zeroed EXCEPT !.min = min, !.max = max]
           g == SetQuantifier(AddNode(h), n, min, max)
<1>1. d \in DataType /\ "T_QUANTIFIER" \in NodeType /\ "T_QUANTIFIER" # "T_ROOT"
  <2>1. d \in DataType
    BY ZeroedType DEF DataType
  <2> QED
    BY <2>1 DEF NodeType, Composite
<1>2. g = Label(AddNode(h), n, "T_QUANTIFIER", d)
  BY DEF SetQuantifier
<1>3. h.size < MaxNodes /\ n < MaxNodes /\ h.size \in Nat
  BY BoundAssumption, FieldTypes DEF Chained, HeapInv
<1> HIDE DEF d
<1>4. /\ Chained(g) /\ SameBelow(h, g)
      /\ g.tail = n /\ n # g.head /\ g.size = n /\ g.head = h.head
      /\ g.type[n] = "T_QUANTIFIER" /\ g.child[n] = 0 /\ g.prev[n] = h.tail
  BY <1>1, <1>2, <1>3, NewNodeInv
<1> HIDE DEF g
<1>5. ASSUME HasOperand(g, n)
      PROVE  /\ Chained(Adopt(g, n)) /\ SameBelow(h, Adopt(g, n))
             /\ Adopt(g, n).tail = n /\ n # Adopt(g, n).head
             /\ HeapInv(Adopt(g, n))
             /\ \E S : OpenChain(Adopt(g, n), S) /\ n \in S
  <2>1. PICK S : OpenChain(g, S)
    BY <1>4 DEF Chained
  <2>2. HeapInv(g) /\ g \in HeapType
    BY <1>4 DEF Chained, HeapInv
  <2>3. g.prev[n] # g.head
    BY <1>5 DEF HasOperand
  <2> DEFINE a == Adopt(g, n)
  <2>4. HeapInv(a) /\ OpenChain(a, S \ {g.prev[n]}) /\ SameBelow(g, a)
    BY <1>3, <1>4, <2>1, <2>2, <2>3, AdoptInv
  <2>5. n \in S /\ g.prev[n] \in S /\ g.prev[n] # n
    <3>1. n \in S /\ g.prev[n] \in S
      BY <1>4, <2>1 DEF OpenChain
    <3>2. g.prev[n] # n
      BY <1>4, <1>3, FieldTypes DEF HeapInv, Chained, EndsValid, Live
    <3> QED
      BY <3>1, <3>2
  <2>6. a.tail = g.tail /\ a.head = g.head
    BY <2>2 DEF Adopt, Terminate, HeapType
  <2> HIDE DEF a
  <2>7. SameBelow(h, a)
    BY <1>4, <2>4 DEF SameBelow
  <2> QED
    BY <1>4, <2>4, <2>5, <2>6, <2>7 DEF a, Chained
<1> QED
  BY <1>4, <1>5 DEF g

-----------------------------------------------------------------------------
(* regexx_create leaves a sound heap.                                      *)
LEMMA InitInv == Init => HeapIInv
<1> SUFFICES ASSUME Init PROVE HeapIInv
  OBVIOUS
<1> DEFINE h == NewHeap
<1>1. 1 \in Node /\ MaxNodes >= 1 /\ MaxNodes \in Nat
  BY BoundAssumption DEF Node
<1>2. /\ h.size = 1 /\ h.freed = {} /\ h.head = 1 /\ h.tail = 1
      /\ h.type = [n \in Node |-> IF n = 1 THEN "T_ROOT" ELSE "T_UNKNOWN"]
      /\ h.next = [n \in Node |-> 0] /\ h.prev = [n \in Node |-> 0]
      /\ h.child = [n \in Node |-> 0]
      /\ h.data = [n \in Node |-> Zeroed]
  BY DEF NewHeap, NULL
<1>3. h \in HeapType
  <2>1. /\ [n \in Node |-> IF n = 1 THEN "T_ROOT" ELSE "T_UNKNOWN"] \in [Node -> NodeType]
        /\ [n \in Node |-> NULL] \in [Node -> Node \cup {NULL}]
        /\ [n \in Node |-> Zeroed] \in [Node -> DataType]
    BY ZeroedType DEF NodeType
  <2> QED
    BY <1>1, <2>1 DEF HeapType, NewHeap
<1> HIDE DEF h
<1>4. Live(h) = {1}
  BY <1>2 DEF Live
<1>5. Fresh(h) /\ EndsValid(h) /\ LinksAgree(h) /\ ChainsTerminated(h) /\ Region(h)
  BY <1>1, <1>2, <1>4 DEF Fresh, EndsValid, LinksAgree, ChainsTerminated, Region, NULL, Node
<1>6. NeverShared(h)
  BY <1>1, <1>2, <1>4 DEF NeverShared, Owns, Composite
<1>7. OpenChain(h, {1})
  BY <1>2, <1>4 DEF OpenChain
<1>8. Chained(h)
  BY <1>3, <1>5, <1>6, <1>7 DEF Chained, HeapInv
<1> QED
  BY <1>8 DEF Init, HeapIInv, h, Chained, HeapInv

-----------------------------------------------------------------------------
(* Taking the fragment's own node off again keeps the heap.                *)
LEMMA RemoveNewInv ==
  ASSUME NEW h, HeapInv(h), NEW S, OpenChain(h, S), NEW n, n = h.tail, n # h.head,
         h.type[n] = "T_UNKNOWN"
  PROVE  Chained(RemoveSelf(h, n)) /\ SameBelow(h, RemoveSelf(h, n))
<1>1. \A c \in Node : ~Owns(h, n, c)
  BY DEF Owns, Composite
<1>2. HeapInv(RemoveSelf(h, n)) /\ OpenChain(RemoveSelf(h, n), S \ {n})
      /\ SameBelow(h, RemoveSelf(h, n))
  BY <1>1, RemoveSelfInv
<1> QED
  BY <1>2 DEF Chained

(* Making an earlier quantifier lazy keeps the heap.                       *)
LEMMA SetLazyInv ==
  ASSUME NEW h, HeapInv(h), NEW S, OpenChain(h, S), NEW p \in S
  PROVE  LET g == SetLazy(h, p)
         IN  /\ HeapInv(g) /\ OpenChain(g, S) /\ SameBelow(h, g)
             /\ g.type = h.type /\ g.tail = h.tail /\ g.head = h.head
<1> DEFINE g == SetLazy(h, p)
           d == [h.data[p] EXCEPT !.lazy = TRUE]
<1>1. h \in HeapType /\ p \in Live(h) /\ p \in Node /\ p >= h.head
  <2>1. h \in HeapType /\ p \in Live(h) /\ p >= h.head
    BY DEF HeapInv, OpenChain
  <2> QED
    BY <2>1, FieldTypes DEF Live
<1>2. d \in DataType
  <2>1. h.data[p] \in DataType
    BY <1>1, SetData, ZeroedType
  <2> QED
    BY <2>1 DEF DataType
<1>3. g = [h EXCEPT !.data[p] = d]
  BY <1>1 DEF HeapType, SetLazy
<1> HIDE DEF d
<1>4. /\ g.size = h.size /\ g.freed = h.freed /\ g.head = h.head /\ g.tail = h.tail
      /\ g.next = h.next /\ g.prev = h.prev /\ g.child = h.child /\ g.type = h.type
      /\ g.data = [h.data EXCEPT ![p] = d]
  BY <1>1, <1>3 DEF HeapType
<1>5. g \in HeapType
  BY <1>1, <1>2, <1>3, SetData
<1>6. \A m \in Node : m # p => g.type[m] = h.type[m] /\ g.child[m] = h.child[m]
                               /\ g.data[m] = h.data[m]
  BY <1>1, <1>4 DEF HeapType
<1> HIDE DEF g
<1>7. g.type[p] = h.type[p] /\ g.child[p] = h.child[p]
  BY <1>4
<1>8. /\ g.size = h.size /\ g.freed = h.freed /\ g.head = h.head /\ g.tail = h.tail
      /\ g.next = h.next /\ g.prev = h.prev
  BY <1>4
<1>9. HeapInv(g) /\ OpenChain(g, S) /\ SameBelow(h, g)
  BY <1>1, <1>5, <1>6, <1>7, <1>8, RelabelInv
<1> QED
  BY <1>4, <1>9 DEF g

(* What holds when a fragment is read.                                     *)
LEMMA ReadFacts ==
  ASSUME IInv, NEW f \in Fragments \cup {RBrace} \cup MacroFragments, Read(f)
  PROVE  /\ Chained(re) /\ re.size < MaxNodes /\ re.size + 2 <= MaxNodes
         /\ f \in AllFragments /\ todo' = todo
<1>1. Chained(re) /\ re.size + 2 <= MaxNodes
  BY DEF Read, Readable, IInv, HeapIInv
<1>2. re.size \in Nat
  BY FieldTypes DEF IInv, HeapIInv
<1> QED
  BY <1>1, <1>2, BoundAssumption, SourceFragments DEF Read

(* Reading one fragment keeps the heap and writes only at or above         *)
(* re->head: one step per kind of fragment.                                *)
LEMMA ParseStep ==
  ASSUME IInv, NEW f \in Fragments \cup {RBrace} \cup MacroFragments, Parse(f)
  PROVE  HeapIInv' /\ SameBelow(re, re')
<1> DEFINE n == re.size + 1
           k == AddNode(re)
<1>0. Read(f)
  BY DEF Parse, ParseAtom, ParseChar, ParseOpen, ParseQuantifier, ParseQuestion,
         ParseBrace, ParseBar, ParseClose, ParseMacro, ParseBad
<1>1. /\ Chained(re) /\ re.size < MaxNodes /\ re.size + 2 <= MaxNodes
      /\ f \in AllFragments
  BY <1>0, ReadFacts
<1>2. /\ k \in HeapType /\ Chained(k) /\ SameBelow(re, k)
      /\ k.tail = n /\ n # k.head /\ k.size = n /\ k.head = re.head
      /\ k.child[n] = 0 /\ k.prev[n] = re.tail /\ n \in Node
      /\ k.type[n] = "T_UNKNOWN"
  BY <1>1, NewNode
<1>3. HeapInv(k)
  BY <1>2 DEF Chained
<1>4. PICK S : OpenChain(k, S)
  BY <1>2 DEF Chained
<1>5. \A g : SameBelow(k, g) => SameBelow(re, g)
  BY <1>2 DEF SameBelow
<1> HIDE DEF k
<1>6. CASE ParseAtom(f)
  <2>1. f.t \in NodeType /\ f.t # "T_ROOT"
    BY <1>1, <1>6, FragmentFields DEF ParseAtom, NodeType, AtomType
  <2>2. re' = Label(AddNode(re), n, f.t, Zeroed)
    BY <1>6 DEF ParseAtom
  <2>3. Chained(re') /\ SameBelow(re, re')
    BY <1>1, <2>1, <2>2, ZeroedType, NewNodeInv
  <2> QED
    BY <1>6, <2>3, ReadyInv DEF ParseAtom, Continue
<1>7. CASE ParseChar(f)
  <2>1. f.c \in Char
    BY <1>1, <1>7, FragmentFields DEF ParseChar
  <2>2. re' = AddChar(k, n, f.c)
    BY <1>7 DEF ParseChar, k
  <2>3. Chained(re') /\ SameBelow(k, re')
    BY <1>2, <1>3, <1>4, <2>1, <2>2, AddCharInv
  <2> QED
    BY <1>5, <1>7, <2>3, ReadyInv DEF ParseChar, Continue
<1>8. CASE ParseOpen(f)
  <2> DEFINE d == [Zeroed EXCEPT !.look = f.look, !.inv = f.inv]
  <2>1. d \in DataType
    <3>1. f.look \in BOOLEAN /\ f.inv \in BOOLEAN
      BY <1>1, <1>8, FragmentFields DEF ParseOpen
    <3> QED
      BY <3>1, ZeroedType DEF DataType
  <2>2. re' = Label(AddNode(re), n, "T_GROUP_START", d)
    BY <1>8 DEF ParseOpen
  <2> HIDE DEF d
  <2>3. "T_GROUP_START" \in NodeType
    BY DEF NodeType
  <2>4. Chained(re') /\ SameBelow(re, re')
    BY <1>1, <2>1, <2>2, <2>3, NewNodeInv
  <2> QED
    BY <1>8, <2>4, ReadyInv DEF ParseOpen, Continue
<1>9. CASE ParseQuantifier(f)
  <2> DEFINE h == SetQuantifier(AddNode(re), n, f.min, f.max)
  <2>1. f.min \in Nat /\ f.max \in Nat
    BY <1>1, <1>9, FragmentFields DEF ParseQuantifier
  <2>2. /\ Chained(h) /\ SameBelow(re, h)
        /\ HasOperand(h, n) => Chained(Adopt(h, n)) /\ SameBelow(re, Adopt(h, n))
    BY <1>1, <2>1, QuantifierInv
  <2>3. \/ HasOperand(h, n) /\ re' = Adopt(h, n) /\ pc' = "parse"
        \/ re' = h /\ pc' = "error"
    BY <1>9 DEF ParseQuantifier, Continue, Fail
  <2> HIDE DEF h
  <2> QED
    BY <2>2, <2>3, ReadyInv
<1>10. CASE ParseQuestion(f)
  <2> DEFINE h == SetQuantifier(AddNode(re), n, 0, 1)
             l == SetLazy(k, k.prev[n])
  <2>1. /\ Chained(h) /\ SameBelow(re, h)
        /\ HasOperand(h, n) => Chained(Adopt(h, n)) /\ SameBelow(re, Adopt(h, n))
    BY <1>1, QuantifierInv
  <2>2. \/ re' = RemoveSelf(l, n) /\ pc' = "parse"
        \/ HasOperand(h, n) /\ re' = Adopt(h, n) /\ pc' = "parse"
        \/ re' = h /\ pc' = "error"
    BY <1>10 DEF ParseQuestion, Continue, Fail, k
  <2>3. Chained(RemoveSelf(l, n)) /\ SameBelow(re, RemoveSelf(l, n))
    <3>1. k.prev[n] \in S
      BY <1>2, <1>4 DEF OpenChain
    <3>2. /\ HeapInv(l) /\ OpenChain(l, S) /\ SameBelow(k, l)
          /\ l.type = k.type /\ l.tail = k.tail /\ l.head = k.head
      BY <1>3, <1>4, <3>1, SetLazyInv
    <3> HIDE DEF l
    <3>3. Chained(RemoveSelf(l, n)) /\ SameBelow(l, RemoveSelf(l, n))
      BY <1>2, <3>2, RemoveNewInv
    <3> QED
      BY <1>2, <3>2, <3>3 DEF SameBelow
  <2> HIDE DEF h, l
  <2> QED
    BY <2>1, <2>2, <2>3, ReadyInv
<1>11. CASE ParseBrace(f)
  <2> DEFINE h == SetQuantifier(AddNode(re), n, f.min, f.max)
             a == Adopt(h, n)
  <2>1. f.min \in Nat /\ f.max \in Nat
    BY <1>1, <1>11, FragmentFields DEF ParseBrace
  <2>2. /\ Chained(h) /\ SameBelow(re, h)
        /\ HasOperand(h, n) => /\ Chained(a) /\ SameBelow(re, a)
                               /\ a.tail = n /\ n # a.head /\ HeapInv(a)
                               /\ \E T : OpenChain(a, T) /\ n \in T
    BY <1>1, <2>1, QuantifierInv
  <2>3. \/ HasOperand(h, n) /\ re' = a /\ pc' = "bar" /\ scan' = n
        \/ re' = h /\ pc' = "error"
    BY <1>11 DEF ParseBrace, Fail
  <2> HIDE DEF h, a
  <2>4. CASE HasOperand(h, n) /\ re' = a /\ pc' = "bar" /\ scan' = n
    BY <2>2, <2>4 DEF HeapIInv, HeapInv
  <2>5. CASE re' = h /\ pc' = "error"
    BY <2>2, <2>5, ReadyInv
  <2> QED
    BY <2>3, <2>4, <2>5
<1>12. CASE ParseBar(f)
  <2>1. re' = k /\ pc' = "bar" /\ scan' = n
    BY <1>12 DEF ParseBar, k
  <2>2. n \in S
    BY <1>2, <1>4 DEF OpenChain
  <2> QED
    BY <1>2, <1>3, <1>4, <2>1, <2>2 DEF HeapIInv
<1>13. CASE ParseClose(f)
  <2>1. re' = k /\ pc' = "close" /\ scan' = re.tail
    BY <1>13 DEF ParseClose, k
  <2>2. re.tail \in S
    BY <1>2, <1>4 DEF OpenChain
  <2>3. re.tail # n
    BY <1>1, FieldTypes DEF Chained, HeapInv, EndsValid, Live
  <2> QED
    BY <1>2, <1>3, <1>4, <2>1, <2>2, <2>3 DEF HeapIInv
<1>14. CASE ParseMacro(f)
  <2>1. re' = RemoveSelf(k, n) /\ pc' \in {"parse", "error"}
    BY <1>0, <1>14 DEF ParseMacro, Fail, Read, Readable, k
  <2>2. Chained(re') /\ SameBelow(k, re')
    BY <1>2, <1>3, <1>4, <2>1, RemoveNewInv
  <2> QED
    BY <1>5, <2>1, <2>2, ReadyInv
<1>15. CASE ParseBad(f)
  <2>1. f.t \in NodeType /\ f.t # "T_ROOT"
    BY <1>1, <1>15, FragmentFields DEF ParseBad, NodeType, AtomType
  <2>2. re' = Label(AddNode(re), n, f.t, Zeroed)
    BY <1>15 DEF ParseBad
  <2>3. Chained(re') /\ SameBelow(re, re')
    BY <1>1, <2>1, <2>2, ZeroedType, NewNodeInv
  <2> QED
    BY <1>15, <2>3, ReadyInv DEF ParseBad, Fail
<1> QED
  BY <1>6, <1>7, <1>8, <1>9, <1>10, <1>11, <1>12, <1>13, <1>14, <1>15 DEF Parse

-----------------------------------------------------------------------------
(* Hunting backwards stays on the chain and ends in a sound rearrangement. *)
LEMMA HuntStep ==
  ASSUME IInv, Hunt
  PROVE  HeapIInv' /\ SameBelow(re, re')
<1>1. re \in HeapType
  BY DEF IInv, HeapIInv
<1>2. SameBelow(re, re)
  BY DEF SameBelow
<1>3. CASE pc = "bar"
  <2>1. HeapInv(re) /\ re.tail # re.head /\ scan # re.head
    BY <1>3 DEF IInv, HeapIInv
  <2>2. PICK S : OpenChain(re, S) /\ scan \in S
    BY <1>3 DEF IInv, HeapIInv
  <2>3. re.prev[scan] \in S /\ re.type[re.head] = "T_ROOT" /\ re.tail \in S
    BY <2>1, <2>2 DEF OpenChain, HeapInv, EndsValid
  <2>4. CASE BarBack
    <3>1. re.prev[scan] # re.head
      BY <2>3, <2>4 DEF BarBack, AtChainStart
    <3>2. re' = re /\ pc' = "bar" /\ scan' = re.prev[scan]
      BY <1>3, <2>4 DEF BarBack
    <3> QED
      BY <1>1, <1>2, <2>1, <2>2, <2>3, <3>1, <3>2 DEF HeapIInv
  <2>5. CASE BarLiteral
    <3>1. re' = AddChar(re, re.tail, BarChar) /\ pc' = "parse"
      BY <2>5 DEF BarLiteral
    <3>2. re.type[re.prev[re.tail]] # "T_STRING"
      BY <2>5 DEF BarLiteral, AtChainStart
    <3>3. BarChar \in Char
      BY CharAssumption DEF BarChar
    <3>4. Chained(re') /\ SameBelow(re, re')
      BY <2>1, <2>2, <3>1, <3>2, <3>3, AddCharInv
    <3> QED
      BY <3>1, <3>4, ReadyInv
  <2>6. CASE BarSplit
    <3>1. re' = Split(re, scan) /\ pc' = "parse" /\ re.size < MaxNodes /\ scan # re.tail
      BY <2>6 DEF BarSplit
    <3>2. Chained(re') /\ SameBelow(re, re')
      BY <2>1, <2>2, <3>1, SplitInv DEF Chained
    <3> QED
      BY <3>1, <3>2, ReadyInv
  <2> QED
    BY <1>3, <2>4, <2>5, <2>6 DEF Hunt, CloseBack, CloseLiteral, CloseMatch
<1>4. CASE pc = "close"
  <2>1. /\ HeapInv(re) /\ re.tail # re.head /\ scan # re.tail
        /\ re.type[re.tail] = "T_UNKNOWN"
    BY <1>4 DEF IInv, HeapIInv
  <2>2. PICK S : OpenChain(re, S) /\ (scan # 0 => scan \in S)
    BY <1>4 DEF IInv, HeapIInv
  <2>3. CASE CloseBack
    <3>1. re' = re /\ pc' = "close" /\ scan' = re.prev[scan] /\ scan # 0
      BY <1>4, <2>3 DEF CloseBack, NULL
    <3>2. scan' # 0 => scan' \in S
      BY <2>1, <2>2, <3>1 DEF OpenChain, HeapInv, EndsValid, NULL
    <3>3. scan' # re.tail
      <4>1. re.next[re.tail] = 0 /\ re.tail # 0 /\ scan \in Live(re) /\ scan # 0
        BY <1>1, <2>1, <2>2, <3>1, FieldTypes DEF HeapInv, EndsValid, OpenChain, NULL
      <4> QED
        BY <2>1, <3>1, <4>1 DEF HeapInv, LinksAgree, NULL
    <3> QED
      BY <1>1, <1>2, <2>1, <2>2, <3>1, <3>2, <3>3 DEF HeapIInv
  <2>4. CASE CloseLiteral
    <3>1. re' = AddChar(re, re.tail, ")") /\ pc' = "parse"
      BY <2>4 DEF CloseLiteral
    <3>2. Chained(re') /\ SameBelow(re, re')
      BY <2>1, <2>2, <3>1, CharAssumption, AddCharInv
    <3> QED
      BY <3>1, <3>2, ReadyInv
  <2>5. CASE CloseMatch
    <3>1. /\ re' = CloseGroup(re, scan) /\ pc' = "parse"
          /\ scan # 0 /\ re.type[scan] = "T_GROUP_START"
      BY <2>5 DEF CloseMatch, NULL
    <3>2. Chained(re') /\ SameBelow(re, re')
      BY <2>1, <2>2, <3>1, CloseGroupInv DEF Chained
    <3> QED
      BY <3>1, <3>2, ReadyInv
  <2> QED
    BY <1>4, <2>3, <2>4, <2>5 DEF Hunt, BarBack, BarLiteral, BarSplit
<1> QED
  BY <1>3, <1>4 DEF Hunt, BarBack, BarLiteral, BarSplit, CloseBack, CloseLiteral, CloseMatch

(* Every step keeps the heap and writes only at or above re->head.         *)
LEMMA HeapStep ==
  ASSUME IInv, [Next]_vars
  PROVE  HeapIInv' /\ SameBelow(re, re')
<1>1. re \in HeapType /\ todo \in Seq(Node \cup {0})
  BY DEF IInv, HeapIInv, ControlType, NULL
<1>2. SameBelow(re, re)
  BY DEF SameBelow
<1>3. ASSUME NEW m \in MacroDefs, AddMacro(m) PROVE HeapIInv' /\ SameBelow(re, re')
  BY <1>2, <1>3 DEF AddMacro, IInv, HeapIInv, Callable
<1>4. CASE BeginPattern
  <2>1. re' = re /\ pc' = "parse" /\ Chained(re)
    BY <1>4 DEF BeginPattern, Callable, IInv, HeapIInv
  <2> QED
    BY <1>2, <2>1, ReadyInv
<1>5. CASE EndMacro
  BY <1>2, <1>5 DEF EndMacro, IInv, HeapIInv
<1>6. CASE EndPattern
  <2>1. Chained(re) /\ re.size + 2 <= MaxNodes /\ pc' = "idle"
    BY <1>6 DEF EndPattern, IInv, HeapIInv
  <2>2. re' = AddRoot(Terminate(re, re.tail))
    BY <1>6 DEF EndPattern
  <2>3. Chained(re') /\ SameBelow(re, re')
    BY <2>1, <2>2, EndPatternInv DEF Chained
  <2> QED
    BY <2>1, <2>3, ReadyInv
<1>7. CASE BeginFree
  <2>1. HeapInv(re) /\ re' = re /\ todo' = <<re.head>> /\ pc' = "freeing"
    BY <1>7 DEF BeginFree, IInv, HeapIInv, Chained
  <2>2. FreeInv(re, <<re.head>>)
    BY <2>1, BeginFreeInv
  <2> QED
    BY <1>1, <1>2, <2>1, <2>2 DEF HeapIInv
<1>8. CASE FreeNode
  <2> DEFINE n == Head(todo)
  <2>1. pc = "freeing" /\ pc' = "freeing" /\ todo # <<>> /\ FreeInv(re, todo)
    BY <1>8 DEF FreeNode, IInv, HeapIInv
  <2>2. CASE n = 0 /\ todo' = Tail(todo) /\ re' = re
    <3>1. FreeInv(re, Tail(todo))
      BY <1>1, <2>1, FreeNullInv
    <3> QED
      BY <1>1, <1>2, <2>1, <2>2, <3>1 DEF HeapIInv
  <2>3. CASE /\ n # 0 /\ todo' = Below(n) \o Tail(todo)
             /\ re' = [re EXCEPT !.freed = @ \cup {n}]
    <3>1. n \in Node
      BY <1>1, <2>1, <2>3
    <3>2. re.next[n] \in Node \cup {0} /\ re.child[n] \in Node \cup {0}
      BY <1>1, <3>1, FieldTypes
    <3>3. /\ Below(n) \in Seq(Node \cup {0})
          /\ \/ Below(n) = <<re.next[n]>>
             \/ re.type[n] \in Composite /\ Below(n) = <<re.child[n], re.next[n]>>
      <4>1. <<re.next[n]>> \in Seq(Node \cup {0})
        BY <3>2
      <4>2. <<re.child[n], re.next[n]>> \in Seq(Node \cup {0})
        BY <3>2
      <4>3. Below(n) = IF re.type[n] \in Composite
                         THEN <<re.child[n], re.next[n]>> ELSE <<re.next[n]>>
        BY DEF Below
      <4> QED
        BY <4>1, <4>2, <4>3
    <3>4. re' \in HeapType /\ FreeInv(re', todo') /\ SameBelow(re, re')
      BY <1>1, <2>1, <2>3, <3>3, FreeNodeInv
    <3> QED
      BY <2>1, <3>4 DEF HeapIInv
  <2> QED
    BY <1>8, <2>2, <2>3 DEF FreeNode, NULL
<1>9. CASE EndFree
  BY <1>1, <1>2, <1>9 DEF EndFree, HeapIInv
<1>10. CASE UNCHANGED vars
  BY <1>2, <1>10 DEF vars, IInv, HeapIInv
<1> QED
  BY <1>3, <1>4, <1>5, <1>6, <1>7, <1>8, <1>9, <1>10, ParseStep, HuntStep DEF Next

-----------------------------------------------------------------------------
(* One pending expansion of a macro value.                                 *)
Frame == [body: Seq(AllFragments), off: Nat \ {0}]

(* A frame that has moved on is a frame.                                   *)
LEMMA AdvancedType ==
  ASSUME frames \in Seq(Frame)
  PROVE  Advanced \in Seq(Frame)
<1>1. CASE frames = <<>>
  BY <1>1 DEF Advanced, InMacro
<1>2. CASE frames # <<>>
  <2> DEFINE l == Len(frames)
             t == [frames[l] EXCEPT !.off = @ + 1]
  <2>1. l \in 1 .. Len(frames) /\ frames[l] \in Frame
    BY <1>2, EmptySeq, ElementOfSeq
  <2>2. t \in Frame
    <3>1. frames[l].off + 1 \in Nat \ {0}
      BY <2>1 DEF Frame
    <3>2. ASSUME NEW fr \in Frame, NEW o \in Nat \ {0}
          PROVE  [fr EXCEPT !.off = o] \in Frame
      BY DEF Frame
    <3> QED
      BY <2>1, <3>1, <3>2
  <2>3. Advanced = [frames EXCEPT ![l] = t]
    BY <1>2 DEF Advanced, InMacro
  <2> HIDE DEF l, t
  <2> QED
    BY <2>1, <2>2, <2>3, ExceptSeq
<1> QED
  BY <1>1, <1>2

(* Reading a fragment keeps the control variables well typed.              *)
LEMMA ParseControl ==
  ASSUME IInv, NEW f \in Fragments \cup {RBrace} \cup MacroFragments, Parse(f)
  PROVE  ControlType'
<1>1. Read(f)
  BY DEF Parse, ParseAtom, ParseChar, ParseOpen, ParseQuantifier, ParseQuestion,
         ParseBrace, ParseBar, ParseClose, ParseMacro, ParseBad
<1>2. /\ ControlType /\ frames \in Seq(Frame) /\ macros \in Seq(MacroDefs)
      /\ re \in HeapType /\ f \in AllFragments
  BY <1>1, ReadFacts DEF IInv, HeapIInv, ControlType, Frame
<1>3. re.tail \in Node /\ re.size + 1 \in Node
  BY <1>1, <1>2, ReadFacts, AddNodeFields, FieldTypes
<1>4. /\ patterns' \in Seq(Node) /\ macros' \in Seq(MacroDefs)
      /\ input' \in Seq(AllFragments) /\ todo' \in Seq(Node \cup {NULL})
  BY <1>1, <1>2, AppendProperties DEF Read, ControlType
<1>5. Advanced \in Seq(Frame) /\ <<>> \in Seq(Frame)
  BY <1>2, AdvancedType, EmptySeq
<1>6. pc \in {"idle", "parse", "bar", "close", "error", "freeing", "freed"}
      /\ scan \in Node \cup {NULL}
  BY <1>2 DEF ControlType
<1>7. /\ frames' \in Seq(Frame)
      /\ pc' \in {"idle", "parse", "bar", "close", "error", "freeing", "freed"}
      /\ scan' \in Node \cup {NULL}
  <2>1. ASSUME Continue \/ Fail PROVE <1>7!1 /\ <1>7!2 /\ <1>7!3
    BY <1>5, <1>6, <2>1 DEF Continue, Fail
  <2>2. CASE ParseMacro(f)
    <3>1. ASSUME NEW i \in DOMAIN macros,
                 frames' = Append(Advanced, [body |-> macros[i].value, off |-> 1]),
                 pc' = pc, scan' = scan
          PROVE  <1>7!1 /\ <1>7!2 /\ <1>7!3
      <4> DEFINE fr == [body |-> macros[i].value, off |-> 1]
      <4>1. macros[i] \in MacroDefs
        BY <1>2, ElementOfSeq, LenProperties
      <4>2. fr \in Frame
        BY <4>1, MacroAssumption DEF Frame
      <4> HIDE DEF fr
      <4>3. Append(Advanced, fr) \in Seq(Frame)
        BY <1>5, <4>2, AppendProperties
      <4> QED
        BY <1>6, <3>1, <4>3 DEF fr
    <3> QED
      BY <2>1, <2>2, <3>1 DEF ParseMacro
  <2>3. CASE ParseBar(f)
    BY <1>3, <1>5, <2>3 DEF ParseBar
  <2>4. CASE ParseClose(f)
    BY <1>3, <1>5, <2>4 DEF ParseClose
  <2>5. CASE ParseBrace(f)
    <3>1. (Fail \/ (pc' = "bar" /\ scan' = re.size + 1 /\ frames' = Advanced))
      BY <2>5 DEF ParseBrace
    <3> QED
      BY <1>3, <1>5, <2>1, <3>1
  <2> QED
    BY <2>1, <2>2, <2>3, <2>4, <2>5
       DEF Parse, ParseAtom, ParseChar, ParseOpen, ParseQuantifier, ParseQuestion, ParseBad
<1> QED
  BY <1>4, <1>7 DEF ControlType, Frame

(* Every step keeps the control variables well typed.                      *)
LEMMA ControlStep ==
  ASSUME IInv, [Next]_vars
  PROVE  ControlType'
<1>1. /\ ControlType /\ re \in HeapType
      /\ patterns \in Seq(Node) /\ macros \in Seq(MacroDefs) /\ frames \in Seq(Frame)
      /\ todo \in Seq(Node \cup {NULL})
  BY DEF IInv, HeapIInv, ControlType, Frame
<1>2. re.head \in Node /\ re.prev \in [Node -> Node \cup {NULL}]
  BY <1>1, FieldTypes DEF NULL
<1>3. ASSUME NEW m \in MacroDefs, AddMacro(m) PROVE ControlType'
  <2>1. Append(macros, m) \in Seq(MacroDefs)
    BY <1>1, AppendProperties
  <2> QED
    BY <1>1, <1>3, <2>1 DEF AddMacro, ControlType
<1>4. CASE BeginPattern
  BY <1>1, <1>4, EmptySeq DEF BeginPattern, ControlType
<1>5. CASE Hunt
  <2>1. /\ UNCHANGED <<patterns, macros, frames, input, todo>>
        /\ pc' \in {pc, "parse"}
        /\ scan' = scan \/ ((BarBack \/ CloseBack) /\ scan' = re.prev[scan])
    BY <1>5 DEF Hunt, BarBack, BarLiteral, BarSplit, CloseBack, CloseLiteral, CloseMatch
  <2>2. ASSUME BarBack \/ CloseBack PROVE scan # NULL
    <3>1. CASE CloseBack
      BY <3>1 DEF CloseBack
    <3>2. CASE BarBack
      <4>1. pc = "bar"
        BY <3>2 DEF BarBack
      <4>2. scan \in Live(re)
        BY <4>1 DEF IInv, HeapIInv, OpenChain
      <4> QED
        BY <1>1, <4>2, FieldTypes DEF Live, NULL
    <3> QED
      BY <2>2, <3>1, <3>2
  <2>3. scan' \in Node \cup {NULL}
    BY <1>1, <1>2, <2>1, <2>2 DEF ControlType
  <2> QED
    BY <1>1, <2>1, <2>3 DEF ControlType
<1>6. CASE EndMacro
  <2>1. frames # <<>> /\ frames' = SubSeq(frames, 1, Len(frames) - 1)
    BY <1>6 DEF EndMacro, InMacro
  <2>2. Len(frames) \in Nat \ {0}
    BY <1>1, <2>1, EmptySeq
  <2>3. \A i \in 1 .. Len(frames) - 1 : frames[i] \in Frame
    BY <1>1, <2>2, ElementOfSeq
  <2>4. frames' \in Seq(Frame)
    BY <2>1, <2>2, <2>3, SubSeqProperties
  <2> QED
    BY <1>1, <1>6, <2>4 DEF EndMacro, ControlType, Frame
<1>7. CASE EndPattern
  <2>1. Append(patterns, re.head) \in Seq(Node)
    BY <1>1, <1>2, AppendProperties
  <2> QED
    BY <1>1, <1>7, <2>1 DEF EndPattern, ControlType
<1>8. CASE BeginFree
  BY <1>1, <1>2, <1>8 DEF BeginFree, ControlType
<1>9. CASE FreeNode
  <2>1. todo' \in Seq(Node \cup {NULL})
    <3>1. todo # <<>>
      BY <1>9 DEF FreeNode
    <3>2. Head(todo) \in Node \cup {NULL} /\ Tail(todo) \in Seq(Node \cup {NULL})
      BY <1>1, <3>1, HeadTailProperties
    <3>3. ASSUME NEW n \in Node PROVE Below(n) \in Seq(Node \cup {NULL})
      <4>1. re.next[n] \in Node \cup {NULL} /\ re.child[n] \in Node \cup {NULL}
        BY <1>1, FieldTypes DEF NULL
      <4>2. <<re.next[n]>> \in Seq(Node \cup {NULL})
        BY <4>1
      <4>3. <<re.child[n], re.next[n]>> \in Seq(Node \cup {NULL})
        BY <4>1
      <4> QED
        BY <4>2, <4>3 DEF Below
    <3>4. ASSUME Head(todo) # NULL
          PROVE  Below(Head(todo)) \o Tail(todo) \in Seq(Node \cup {NULL})
      BY <3>2, <3>3, <3>4, ConcatProperties
    <3> QED
      BY <1>9, <3>2, <3>4 DEF FreeNode
  <2> QED
    BY <1>1, <1>9, <2>1 DEF FreeNode, ControlType
<1>10. CASE EndFree
  BY <1>1, <1>10 DEF EndFree, ControlType
<1>11. CASE UNCHANGED vars
  BY <1>1, <1>11 DEF vars, ControlType
<1> QED
  BY <1>3, <1>4, <1>5, <1>6, <1>7, <1>8, <1>9, <1>10, <1>11, ParseControl DEF Next

-----------------------------------------------------------------------------
(* The inductive invariant: between two fragments the heap is a forest of  *)
(* closed chains plus the one open chain from re->head to re->tail.        *)
THEOREM Inductive == Spec => []IInv
<1>1. Init => IInv
  <2>1. Init => ControlType
    BY EmptySeq DEF Init, ControlType
  <2> QED
    BY <2>1, InitInv DEF IInv
<1>2. IInv /\ [Next]_vars => IInv'
  BY HeapStep, ControlStep DEF IInv
<1> QED
  BY <1>1, <1>2, PTL DEF Spec

(* TypeOK: whatever is compiled, the pointers the compiler writes stay in  *)
(* the heap.                                                               *)
THEOREM TypeCorrect == Spec => []TypeOK
<1>1. IInv => TypeOK
  BY DEF IInv, HeapIInv, TypeOK
<1> QED
  BY <1>1, Inductive, PTL

(* ChainsWellFormed: no sequence of fragments, macros and failed patterns  *)
(* breaks the node chains of regexx.c.                                     *)
THEOREM WellFormed == Spec => []ChainsWellFormed
<1>1. IInv => ChainsWellFormed
  BY DEF IInv, HeapIInv, Chained, HeapInv, ControlType, ChainsWellFormed
<1> QED
  BY <1>1, Inductive, PTL

(* NoNullDereference: the "programming error" that '|' reports where       *)
(* start->prev is NULL is unreachable, and so are the unchecked            *)
(* dereferences of ')' and of the quantifiers.                             *)
THEOREM NeverNull == Spec => []NoNullDereference
<1>1. ASSUME IInv PROVE NoNullDereference
  <2>1. re \in HeapType
    BY <1>1 DEF IInv, HeapIInv
  <2>2. ASSUME HeapInv(re), NEW S, OpenChain(re, S), NEW n \in S, n # re.head
        PROVE  re.prev[n] # NULL
    <3>1. re.prev[n] \in Live(re)
      BY <2>2 DEF OpenChain
    <3> QED
      BY <2>1, <3>1, FieldTypes DEF Live, NULL
  <2>3. pc = "bar" => re.prev[scan] # NULL
    BY <1>1, <2>2 DEF IInv, HeapIInv
  <2>4. pc = "close" /\ scan # NULL /\ re.type[scan] = "T_GROUP_START" =>
          re.next[scan] # NULL
    <3>1. SUFFICES ASSUME pc = "close", scan # NULL, re.type[scan] = "T_GROUP_START"
                    PROVE  re.next[scan] # NULL
      OBVIOUS
    <3>2. /\ HeapInv(re) /\ re.tail # re.head /\ scan # re.tail
          /\ re.type[re.tail] = "T_UNKNOWN"
      BY <1>1, <3>1 DEF IInv, HeapIInv
    <3>3. scan \in Live(re)
      BY <1>1, <3>1 DEF IInv, HeapIInv, OpenChain, NULL
    <3> QED
      BY <3>1, <3>2, <3>3 DEF HeapInv, ChainsTerminated
  <2>5. pc = "parse" /\ re.tail # re.head => re.prev[re.tail] # NULL
    BY <1>1, <2>2 DEF IInv, HeapIInv, Chained, OpenChain
  <2> QED
    BY <2>3, <2>4, <2>5 DEF NoNullDereference
<1> QED
  BY <1>1, Inductive, PTL

(* NoUseAfterFree: neither the backward hunts nor regexx_free reach a node *)
(* that was freed, so that no node is freed twice.                         *)
THEOREM NeverFreed == Spec => []NoUseAfterFree
<1>1. IInv => NoUseAfterFree
  BY DEF IInv, HeapIInv, FreeInv, OpenChain, NoUseAfterFree, NULL
<1> QED
  BY <1>1, Inductive, PTL

(* AcceptedFrozen: reading, failing at or freeing a later pattern writes   *)
(* no node of a pattern regexx_add_pattern has accepted.                   *)
THEOREM Frozen == Spec => AcceptedFrozen
<1>1. IInv /\ [Next]_vars => [FrozenStep]_vars
  <2> SUFFICES ASSUME IInv, [Next]_vars PROVE FrozenStep
    OBVIOUS
  <2>1. \A n \in 1 .. re.head - 1 : SameNode(n)
    BY HeapStep DEF SameBelow, SameNode
  <2>2. patterns' = patterns \/ patterns' = Append(patterns, re.head)
    BY DEF Next, vars, AddMacro, BeginPattern, Parse, ParseAtom, ParseChar, ParseOpen,
           ParseQuantifier, ParseQuestion, ParseBrace, ParseBar, ParseClose, ParseMacro,
           ParseBad, Read, Hunt, BarBack, BarLiteral, BarSplit, CloseBack, CloseLiteral,
           CloseMatch, EndMacro, EndPattern, BeginFree, FreeNode, EndFree
  <2>3. patterns \in Seq(Node) /\ re.head \in Node
    BY FieldTypes DEF IInv, HeapIInv, ControlType
  <2>4. \A i \in DOMAIN patterns : i \in DOMAIN patterns' /\ patterns'[i] = patterns[i]
    BY <2>2, <2>3, AppendProperties, LenProperties
  <2> QED
    BY <2>1, <2>4 DEF FrozenStep
<1> QED
  BY <1>1, Inductive, PTL DEF Spec, AcceptedFrozen

-----------------------------------------------------------------------------
(***************************************************************************)
(* regexx_free releases the whole chain under construction.  The compiler  *)
(* never forgets a node: every live node of the current pattern can be     *)
(* reached from re->head along next and child, whatever surgery and        *)
(* whatever failure came before.  "Can be reached" is said without paths:  *)
(* a set of nodes with the head that is closed under the two links has     *)
(* them all.                                                               *)
(***************************************************************************)

(* Nothing below a node of T, as _node_free goes down, is outside of T.    *)
Closed(h, T) ==
  \A n \in Live(h) \cap T :
    /\ h.next[n] # 0 => h.next[n] \in T
    /\ h.type[n] \in Composite /\ h.child[n] # 0 => h.child[n] \in T

(* T has every node of the pattern under construction.                     *)
HasCurrent(h, T) == \A n \in Live(h) : n >= h.head => n \in T

(* Every such node can be reached from the head, or from a pending call.   *)
Reached(h) == \A T : h.head \in T /\ Closed(h, T) => HasCurrent(h, T)
Pending(h, td) ==
  \A T : (\A i \in DOMAIN td : td[i] # 0 => td[i] \in T) /\ Closed(h, T)
           => HasCurrent(h, T)

(* "{2,3}" falls into the case of '|', which overwrites its quantifier.    *)
NoBraces == \A f \in Fragments \cup MacroFragments : f.k # "brace"

FreeIInv ==
  NoBraces =>
    /\ pc \in {"idle", "parse", "bar", "close", "error"} => Reached(re)
    /\ pc = "bar" => re.type[re.tail] = "T_UNKNOWN"
    /\ pc = "freeing" => Pending(re, todo)
    /\ pc = "freed" => \A n \in Live(re) : n < re.head

-----------------------------------------------------------------------------
(* Writing to a node what leads nowhere, and removes no link, forgets      *)
(* nothing.                                                                *)
LEMMA MoreLinks ==
  ASSUME NEW h, Reached(h), NEW g,
         g.size = h.size, g.freed = h.freed, g.head = h.head, g.next = h.next,
         \A m \in Live(h) : h.type[m] \in Composite /\ h.child[m] # 0 =>
           g.type[m] \in Composite /\ g.child[m] = h.child[m]
  PROVE  Reached(g)
<1>1. Live(g) = Live(h)
  BY DEF Live
<1> SUFFICES ASSUME NEW T, g.head \in T, Closed(g, T) PROVE HasCurrent(g, T)
  BY DEF Reached
<1>2. Closed(h, T)
  BY <1>1 DEF Closed
<1>3. HasCurrent(h, T)
  BY <1>2 DEF Reached
<1> QED
  BY <1>1, <1>3 DEF HasCurrent

(* A new node hangs behind the tail.                                       *)
LEMMA AddNodeReached ==
  ASSUME NEW h, HeapInv(h), Reached(h), h.size < MaxNodes, NEW S, OpenChain(h, S)
  PROVE  Reached(AddNode(h))
<1> DEFINE g == AddNode(h)
           n == h.size + 1
<1>1. h \in HeapType
  BY DEF HeapInv
<1>2. /\ n \in Node
      /\ g.size = n /\ g.freed = h.freed /\ g.head = h.head
      /\ g.type = h.type /\ g.child = h.child
      /\ g.next = [h.next EXCEPT ![h.tail] = n]
  BY <1>1, AddNodeFields
<1> HIDE DEF g
<1>3. /\ h.size \in Nat /\ h.next \in [Node -> Node \cup {0}]
      /\ h.tail \in Node /\ h.head \in Node /\ Live(h) \subseteq Node
  BY <1>1, FieldTypes DEF Live
<1>4. h.tail \in Live(h) /\ h.next[h.tail] = 0 /\ h.tail >= h.head
  BY DEF HeapInv, EndsValid, OpenChain, NULL
<1>5. Live(h) \subseteq Live(g) /\ Live(g) \subseteq Live(h) \cup {n}
  BY <1>2, <1>3 DEF Live
<1>6. n # 0
  BY <1>3
<1> SUFFICES ASSUME NEW T, g.head \in T, Closed(g, T) PROVE HasCurrent(g, T)
  BY DEF Reached, g
<1>7. Closed(h, T)
  BY <1>2, <1>3, <1>4, <1>5 DEF Closed
<1>8. HasCurrent(h, T)
  BY <1>2, <1>7 DEF Reached
<1>9. n \in T
  <2>1. h.tail \in T /\ h.tail \in Live(g) /\ g.next[h.tail] = n
    BY <1>2, <1>3, <1>4, <1>5, <1>8 DEF HasCurrent
  <2> QED
    BY <2>1, <1>6 DEF Closed
<1> QED
  BY <1>2, <1>5, <1>8, <1>9 DEF HasCurrent

(* Label, on a node that nothing hangs below.                              *)
LEMMA LabelReached ==
  ASSUME NEW h \in HeapType, Reached(h), NEW n \in Node, h.child[n] = 0,
         NEW ty \in NodeType, NEW d \in DataType, NEW g, g = Label(h, n, ty, d)
  PROVE  Reached(g)
<1>1. /\ g \in HeapType
      /\ g.size = h.size /\ g.freed = h.freed /\ g.head = h.head /\ g.tail = h.tail
      /\ g.next = h.next /\ g.prev = h.prev /\ g.child = h.child
      /\ g.type = [h.type EXCEPT ![n] = ty]
      /\ g.data = [h.data EXCEPT ![n] = d]
  BY LabelFields
<1>2. h.type \in [Node -> NodeType] /\ Live(h) \subseteq Node
  BY FieldTypes DEF Live
<1> QED
  BY <1>1, <1>2, MoreLinks

(* Taking off the last node, which nothing hangs below.                    *)
LEMMA RemoveSelfReached ==
  ASSUME NEW h, HeapInv(h), Reached(h), NEW S, OpenChain(h, S),
         NEW n, n = h.tail, n # h.head, h.type[n] \notin Composite
  PROVE  Reached(RemoveSelf(h, n))
<1> DEFINE g == RemoveSelf(h, n)
           p == h.prev[n]
<1>1. h \in HeapType
  BY DEF HeapInv
<1>2. h.next \in [Node -> Node \cup {0}] /\ Live(h) \subseteq Node /\ 0 \notin Node
  BY <1>1, FieldTypes DEF Live
<1>3. n \in Live(h) /\ p \in Live(h) /\ n \in Node /\ p \in Node /\ p # 0
  BY <1>2 DEF OpenChain
<1>4. h.next[p] = n /\ h.next[n] = 0
  BY <1>3 DEF HeapInv, LinksAgree, EndsValid, NULL
<1>5. /\ g.size = h.size /\ g.freed = h.freed \cup {n} /\ g.head = h.head
      /\ g.type = h.type /\ g.child = h.child /\ g.next = [h.next EXCEPT ![p] = 0]
  BY <1>1, <1>3, RemoveSelfFields
<1> HIDE DEF g
<1>6. Live(g) = Live(h) \ {n}
  BY <1>5 DEF Live
<1> SUFFICES ASSUME NEW T, g.head \in T, Closed(g, T) PROVE HasCurrent(g, T)
  BY DEF Reached, g
<1>7. Closed(h, T \cup {n})
  <2> SUFFICES ASSUME NEW m \in Live(h) \cap (T \cup {n})
               PROVE  /\ h.next[m] # 0 => h.next[m] \in T \cup {n}
                      /\ h.type[m] \in Composite /\ h.child[m] # 0 =>
                           h.child[m] \in T \cup {n}
    BY DEF Closed
  <2>1. CASE m = n
    BY <1>4, <2>1
  <2>2. CASE m # n
    <3>1. m \in Live(g) \cap T /\ m \in Node
      BY <1>2, <1>6, <2>2
    <3>2. m # p => g.next[m] = h.next[m]
      BY <1>2, <1>5, <3>1
    <3> QED
      BY <1>4, <1>5, <3>1, <3>2 DEF Closed
  <2> QED
    BY <2>1, <2>2
<1>8. HasCurrent(h, T \cup {n})
  BY <1>5, <1>7 DEF Reached
<1> QED
  BY <1>5, <1>6, <1>8 DEF HasCurrent

(* A link that leads to a node of a chain other than its first is next,    *)
(* and comes from the node before it.                                      *)
LEMMA OnlyLink ==
  ASSUME NEW h, HeapInv(h), NEW c \in Node, h.prev[c] # 0, NEW m \in Live(h)
  PROVE  /\ h.next[m] = c => h.prev[c] = m
         /\ ~(h.type[m] \in Composite /\ h.child[m] = c)
<1>1. 0 \notin Node
  BY FieldTypes DEF HeapInv
<1> QED
  BY <1>1 DEF HeapInv, LinksAgree, NeverShared, Owns, NULL

(* The operand of a quantifier stays reached, below it.                    *)
LEMMA AdoptReached ==
  ASSUME NEW h, HeapInv(h), Reached(h), NEW S, OpenChain(h, S), h.size < MaxNodes,
         NEW n, n = h.tail, n # h.head,
         h.type[n] = "T_QUANTIFIER", h.child[n] = 0, h.prev[n] # h.head
  PROVE  Reached(Adopt(h, n))
<1> DEFINE c == h.prev[n]
           p == h.prev[c]
           t == h.size + 1
           g == Adopt(h, n)
<1>1. h \in HeapType
  BY DEF HeapInv
<1>2. /\ h.size \in Nat /\ h.next \in [Node -> Node \cup {0}]
      /\ h.type \in [Node -> NodeType] /\ h.child \in [Node -> Node \cup {0}]
      /\ Live(h) \subseteq Node /\ Node \subseteq Nat \ {0}
      /\ \A m \in Live(h) : m <= h.size
  BY <1>1, FieldTypes DEF Live
<1>3. /\ n \in S /\ c \in S /\ p \in S /\ S \subseteq Live(h) /\ n \in Node
      /\ c \in Node /\ p \in Node /\ c >= h.head /\ n >= h.head
  BY <1>2 DEF OpenChain
<1>4. h.next[c] = n /\ h.next[p] = c /\ h.next[n] = 0 /\ c # 0 /\ p # 0 /\ n # 0
      /\ p < c /\ c < n
  BY <1>2, <1>3 DEF HeapInv, LinksAgree, EndsValid, NULL
<1>0. p # n /\ c # n /\ t \notin Live(h) /\ t # 0
  BY <1>2, <1>3, <1>4
<1>5. /\ g \in HeapType /\ t \in Node
      /\ g.size = t /\ g.freed = h.freed
      /\ g.head = h.head /\ g.tail = h.tail
      /\ g.data = h.data
      /\ g.child = [h.child EXCEPT ![n] = c]
      /\ g.type = [h.type EXCEPT ![t] = "T_TRUE"]
      /\ g.prev = [h.prev EXCEPT ![n] = p, ![c] = 0, ![t] = c]
      /\ g.next = [h.next EXCEPT ![p] = n, ![c] = t]
  BY <1>0, <1>1, <1>3, AdoptFields
<1> HIDE DEF g
<1>6. Live(h) \subseteq Live(g) /\ Live(g) \subseteq Live(h) \cup {t}
  BY <1>2, <1>5 DEF Live
<1>7. /\ g.next[p] = n /\ g.next[c] = t /\ g.child[n] = c /\ g.type[n] \in Composite
      /\ \A m \in Live(h) : /\ g.type[m] = h.type[m]
                            /\ m \notin {p, c} => g.next[m] = h.next[m]
                            /\ m # n => g.child[m] = h.child[m]
  <2>1. \A m \in Live(h) : m \in Node /\ m # t
    BY <1>0, <1>2
  <2>2. n \in Live(h) /\ n \in Node /\ p # c
    BY <1>2, <1>3, <1>4
  <2>3. g.next[p] = n /\ g.next[c] = t
    BY <1>2, <1>3, <1>5, <2>2
  <2>4. g.child[n] = c
    BY <1>2, <1>5, <2>2
  <2>5. g.type[n] = "T_QUANTIFIER"
    BY <1>2, <1>5, <2>1, <2>2
  <2>6. \A m \in Live(h) : g.type[m] = h.type[m]
    BY <1>2, <1>5, <2>1
  <2>7. \A m \in Live(h) : m \notin {p, c} => g.next[m] = h.next[m]
    BY <1>2, <1>5, <2>1
  <2>8. \A m \in Live(h) : m # n => g.child[m] = h.child[m]
    BY <1>2, <1>5, <2>1
  <2> QED
    BY <2>3, <2>4, <2>5, <2>6, <2>7, <2>8 DEF Composite
<1>8. h.prev[h.head] = 0 /\ h.prev[n] # 0 /\ h.prev[c] # 0
  BY <1>4 DEF HeapInv, EndsValid, NULL
<1> SUFFICES ASSUME NEW T, g.head \in T, Closed(g, T) PROVE HasCurrent(g, T)
  BY DEF Reached, g
<1>9. p \in T
  <2> SUFFICES ASSUME p \notin T PROVE FALSE
    OBVIOUS
  <2> DEFINE U == T \ {c, n}
  <2>1. Closed(h, U)
    <3> SUFFICES ASSUME NEW m \in Live(h) \cap U
                 PROVE  /\ h.next[m] # 0 => h.next[m] \in U
                        /\ h.type[m] \in Composite /\ h.child[m] # 0 => h.child[m] \in U
      BY DEF Closed
    <3>1. m \in Live(g) \cap T /\ m \notin {p, c, n}
      BY <1>6
    <3>2. g.next[m] = h.next[m] /\ g.child[m] = h.child[m] /\ g.type[m] = h.type[m]
      BY <1>7, <3>1
    <3>3. /\ h.next[m] # c /\ h.next[m] # n
          /\ ~(h.type[m] \in Composite /\ h.child[m] \in {c, n})
      BY <1>3, <1>8, <3>1, OnlyLink
    <3> QED
      BY <3>1, <3>2, <3>3 DEF Closed
  <2>2. h.head \in U
    BY <1>5, <1>8
  <2>3. HasCurrent(h, U)
    BY <2>1, <2>2 DEF Reached
  <2> QED
    BY <1>3, <2>3 DEF HasCurrent
<1>10. n \in T /\ c \in T /\ t \in T
  <2>1. n \in T
    BY <1>3, <1>4, <1>6, <1>7, <1>9 DEF Closed
  <2>2. c \in T
    BY <1>3, <1>4, <1>6, <1>7, <2>1 DEF Closed
  <2> QED
    BY <1>0, <1>3, <1>6, <1>7, <2>1, <2>2 DEF Closed
<1>11. Closed(h, T)
  <2> SUFFICES ASSUME NEW m \in Live(h) \cap T
               PROVE  /\ h.next[m] # 0 => h.next[m] \in T
                      /\ h.type[m] \in Composite /\ h.child[m] # 0 => h.child[m] \in T
    BY DEF Closed
  <2>1. m \in Live(g) \cap T
    BY <1>6
  <2>2. h.next[m] # 0 => h.next[m] \in T
    <3>1. CASE m \in {p, c}
      BY <1>4, <1>10, <3>1
    <3>2. CASE m \notin {p, c}
      BY <1>7, <2>1, <3>2 DEF Closed
    <3> QED
      BY <3>1, <3>2
  <2>3. h.type[m] \in Composite /\ h.child[m] # 0 => h.child[m] \in T
    BY <1>7, <2>1 DEF Closed
  <2> QED
    BY <2>2, <2>3
<1>12. HasCurrent(h, T)
  BY <1>5, <1>11 DEF Reached
<1> QED
  BY <1>5, <1>6, <1>10, <1>12 DEF HasCurrent

(* What '|' cuts off stays reached, below the alternation.                 *)
LEMMA SplitReached ==
  ASSUME NEW h, HeapInv(h), Reached(h), NEW S, OpenChain(h, S), h.size < MaxNodes,
         NEW s \in S, s # h.head, h.type[h.tail] = "T_UNKNOWN"
  PROVE  Reached(Split(h, s))
<1> DEFINE p == h.prev[s]
           a == h.size + 1
           x == h.tail
           g == Split(h, s)
<1>1. h \in HeapType
  BY DEF HeapInv
<1>2. /\ h.size \in Nat /\ h.next \in [Node -> Node \cup {0}]
      /\ h.type \in [Node -> NodeType] /\ h.child \in [Node -> Node \cup {0}]
      /\ Live(h) \subseteq Node /\ Node \subseteq Nat \ {0}
      /\ \A m \in Live(h) : m <= h.size
  BY <1>1, FieldTypes DEF Live
<1>3. /\ s \in Node /\ p \in Node /\ s \in Live(h) /\ p \in Live(h)
      /\ s >= h.head /\ x \in Node
  BY <1>2 DEF OpenChain
<1>4. h.next[p] = s /\ s # 0 /\ p # 0
  BY <1>2, <1>3 DEF HeapInv, LinksAgree, NULL
<1>5. /\ g \in HeapType /\ a \in Node
      /\ g.size = a /\ g.freed = h.freed /\ g.head = h.head /\ g.tail = a
      /\ g.data = h.data
      /\ g.child = [h.child EXCEPT ![a] = s]
      /\ g.type = [h.type EXCEPT ![h.tail] = "T_TRUE", ![a] = "T_ALTERNATION"]
      /\ g.prev = [h.prev EXCEPT ![s] = 0, ![a] = p]
      /\ g.next = [h.next EXCEPT ![p] = a]
  BY <1>1, <1>3, SplitFields
<1> HIDE DEF g
<1>6. /\ Live(h) \subseteq Live(g) /\ Live(g) \subseteq Live(h) \cup {a}
      /\ a \in Live(g) /\ a \notin Live(h) /\ a # 0
  <2>1. a \notin h.freed
    BY <1>2 DEF HeapInv, Fresh
  <2> QED
    BY <1>2, <1>5, <2>1 DEF Live
<1>7. /\ g.next[p] = a /\ g.child[a] = s /\ g.type[a] = "T_ALTERNATION"
      /\ \A m \in Live(h) : /\ m # x => g.type[m] = h.type[m]
                            /\ m # p => g.next[m] = h.next[m]
                            /\ g.child[m] = h.child[m]
  <2>1. \A m \in Live(h) : m \in Node /\ m # a
    BY <1>2, <1>6
  <2>2. g.next[p] = a
    BY <1>2, <1>3, <1>5
  <2>3. g.child[a] = s /\ g.type[a] = "T_ALTERNATION"
    BY <1>2, <1>5
  <2>4. \A m \in Live(h) : m # x => g.type[m] = h.type[m]
    BY <1>2, <1>5, <2>1
  <2>5. \A m \in Live(h) : /\ m # p => g.next[m] = h.next[m]
                           /\ g.child[m] = h.child[m]
    BY <1>2, <1>5, <2>1
  <2> QED
    BY <2>2, <2>3, <2>4, <2>5
<1>8. h.prev[h.head] = 0
  BY DEF HeapInv, EndsValid, NULL
<1>9. h.type[x] \notin Composite
  BY DEF Composite
<1> HIDE DEF x
<1> SUFFICES ASSUME NEW T, g.head \in T, Closed(g, T) PROVE HasCurrent(g, T)
  BY DEF Reached, g
<1>10. ASSUME NEW m \in Live(h), m \in T
       PROVE  /\ h.next[m] # 0 /\ m # p => h.next[m] \in T
              /\ h.type[m] \in Composite /\ h.child[m] # 0 => h.child[m] \in T
  BY <1>6, <1>7, <1>9, <1>10 DEF Closed
<1>11. p \in T
  <2> SUFFICES ASSUME p \notin T PROVE FALSE
    OBVIOUS
  <2> DEFINE U == T \ {s}
  <2>1. Closed(h, U)
    <3> SUFFICES ASSUME NEW m \in Live(h) \cap U
                 PROVE  /\ h.next[m] # 0 => h.next[m] \in U
                        /\ h.type[m] \in Composite /\ h.child[m] # 0 => h.child[m] \in U
      BY DEF Closed
    <3>1. m \in Live(h) /\ m \in T /\ m # p
      OBVIOUS
    <3>2. h.next[m] # s /\ ~(h.type[m] \in Composite /\ h.child[m] = s)
      BY <1>3, <1>4, <3>1, OnlyLink
    <3> QED
      BY <1>10, <3>1, <3>2
  <2>2. h.head \in U
    BY <1>5
  <2>3. HasCurrent(h, U)
    BY <2>1, <2>2 DEF Reached
  <2> QED
    BY <1>3, <2>3 DEF HasCurrent
<1>12. a \in T /\ s \in T
  <2>1. a \in T
    BY <1>3, <1>6, <1>7, <1>11 DEF Closed
  <2> QED
    BY <1>4, <1>6, <1>7, <2>1 DEF Closed, Composite
<1>13. Closed(h, T)
  BY <1>4, <1>10, <1>12 DEF Closed
<1>14. HasCurrent(h, T)
  BY <1>5, <1>13 DEF Reached
<1> QED
  BY <1>5, <1>6, <1>12, <1>14 DEF HasCurrent

(* What ')' moves stays reached, below its group.                          *)
LEMMA CloseGroupReached ==
  ASSUME NEW h, HeapInv(h), Reached(h), NEW S, OpenChain(h, S),
         NEW s \in S, h.type[s] = "T_GROUP_START", h.type[h.tail] = "T_UNKNOWN",
         h.next[s] # 0
  PROVE  Reached(CloseGroup(h, s))
<1> DEFINE f == h.next[s]
           x == h.tail
           g == CloseGroup(h, s)
<1>1. h \in HeapType
  BY DEF HeapInv
<1>2. /\ h.next \in [Node -> Node \cup {0}] /\ x \in Node
      /\ h.type \in [Node -> NodeType] /\ h.child \in [Node -> Node \cup {0}]
      /\ Live(h) \subseteq Node
  BY <1>1, FieldTypes DEF Live
<1>3. s \in Live(h) /\ s \in Node /\ f \in Node /\ s # x /\ f # 0
  BY <1>2 DEF OpenChain
<1>4. /\ g \in HeapType
      /\ g.size = h.size /\ g.freed = h.freed /\ g.head = h.head /\ g.tail = s
      /\ g.data = h.data
      /\ g.child = [h.child EXCEPT ![s] = f]
      /\ g.type = [h.type EXCEPT ![s] = "T_GROUP", ![h.tail] = "T_TRUE"]
      /\ g.prev = [h.prev EXCEPT ![f] = 0]
      /\ g.next = [h.next EXCEPT ![s] = 0]
  BY <1>1, <1>3, CloseGroupFields
<1> HIDE DEF g
<1>5. Live(g) = Live(h)
  BY <1>4 DEF Live
<1>6. g.type[s] = "T_GROUP" /\ g.child[s] = f
  BY <1>2, <1>3, <1>4
<1>7. \A m \in Live(h) : /\ m \notin {s, x} => g.type[m] = h.type[m]
                         /\ m # s => g.next[m] = h.next[m] /\ g.child[m] = h.child[m]
  BY <1>2, <1>4
<1>8. h.type[s] \notin Composite /\ h.type[x] \notin Composite
  BY DEF Composite
<1> HIDE DEF x
<1> SUFFICES ASSUME NEW T, g.head \in T, Closed(g, T) PROVE HasCurrent(g, T)
  BY DEF Reached, g
<1>9. Closed(h, T)
  <2> SUFFICES ASSUME NEW m \in Live(h) \cap T
               PROVE  /\ h.next[m] # 0 => h.next[m] \in T
                      /\ h.type[m] \in Composite /\ h.child[m] # 0 => h.child[m] \in T
    BY DEF Closed
  <2>1. CASE m = s
    BY <1>3, <1>5, <1>6, <1>8, <2>1 DEF Closed, Composite
  <2>2. CASE m # s
    BY <1>5, <1>7, <1>8, <2>2 DEF Closed
  <2> QED
    BY <2>1, <2>2
<1>10. HasCurrent(h, T)
  BY <1>4, <1>9 DEF Reached
<1> QED
  BY <1>4, <1>5, <1>10 DEF HasCurrent

(* _add_char: merging into the string before changes no link but the last. *)
LEMMA AddCharReached ==
  ASSUME NEW h, HeapInv(h), Reached(h), NEW S, OpenChain(h, S),
         NEW n, n = h.tail, n # h.head, h.type[n] = "T_UNKNOWN",
         NEW c \in Char, NEW g, g = AddChar(h, n, c)
  PROVE  Reached(g)
<1> DEFINE p == h.prev[n]
<1>1. h \in HeapType /\ n \notin {0} /\ h.type[n] \notin Composite
  BY FieldTypes DEF HeapInv, Composite
<1>2. CASE CanAppend(h, p)
  <2> DEFINE k == [h EXCEPT !.data[p].str = Append(@, c)]
             r == RemoveSelf(h, n)
  <2>1. /\ k.size = h.size /\ k.freed = h.freed /\ k.head = h.head
        /\ k.next = h.next /\ k.prev = h.prev /\ k.child = h.child /\ k.type = h.type
        /\ DOMAIN k = DOMAIN h
    BY <1>1 DEF HeapType
  <2>2. g = RemoveSelf(k, n)
    BY <1>2 DEF AddChar
  <2> HIDE DEF k
  <2>3. /\ g.size = r.size /\ g.freed = r.freed /\ g.head = r.head
        /\ g.next = r.next /\ g.type = r.type /\ g.child = r.child
    BY <1>1, <2>1, <2>2 DEF RemoveSelf, HeapType
  <2>4. Reached(r)
    BY <1>1, RemoveSelfReached
  <2> HIDE DEF r
  <2> QED
    BY <2>3, <2>4, MoreLinks
<1>3. CASE ~CanAppend(h, p)
  <2> DEFINE d == [Zeroed EXCEPT !.str = <<c>>]
  <2>1. g = [h EXCEPT !.type[n] = "T_STRING", !.child[n] = NULL, !.data[n] = d]
    BY <1>3 DEF AddChar
  <2> HIDE DEF d
  <2>2. /\ g.size = h.size /\ g.freed = h.freed /\ g.head = h.head /\ g.next = h.next
        /\ g.type = [h.type EXCEPT ![n] = "T_STRING"]
        /\ g.child = [h.child EXCEPT ![n] = NULL]
    BY <1>1, <2>1 DEF HeapType
  <2>3. /\ h.type \in [Node -> NodeType] /\ h.child \in [Node -> Node \cup {0}]
        /\ Live(h) \subseteq Node
    BY <1>1, FieldTypes DEF Live
  <2>4. \A m \in Live(h) : h.type[m] \in Composite /\ h.child[m] # 0 =>
          g.type[m] \in Composite /\ g.child[m] = h.child[m]
    BY <1>1, <2>2, <2>3
  <2> HIDE DEF p
  <2>5. g.size = h.size /\ g.freed = h.freed /\ g.head = h.head /\ g.next = h.next
    BY <2>2
  <2> QED
    BY <2>4, <2>5, MoreLinks
<1> QED
  BY <1>2, <1>3

(* A quantifier's new node, and the operand it takes where it has one.     *)
LEMMA QuantifierReached ==
  ASSUME NEW h, Chained(h), Reached(h), h.size + 2 <= MaxNodes,
         NEW min \in Nat, NEW max \in Nat, NEW n, n = h.size + 1,
         NEW g, g = SetQuantifier(AddNode(h), n, min, max)
  PROVE  Reached(g) /\ (HasOperand(g, n) => Reached(Adopt(g, n)))
<1> DEFINE d == [Zeroed EXCEPT !.min = min, !.max = max]
           k == AddNode(h)
<1>1. d \in DataType /\ "T_QUANTIFIER" \in NodeType /\ "T_QUANTIFIER" # "T_ROOT"
  <2>1. d \in DataType
    BY ZeroedType DEF DataType
  <2> QED
    BY <2>1 DEF NodeType, Composite
<1>2. g = Label(k, n, "T_QUANTIFIER", d)
  BY DEF SetQuantifier
<1>3. h.size < MaxNodes /\ n < MaxNodes /\ HeapInv(h)
  BY BoundAssumption, FieldTypes DEF Chained, HeapInv
<1> HIDE DEF d
<1>4. /\ Chained(g) /\ g.tail = n /\ n # g.head /\ g.size = n
      /\ g.type[n] = "T_QUANTIFIER" /\ g.child[n] = 0
  BY <1>1, <1>2, <1>3, NewNodeInv
<1>5. k \in HeapType /\ k.child[n] = 0 /\ n \in Node
  BY <1>3, NewNode
<1>6. Reached(k)
  <2>1. PICK S : OpenChain(h, S)
    BY DEF Chained
  <2> QED
    BY <1>3, <2>1, AddNodeReached
<1> HIDE DEF k
<1>7. Reached(g)
  BY <1>1, <1>2, <1>5, <1>6, LabelReached
<1>8. ASSUME HasOperand(g, n) PROVE Reached(Adopt(g, n))
  <2>1. PICK S : OpenChain(g, S)
    BY <1>4 DEF Chained
  <2>2. HeapInv(g) /\ g.prev[n] # g.head /\ g.size < MaxNodes
    BY <1>3, <1>4, <1>8 DEF Chained, HasOperand
  <2> QED
    BY <1>4, <1>7, <2>1, <2>2, AdoptReached
<1> QED
  BY <1>7, <1>8

-----------------------------------------------------------------------------
(* _node_free: a node gives way to what it leads to.                       *)
LEMMA FreePending ==
  ASSUME NEW h \in HeapType, NEW td \in Seq(Node \cup {0}), td # <<>>, Pending(h, td),
         NEW n, n = Head(td), n # 0,
         NEW g, g = [h EXCEPT !.freed = @ \cup {n}],
         NEW b \in Seq(Node \cup {0}),
         b = IF h.type[n] \in Composite THEN <<h.child[n], h.next[n]>> ELSE <<h.next[n]>>
  PROVE  Pending(g, b \o Tail(td))
<1> DEFINE u == b \o Tail(td)
<1>1. /\ g.size = h.size /\ g.freed = h.freed \cup {n} /\ g.head = h.head
      /\ g.type = h.type /\ g.child = h.child /\ g.next = h.next
  BY DEF HeapType
<1>2. Live(g) = Live(h) \ {n}
  BY <1>1 DEF Live
<1>3. \A i \in DOMAIN td : td[i] = n \/ \E j \in DOMAIN u : u[j] = td[i]
  <2> SUFFICES ASSUME NEW i \in DOMAIN td, td[i] # n
               PROVE  \E j \in DOMAIN u : u[j] = td[i]
    OBVIOUS
  <2>1. /\ Len(td) \in Nat /\ Len(b) \in Nat /\ i \in 1 .. Len(td) /\ i # 1
        /\ Tail(td) \in Seq(Node \cup {0}) /\ Len(Tail(td)) = Len(td) - 1
        /\ Tail(td)[i - 1] = td[i]
    BY EmptySeq, LenProperties, HeadTailProperties
  <2>2. /\ u \in Seq(Node \cup {0}) /\ Len(u) = Len(b) + Len(Tail(td))
        /\ u[Len(b) + (i - 1)] = Tail(td)[i - 1]
    BY <2>1, ConcatProperties
  <2>3. Len(b) + (i - 1) \in DOMAIN u
    BY <2>1, <2>2, LenProperties
  <2> QED
    BY <2>1, <2>2, <2>3
<1>4. \A i \in DOMAIN b : i \in DOMAIN u /\ u[i] = b[i]
  <2> SUFFICES ASSUME NEW i \in DOMAIN b PROVE i \in DOMAIN u /\ u[i] = b[i]
    OBVIOUS
  <2>1. /\ Tail(td) \in Seq(Node \cup {0}) /\ Len(Tail(td)) \in Nat
        /\ Len(b) \in Nat /\ i \in 1 .. Len(b)
    BY HeadTailProperties, EmptySeq, LenProperties
  <2>2. /\ u \in Seq(Node \cup {0}) /\ Len(u) = Len(b) + Len(Tail(td))
        /\ u[i] = b[i]
    BY <2>1, ConcatProperties
  <2> QED
    BY <2>1, <2>2, LenProperties
<1>5. /\ \E i \in DOMAIN b : b[i] = h.next[n]
      /\ h.type[n] \in Composite => \E i \in DOMAIN b : b[i] = h.child[n]
  <2>1. CASE h.type[n] \in Composite
    <3>1. b = <<h.child[n], h.next[n]>>
      BY <2>1
    <3>2. 1 \in DOMAIN b /\ 2 \in DOMAIN b /\ b[1] = h.child[n] /\ b[2] = h.next[n]
      BY <3>1
    <3> QED
      BY <3>2
  <2>2. CASE h.type[n] \notin Composite
    <3>1. b = <<h.next[n]>>
      BY <2>2
    <3>2. 1 \in DOMAIN b /\ b[1] = h.next[n]
      BY <3>1
    <3> QED
      BY <2>2, <3>2
  <2> QED
    BY <2>1, <2>2
<1> HIDE DEF u
<1>6. ASSUME NEW T, \A i \in DOMAIN u : u[i] # 0 => u[i] \in T, Closed(g, T)
      PROVE  HasCurrent(g, T)
  <2> DEFINE U == T \cup {n}
  <2>1. \A i \in DOMAIN td : td[i] # 0 => td[i] \in U
    BY <1>3, <1>6
  <2>2. /\ h.next[n] # 0 => h.next[n] \in T
        /\ h.type[n] \in Composite /\ h.child[n] # 0 => h.child[n] \in T
    BY <1>4, <1>5, <1>6
  <2>3. Closed(h, U)
    BY <1>1, <1>2, <1>6, <2>2 DEF Closed
  <2>4. HasCurrent(h, U)
    BY <2>1, <2>3 DEF Pending
  <2> QED
    BY <1>1, <1>2, <2>4 DEF HasCurrent
<1>7. Pending(g, u)
  BY <1>6 DEF Pending
<1> QED
  BY <1>7 DEF u

-----------------------------------------------------------------------------
(* The current pattern between two fragments, or in a hunt for '|'.        *)
LEMMA StillReached ==
  ASSUME Reached(re'),
         \/ pc' \in {"idle", "parse", "close", "error"}
         \/ pc' = "bar" /\ re'.type[re'.tail] = "T_UNKNOWN"
  PROVE  FreeIInv'
BY DEF FreeIInv

(* Reading one fragment forgets no node.                                   *)
LEMMA ParseReached ==
  ASSUME IInv, FreeIInv, NoBraces,
         NEW f \in Fragments \cup {RBrace} \cup MacroFragments, Parse(f)
  PROVE  FreeIInv'
<1> DEFINE n == re.size + 1
           k == AddNode(re)
<1>0. Read(f)
  BY DEF Parse, ParseAtom, ParseChar, ParseOpen, ParseQuantifier, ParseQuestion,
         ParseBrace, ParseBar, ParseClose, ParseMacro, ParseBad
<1>1. /\ Chained(re) /\ re.size < MaxNodes /\ re.size + 2 <= MaxNodes
      /\ f \in AllFragments /\ Reached(re) /\ pc = "parse"
  BY <1>0, ReadFacts DEF FreeIInv, Read, Readable
<1>2. /\ k \in HeapType /\ Chained(k) /\ k.tail = n /\ n # k.head
      /\ k.child[n] = 0 /\ k.prev[n] = re.tail /\ n \in Node
      /\ k.type[n] = "T_UNKNOWN"
  BY <1>1, NewNode
<1>3. HeapInv(k) /\ Reached(k) /\ \E S : OpenChain(k, S)
  BY <1>1, <1>2, AddNodeReached DEF Chained
<1>4. PICK S : OpenChain(k, S)
  BY <1>3
<1>5. ASSUME NEW ty \in NodeType, NEW d \in DataType, re' = Label(AddNode(re), n, ty, d)
      PROVE  Reached(re')
  BY <1>2, <1>3, <1>5, LabelReached
<1> HIDE DEF k
<1>6. CASE ParseAtom(f)
  <2>1. f.t \in NodeType
    BY <1>1, <1>6, FragmentFields DEF ParseAtom, NodeType
  <2>2. Reached(re')
    BY <1>5, <1>6, <2>1, ZeroedType DEF ParseAtom
  <2> QED
    BY <1>6, <2>2, StillReached DEF ParseAtom, Continue
<1>7. CASE ParseChar(f)
  <2>1. f.c \in Char /\ re' = AddChar(k, n, f.c)
    BY <1>1, <1>7, FragmentFields DEF ParseChar, k
  <2>2. Reached(re')
    BY <1>2, <1>3, <1>4, <2>1, AddCharReached
  <2> QED
    BY <1>7, <2>2, StillReached DEF ParseChar, Continue
<1>8. CASE ParseOpen(f)
  <2> DEFINE d == [Zeroed EXCEPT !.look = f.look, !.inv = f.inv]
  <2>1. d \in DataType
    <3>1. f.look \in BOOLEAN /\ f.inv \in BOOLEAN
      BY <1>1, <1>8, FragmentFields DEF ParseOpen
    <3> QED
      BY <3>1, ZeroedType DEF DataType
  <2>2. re' = Label(AddNode(re), n, "T_GROUP_START", d)
    BY <1>8 DEF ParseOpen
  <2> HIDE DEF d
  <2>3. "T_GROUP_START" \in NodeType
    BY DEF NodeType
  <2>4. Reached(re')
    BY <1>5, <2>1, <2>2, <2>3
  <2> QED
    BY <1>8, <2>4, StillReached DEF ParseOpen, Continue
<1>9. CASE ParseQuantifier(f)
  <2> DEFINE h == SetQuantifier(AddNode(re), n, f.min, f.max)
  <2>1. f.min \in Nat /\ f.max \in Nat
    BY <1>1, <1>9, FragmentFields DEF ParseQuantifier
  <2>2. Reached(h) /\ (HasOperand(h, n) => Reached(Adopt(h, n)))
    BY <1>1, <2>1, QuantifierReached
  <2>3. \/ HasOperand(h, n) /\ re' = Adopt(h, n) /\ pc' = "parse"
        \/ re' = h /\ pc' = "error"
    BY <1>9 DEF ParseQuantifier, Continue, Fail
  <2> HIDE DEF h
  <2> QED
    BY <2>2, <2>3, StillReached
<1>10. CASE ParseQuestion(f)
  <2> DEFINE h == SetQuantifier(AddNode(re), n, 0, 1)
             l == SetLazy(k, k.prev[n])
  <2>1. Reached(h) /\ (HasOperand(h, n) => Reached(Adopt(h, n)))
    BY <1>1, QuantifierReached
  <2>2. \/ re' = RemoveSelf(l, n) /\ pc' = "parse"
        \/ HasOperand(h, n) /\ re' = Adopt(h, n) /\ pc' = "parse"
        \/ re' = h /\ pc' = "error"
    BY <1>10 DEF ParseQuestion, Continue, Fail, k
  <2>3. Reached(RemoveSelf(l, n))
    <3>1. k.prev[n] \in S
      BY <1>2, <1>4 DEF OpenChain
    <3>2. /\ HeapInv(l) /\ OpenChain(l, S)
          /\ l.type = k.type /\ l.tail = k.tail /\ l.head = k.head
      BY <1>3, <1>4, <3>1, SetLazyInv
    <3>3. l.size = k.size /\ l.freed = k.freed /\ l.next = k.next /\ l.child = k.child
      BY <1>2 DEF SetLazy, HeapType
    <3> HIDE DEF l
    <3>4. Reached(l)
      BY <1>3, <3>2, <3>3, MoreLinks
    <3>5. n = l.tail /\ n # l.head /\ l.type[n] \notin Composite
      BY <1>2, <3>2 DEF Composite
    <3> QED
      BY <3>2, <3>4, <3>5, RemoveSelfReached
  <2> HIDE DEF h, l
  <2> QED
    BY <2>1, <2>2, <2>3, StillReached
<1>11. CASE ParseBrace(f)
  <2>1. f.k = "brace" /\ RBrace.k = "char"
    BY <1>11 DEF ParseBrace, RBrace
  <2>2. f.k = "char" \/ f \in Fragments \cup MacroFragments
    BY <2>1
  <2> QED
    BY <2>1, <2>2 DEF NoBraces
<1>12. CASE ParseBar(f)
  BY <1>2, <1>3, <1>12, StillReached DEF ParseBar, k
<1>13. CASE ParseClose(f)
  BY <1>3, <1>13, StillReached DEF ParseClose, k
<1>14. CASE ParseMacro(f)
  <2>1. re' = RemoveSelf(k, n) /\ pc' \in {"parse", "error"}
    BY <1>1, <1>14 DEF ParseMacro, Fail, k
  <2>2. k.type[n] \notin Composite
    BY <1>2 DEF Composite
  <2>3. Reached(re')
    BY <1>2, <1>3, <1>4, <2>1, <2>2, RemoveSelfReached
  <2> QED
    BY <2>1, <2>3, StillReached
<1>15. CASE ParseBad(f)
  <2>1. f.t \in NodeType
    BY <1>1, <1>15, FragmentFields DEF ParseBad, NodeType, AtomType
  <2>2. Reached(re')
    BY <1>5, <1>15, <2>1, ZeroedType DEF ParseBad
  <2> QED
    BY <1>15, <2>2, StillReached DEF ParseBad, Fail
<1> QED
  BY <1>6, <1>7, <1>8, <1>9, <1>10, <1>11, <1>12, <1>13, <1>14, <1>15 DEF Parse

(* Hunting backwards, and what comes of it, forgets no node.               *)
LEMMA HuntReached ==
  ASSUME IInv, FreeIInv, NoBraces, Hunt
  PROVE  FreeIInv'
<1>1. CASE pc = "bar"
  <2>1. /\ HeapInv(re) /\ re.tail # re.head /\ scan # re.head
        /\ Reached(re) /\ re.type[re.tail] = "T_UNKNOWN"
    BY <1>1 DEF IInv, HeapIInv, FreeIInv
  <2>2. PICK S : OpenChain(re, S) /\ scan \in S
    BY <1>1 DEF IInv, HeapIInv
  <2>3. CASE BarBack
    BY <1>1, <2>1, <2>3, StillReached DEF BarBack
  <2>4. CASE BarLiteral
    <3>1. re' = AddChar(re, re.tail, BarChar) /\ pc' = "parse" /\ BarChar \in Char
      BY <2>4, CharAssumption DEF BarLiteral, BarChar
    <3>2. Reached(re')
      BY <2>1, <2>2, <3>1, AddCharReached
    <3> QED
      BY <3>1, <3>2, StillReached
  <2>5. CASE BarSplit
    <3>1. re' = Split(re, scan) /\ pc' = "parse" /\ re.size < MaxNodes
      BY <2>5 DEF BarSplit
    <3>2. Reached(re')
      BY <2>1, <2>2, <3>1, SplitReached
    <3> QED
      BY <3>1, <3>2, StillReached
  <2> QED
    BY <1>1, <2>3, <2>4, <2>5 DEF Hunt, CloseBack, CloseLiteral, CloseMatch
<1>2. CASE pc = "close"
  <2>1. /\ HeapInv(re) /\ re.tail # re.head /\ scan # re.tail
        /\ Reached(re) /\ re.type[re.tail] = "T_UNKNOWN"
    BY <1>2 DEF IInv, HeapIInv, FreeIInv
  <2>2. PICK S : OpenChain(re, S) /\ (scan # 0 => scan \in S)
    BY <1>2 DEF IInv, HeapIInv
  <2>3. CASE CloseBack
    BY <1>2, <2>1, <2>3, StillReached DEF CloseBack
  <2>4. CASE CloseLiteral
    <3>1. re' = AddChar(re, re.tail, ")") /\ pc' = "parse" /\ ")" \in Char
      BY <2>4, CharAssumption DEF CloseLiteral
    <3>2. Reached(re')
      BY <2>1, <2>2, <3>1, AddCharReached
    <3> QED
      BY <3>1, <3>2, StillReached
  <2>5. CASE CloseMatch
    <3>1. /\ re' = CloseGroup(re, scan) /\ pc' = "parse"
          /\ scan \in S /\ re.type[scan] = "T_GROUP_START"
      BY <2>2, <2>5 DEF CloseMatch, NULL
    <3>2. re.next[scan] # 0
      BY <2>1, <2>2, <3>1, CloseGroupInv
    <3>3. Reached(re')
      BY <2>1, <2>2, <3>1, <3>2, CloseGroupReached
    <3> QED
      BY <3>1, <3>3, StillReached
  <2> QED
    BY <1>2, <2>3, <2>4, <2>5 DEF Hunt, BarBack, BarLiteral, BarSplit
<1> QED
  BY <1>1, <1>2 DEF Hunt, BarBack, BarLiteral, BarSplit, CloseBack, CloseLiteral, CloseMatch

(* Every step keeps the current pattern, or what is left of it, reached.   *)
LEMMA FreeStep ==
  ASSUME IInv, FreeIInv, [Next]_vars
  PROVE  FreeIInv'
<1> SUFFICES ASSUME NoBraces PROVE FreeIInv'
  BY DEF FreeIInv
<1>1. re \in HeapType /\ todo \in Seq(Node \cup {0})
  BY DEF IInv, HeapIInv, ControlType, NULL
<1>2. ASSUME NEW m \in MacroDefs, AddMacro(m) PROVE FreeIInv'
  BY <1>2 DEF AddMacro, FreeIInv
<1>3. CASE BeginPattern
  BY <1>3, StillReached DEF BeginPattern, Callable, FreeIInv
<1>4. CASE EndMacro
  BY <1>4, StillReached DEF EndMacro, FreeIInv
<1>5. CASE EndPattern
  <2> DEFINE t == Terminate(re, re.tail)
             r == re.size + 2
  <2>1. re.size \in Nat /\ re.size + 2 <= MaxNodes /\ re.tail \in Node /\ MaxNodes \in Nat
    BY <1>1, <1>5, FieldTypes, BoundAssumption DEF EndPattern
  <2>2. DOMAIN t = DOMAIN re /\ t.size = re.size + 1
    BY <1>1 DEF Terminate, HeapType
  <2> HIDE DEF t
  <2>3. re' = AddRoot(t) /\ pc' = "idle"
    BY <1>5 DEF EndPattern, t
  <2>4. re'.size = r /\ re'.head = r
    <3>1. re'.size = t.size + 1 /\ re'.head = t.size + 1
      BY <1>1, <2>2, <2>3 DEF AddRoot, HeapType
    <3> QED
      BY <2>1, <2>2, <3>1
  <2>5. Live(re') \subseteq 1 .. r
    BY <2>4 DEF Live
  <2>6. Reached(re')
    BY <2>1, <2>4, <2>5 DEF Reached, HasCurrent
  <2> QED
    BY <2>3, <2>6, StillReached
<1>6. CASE BeginFree
  <2>1. /\ re' = re /\ todo' = <<re.head>> /\ pc' = "freeing" /\ Reached(re)
        /\ HeapInv(re)
    BY <1>6 DEF BeginFree, FreeIInv, IInv, HeapIInv, Chained
  <2> DEFINE td == <<re.head>>
  <2>2. 1 \in DOMAIN td /\ td[1] = re.head /\ re.head # 0
    BY <1>1, FieldTypes
  <2> HIDE DEF td
  <2>3. Pending(re, td)
    BY <2>1, <2>2 DEF Pending, Reached
  <2> QED
    BY <2>1, <2>3 DEF FreeIInv, td
<1>7. CASE FreeNode
  <2>1. pc = "freeing" /\ pc' = "freeing" /\ todo # <<>> /\ Pending(re, todo)
    BY <1>7 DEF FreeNode, FreeIInv
  <2>2. CASE Head(todo) = 0 /\ todo' = Tail(todo) /\ re' = re
    <3>1. \A i \in DOMAIN todo : todo[i] # 0 =>
            \E j \in DOMAIN todo' : todo'[j] = todo[i]
      <4> SUFFICES ASSUME NEW i \in DOMAIN todo, todo[i] # 0
                   PROVE  \E j \in DOMAIN todo' : todo'[j] = todo[i]
        OBVIOUS
      <4>1. /\ Len(todo) \in Nat /\ i \in 1 .. Len(todo) /\ i # 1
            /\ todo' \in Seq(Node \cup {0}) /\ Len(todo') = Len(todo) - 1
            /\ todo'[i - 1] = todo[i]
        BY <1>1, <2>1, <2>2, EmptySeq, LenProperties, HeadTailProperties
      <4>2. i - 1 \in DOMAIN todo'
        BY <4>1, LenProperties
      <4> QED
        BY <4>1, <4>2
    <3>2. Pending(re, todo')
      BY <2>1, <3>1 DEF Pending
    <3> QED
      BY <2>1, <2>2, <3>2 DEF FreeIInv
  <2>3. CASE /\ Head(todo) # 0 /\ todo' = Below(Head(todo)) \o Tail(todo)
             /\ re' = [re EXCEPT !.freed = @ \cup {Head(todo)}]
    <3> DEFINE n == Head(todo)
    <3>1. n \in Node
      BY <1>1, <2>1, <2>3, HeadTailProperties
    <3>2. re.next[n] \in Node \cup {0} /\ re.child[n] \in Node \cup {0}
      BY <1>1, <3>1, FieldTypes
    <3>3. /\ Below(n) \in Seq(Node \cup {0})
          /\ Below(n) = IF re.type[n] \in Composite
                          THEN <<re.child[n], re.next[n]>> ELSE <<re.next[n]>>
      <4>1. <<re.next[n]>> \in Seq(Node \cup {0})
        BY <3>2
      <4>2. <<re.child[n], re.next[n]>> \in Seq(Node \cup {0})
        BY <3>2
      <4> QED
        BY <4>1, <4>2 DEF Below
    <3>4. Pending(re', todo')
      BY <1>1, <2>1, <2>3, <3>3, FreePending
    <3> QED
      BY <2>1, <3>4 DEF FreeIInv
  <2> QED
    BY <1>7, <2>2, <2>3 DEF FreeNode, NULL
<1>8. CASE EndFree
  <2>1. Pending(re, <<>>) /\ re' = re /\ pc' = "freed"
    BY <1>8 DEF EndFree, FreeIInv
  <2>2. Closed(re, {}) /\ DOMAIN <<>> = {}
    BY DEF Closed
  <2>3. HasCurrent(re, {})
    BY <2>1, <2>2 DEF Pending
  <2>4. \A n \in Live(re) : n \in Nat /\ re.head \in Nat
    BY <1>1, FieldTypes DEF Live
  <2>5. \A n \in Live(re) : n < re.head
    BY <2>3, <2>4 DEF HasCurrent
  <2> QED
    BY <2>1, <2>5 DEF FreeIInv
<1>9. CASE UNCHANGED vars
  BY <1>9 DEF vars, FreeIInv
<1> QED
  BY <1>2, <1>3, <1>4, <1>5, <1>6, <1>7, <1>8, <1>9, ParseReached, HuntReached DEF Next

-----------------------------------------------------------------------------
(* FreesUnfinished: regexx_free releases every node of the pattern under   *)
(* construction, with open groups, half a fragment or an alternation       *)
(* without a right side, whatever came before; only the operands that      *)
(* "{2,3}" has cut off are lost.                                           *)
THEOREM FreesAll == Spec => []FreesUnfinished
<1>1. Init => FreeIInv
  <2> SUFFICES ASSUME Init PROVE FreeIInv
    OBVIOUS
  <2>1. re.size = 1 /\ re.head = 1 /\ pc = "idle"
    BY DEF Init, NewHeap
  <2>2. Reached(re)
    BY <2>1 DEF Reached, HasCurrent, Live
  <2> QED
    BY <2>1, <2>2 DEF FreeIInv
<1>2. IInv /\ FreeIInv /\ [Next]_vars => FreeIInv'
  BY FreeStep
<1>3. FreeIInv => FreesUnfinished
  BY DEF FreeIInv, NoBraces, FreesUnfinished
<1> QED
  BY <1>1, <1>2, <1>3, Inductive, PTL DEF Spec
=============================================================================
