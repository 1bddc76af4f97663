-------------------------- MODULE RegexHeapProofs ---------------------------
(***************************************************************************)
(* One lemma for each piece of pointer surgery of regexx.c: the fields it  *)
(* writes (...Fields) and that it keeps the heap a forest of closed chains *)
(* plus the one open chain from head to tail (...Inv). Nodes below head    *)
(* belong to accepted patterns, and no operation writes them.              *)
(***************************************************************************)
EXTENDS RegexCompile, SequenceTheorems, TLAPS


(* The part of the heap that was never handed out is blank.                *)
Fresh(h) ==
  /\ h.freed \subseteq 1 .. h.size
  /\ \A n \in Node : n > h.size =>
       /\ h.type[n] = "T_UNKNOWN" /\ h.child[n] = NULL
       /\ h.next[n] = NULL /\ h.prev[n] = NULL

(* No link leads from the current pattern, whose nodes have ids from head  *)
(* up, back into an accepted one; a root starts its chain.                 *)
Region(h) ==
  \A n \in Live(h) :
    /\ h.type[n] = "T_ROOT" => h.prev[n] = NULL
    /\ n >= h.head =>
       /\ h.next[n] # NULL => h.next[n] >= h.head
       /\ h.prev[n] # NULL => h.prev[n] >= h.head
       /\ h.type[n] \in Composite /\ h.child[n] # NULL => h.child[n] >= h.head

(* What holds of the heap between any two steps of a call.                 *)
HeapInv(h) ==
  /\ h \in HeapType
  /\ Fresh(h)
  /\ EndsValid(h)
  /\ LinksAgree(h)
  /\ NeverShared(h)
  /\ ChainsTerminated(h)
  /\ Region(h)

(* S holds the nodes of the chain that is being extended, found by walking *)
(* prev from tail to head. The set replaces the path: no recursion is      *)
(* needed to say that the walk stays on live nodes and ends at head.       *)
OpenChain(h, S) ==
  /\ S \subseteq Live(h)
  /\ h.head \in S
  /\ h.tail \in S
  /\ \A n \in S : n >= h.head /\ (n # h.head => h.prev[n] \in S)

(* g holds the nodes of the patterns before h's current one as h does.     *)
SameBelow(h, g) ==
  \A n \in 1 .. h.head - 1 :
    /\ g.type[n] = h.type[n] /\ g.data[n] = h.data[n]
    /\ g.next[n] = h.next[n] /\ g.prev[n] = h.prev[n]
    /\ g.child[n] = h.child[n]
    /\ n \in g.freed <=> n \in h.freed

(* _add_node writes the new node's prev, the old tail's next, and tail.    *)
LEMMA AddNodeFields ==
  ASSUME NEW h \in HeapType, h.size < MaxNodes
  PROVE  LET g == AddNode(h)
             n == h.size + 1
         IN  /\ n \in Node
             /\ g \in HeapType
             /\ g.size = n /\ g.freed = h.freed /\ g.head = h.head /\ g.tail = n
             /\ g.type = h.type /\ g.child = h.child /\ g.data = h.data
             /\ g.prev = [h.prev EXCEPT ![n] = h.tail]
             /\ g.next = [h.next EXCEPT ![h.tail] = n]
<1> DEFINE g == AddNode(h)
           n == h.size + 1
<1>1. n \in Node /\ n \in 1 .. MaxNodes
  BY BoundAssumption DEF HeapType, Node
<1>2. /\ g.size = n /\ g.freed = h.freed /\ g.head = h.head /\ g.tail = n
      /\ g.type = h.type /\ g.child = h.child /\ g.data = h.data
  BY DEF AddNode, HeapType
<1>3. /\ g.prev = [h.prev EXCEPT ![n] = h.tail]
      /\ g.next = [h.next EXCEPT ![h.tail] = n]
  BY DEF AddNode, HeapType
<1>4. g \in HeapType
  BY <1>1 DEF AddNode, HeapType
<1> QED
  BY <1>1, <1>2, <1>3, <1>4

(* The types of a heap's fields, spelled out for the provers.              *)
LEMMA FieldTypes ==
  ASSUME NEW h \in HeapType
  PROVE  /\ h.size \in Nat /\ h.head \in Nat /\ h.tail \in Nat
         /\ h.head \in Node /\ h.tail \in Node /\ 1 .. h.head - 1 \subseteq Node
         /\ h.type \in [Node -> NodeType]
         /\ h.next \in [Node -> Node \cup {0}]
         /\ h.prev \in [Node -> Node \cup {0}]
         /\ h.child \in [Node -> Node \cup {0}]
         /\ Node \subseteq Nat \ {0} /\ 1 .. h.size \subseteq Node
BY BoundAssumption DEF HeapType, Node, NULL

(* _add_node extends the open chain by the new node.                       *)
LEMMA AddNodeInv ==
  ASSUME NEW h, HeapInv(h), h.size < MaxNodes, NEW S, OpenChain(h, S),
         NEW g, g = AddNode(h), NEW n, n = h.size + 1
  PROVE  /\ HeapInv(g)
         /\ OpenChain(g, S \cup {n})
         /\ SameBelow(h, g)
<1>1. h \in HeapType
  BY DEF HeapInv
<1>2. /\ n \in Node
      /\ g \in HeapType
      /\ g.size = n /\ g.freed = h.freed /\ g.head = h.head /\ g.tail = n
      /\ g.type = h.type /\ g.child = h.child /\ g.data = h.data
      /\ g.prev = [h.prev EXCEPT ![n] = h.tail]
      /\ g.next = [h.next EXCEPT ![h.tail] = n]
  BY <1>1, AddNodeFields
<1>3. /\ h.size \in Nat /\ h.head \in Nat /\ h.tail \in Nat
      /\ h.head \in Node /\ h.tail \in Node /\ 1 .. h.head - 1 \subseteq Node
      /\ h.type \in [Node -> NodeType]
      /\ h.next \in [Node -> Node \cup {0}]
      /\ h.prev \in [Node -> Node \cup {0}]
      /\ h.child \in [Node -> Node \cup {0}]
      /\ Node \subseteq Nat \ {0} /\ 1 .. h.size \subseteq Node
  BY <1>1, FieldTypes
<1>4. /\ h.tail \in Live(h) /\ h.head \in Live(h)
      /\ \A m \in Live(h) : m \in Node /\ m < n
      /\ n \in Nat
  BY <1>1, <1>3 DEF HeapInv, Live, EndsValid
<1>5. Fresh(g)
  BY <1>2, <1>3 DEF HeapInv, Fresh, Live, NULL, EndsValid
<1>6. Live(g) = Live(h) \cup {n} /\ n \notin Live(h)
  BY <1>1, <1>2, <1>3 DEF HeapInv, Fresh, Live
<1>7. /\ g.next[n] = 0 /\ g.prev[n] = h.tail
      /\ g.type[n] = "T_UNKNOWN" /\ g.child[n] = 0
  BY <1>2, <1>3, <1>4 DEF HeapInv, Fresh, NULL
<1>8. \A m \in Live(h) :
        /\ g.next[m] = IF m = h.tail THEN n ELSE h.next[m]
        /\ g.prev[m] = h.prev[m]
        /\ g.type[m] = h.type[m] /\ g.child[m] = h.child[m]
  BY <1>2, <1>3, <1>4
<1>9. h.next[h.tail] = 0
  BY DEF HeapInv, EndsValid, NULL
<1>10. EndsValid(g)
  BY <1>2, <1>3, <1>4, <1>6, <1>7, <1>8 DEF HeapInv, EndsValid, NULL
<1>11. LinksAgree(g)
  BY <1>2, <1>3, <1>4, <1>6, <1>7, <1>8, <1>9 DEF HeapInv, LinksAgree, NULL
<1>12. NeverShared(g)
  <2> SUFFICES ASSUME NEW m \in Live(g), NEW c \in Node, Owns(g, m, c)
               PROVE  /\ c \in Live(g) /\ g.prev[c] = NULL /\ g.type[c] # "T_ROOT"
                      /\ \A k \in Live(g) : Owns(g, k, c) => k = m
    BY DEF NeverShared
  <2>1. \A k \in Live(g) : Owns(g, k, c) => k \in Live(h) /\ Owns(h, k, c)
    BY <1>3, <1>6, <1>7, <1>8 DEF Owns
  <2> QED
    BY <2>1, <1>6, <1>8 DEF HeapInv, NeverShared
<1>13. ChainsTerminated(g)
  BY <1>2, <1>3, <1>4, <1>6, <1>7, <1>8, <1>9 DEF HeapInv, ChainsTerminated, NULL
<1>14. Region(g)
  <2>1. h.tail >= h.head
    BY DEF OpenChain
  <2>2. \A m \in Live(h) : m \in Nat
    BY <1>3, <1>4
  <2> QED
    BY <1>2, <1>3, <1>4, <1>6, <1>7, <1>8, <2>1, <2>2 DEF HeapInv, Region, NULL, Composite
<1>15. OpenChain(g, S \cup {n})
  <2>1. S \subseteq Live(h) /\ h.head \in S /\ h.tail \in S
    BY DEF OpenChain
  <2>2. \A m \in S : m >= h.head /\ (m # h.head => g.prev[m] \in S)
    BY <2>1, <1>8 DEF OpenChain
  <2>3. n >= h.head
    <3>1. h.head < n
      BY <1>4
    <3> QED
      BY <3>1, <1>3, <1>4
  <2> QED
    BY <1>2, <1>6, <1>7, <2>1, <2>2, <2>3 DEF OpenChain
<1>16. SameBelow(h, g)
  <2>1. h.tail >= h.head
    BY DEF OpenChain
  <2> QED
    BY <1>2, <1>3, <1>4, <2>1 DEF SameBelow
<1> QED
  BY <1>2, <1>5, <1>10, <1>11, <1>12, <1>13, <1>14, <1>15, <1>16 DEF HeapInv

-----------------------------------------------------------------------------
(* A node changes its type, its data or its child pointer, no link.        *)
LEMMA RelabelInv ==
  ASSUME NEW h, HeapInv(h), NEW S, OpenChain(h, S),
         NEW g \in HeapType, NEW n \in Live(h), n >= h.head,
         g.size = h.size, g.freed = h.freed, g.head = h.head, g.tail = h.tail,
         g.next = h.next, g.prev = h.prev,
         \A m \in Node : m # n => g.type[m] = h.type[m] /\ g.child[m] = h.child[m]
                                  /\ g.data[m] = h.data[m],
         \/ g.type[n] = h.type[n] /\ g.child[n] = h.child[n]
         \/ /\ n # h.head /\ n = h.tail
            /\ g.type[n] # "T_ROOT"
            /\ g.type[n] \in Composite => g.child[n] = 0
  PROVE  /\ HeapInv(g)
         /\ OpenChain(g, S)
         /\ SameBelow(h, g)
<1>1. h \in HeapType
  BY DEF HeapInv
<1>2. /\ h.size \in Nat /\ h.head \in Nat /\ h.tail \in Nat
      /\ h.head \in Node /\ h.tail \in Node /\ 1 .. h.head - 1 \subseteq Node
      /\ h.type \in [Node -> NodeType]
      /\ h.next \in [Node -> Node \cup {0}]
      /\ h.prev \in [Node -> Node \cup {0}]
      /\ h.child \in [Node -> Node \cup {0}]
      /\ Node \subseteq Nat \ {0} /\ 1 .. h.size \subseteq Node
  BY <1>1, FieldTypes
<1>3. /\ Live(g) = Live(h) /\ Live(h) \subseteq Node /\ Live(h) \subseteq 1 .. h.size
      /\ n \in Node
  BY <1>2 DEF Live
<1>4. Fresh(g)
  <2>1. n <= h.size
    BY <1>2, <1>3
  <2> QED
    BY <1>2, <1>3, <2>1 DEF HeapInv, Fresh
<1>5. EndsValid(g)
  BY <1>3, <1>2 DEF HeapInv, EndsValid
<1>6. LinksAgree(g)
  BY <1>3 DEF HeapInv, LinksAgree
<1>7. NeverShared(g)
  <2> SUFFICES ASSUME NEW m \in Live(g), NEW c \in Node, Owns(g, m, c)
               PROVE  /\ c \in Live(g) /\ g.prev[c] = NULL /\ g.type[c] # "T_ROOT"
                      /\ \A k \in Live(g) : Owns(g, k, c) => k = m
    BY DEF NeverShared
  <2>1. \A k \in Live(g) : Owns(g, k, c) => Owns(h, k, c)
    BY <1>2, <1>3 DEF Owns
  <2>2. /\ c \in Live(h) /\ h.prev[c] = NULL /\ h.type[c] # "T_ROOT"
        /\ \A k \in Live(h) : Owns(h, k, c) => k = m
    BY <2>1, <1>3 DEF HeapInv, NeverShared
  <2> QED
    BY <2>1, <2>2, <1>3
<1>8. ChainsTerminated(g)
  BY <1>3 DEF HeapInv, ChainsTerminated, EndsValid
<1>9. Region(g)
  <2>1. n # h.head /\ h.type[n] = "T_ROOT" => h.prev[n] = NULL
    BY DEF HeapInv, Region
  <2> QED
    BY <1>3, <1>2, <2>1 DEF HeapInv, Region, NULL
<1>10. OpenChain(g, S)
  BY <1>3 DEF OpenChain
<1>11. SameBelow(h, g)
  BY <1>2, <1>3 DEF SameBelow
<1> QED
  BY <1>4, <1>5, <1>6, <1>7, <1>8, <1>9, <1>10, <1>11 DEF HeapInv

-----------------------------------------------------------------------------
(* The chain loses its last node, which is freed.                          *)
LEMMA RemoveSelfFields ==
  ASSUME NEW h \in HeapType, NEW n \in Node, h.prev[n] # 0
  PROVE  LET g == RemoveSelf(h, n)
         IN  /\ g \in HeapType
             /\ g.size = h.size /\ g.freed = h.freed \cup {n} /\ g.head = h.head
             /\ g.tail = h.prev[n]
             /\ g.type = h.type /\ g.child = h.child /\ g.data = h.data
             /\ g.prev = h.prev
             /\ g.next = [h.next EXCEPT ![h.prev[n]] = 0]
<1> DEFINE g == RemoveSelf(h, n)
<1>1. /\ g.size = h.size /\ g.freed = h.freed \cup {n} /\ g.head = h.head
      /\ g.tail = h.prev[n]
      /\ g.type = h.type /\ g.child = h.child /\ g.data = h.data
      /\ g.prev = h.prev
  BY DEF RemoveSelf, HeapType
<1>2. g.next = [h.next EXCEPT ![h.prev[n]] = 0]
  BY DEF RemoveSelf, HeapType, NULL
<1>3. g \in HeapType
  <2>1. h.prev[n] \in Node
    BY DEF HeapType, NULL
  <2> QED
    BY <2>1 DEF RemoveSelf, HeapType, NULL
<1> QED
  BY <1>1, <1>2, <1>3

(* _remove_self takes the last node off the open chain.                    *)
LEMMA RemoveSelfInv ==
  ASSUME NEW h, HeapInv(h), NEW S, OpenChain(h, S),
         NEW n, n = h.tail, n # h.head,
         \A c \in Node : ~Owns(h, n, c),
         NEW g, g = RemoveSelf(h, n)
  PROVE  /\ HeapInv(g)
         /\ OpenChain(g, S \ {n})
         /\ SameBelow(h, g)
<1>1. h \in HeapType
  BY DEF HeapInv
<1>2. /\ h.size \in Nat /\ h.head \in Nat /\ h.tail \in Nat
      /\ h.head \in Node /\ h.tail \in Node /\ 1 .. h.head - 1 \subseteq Node
      /\ h.type \in [Node -> NodeType]
      /\ h.next \in [Node -> Node \cup {0}]
      /\ h.prev \in [Node -> Node \cup {0}]
      /\ h.child \in [Node -> Node \cup {0}]
      /\ Node \subseteq Nat \ {0} /\ 1 .. h.size \subseteq Node
  BY <1>1, FieldTypes
<1> DEFINE p == h.prev[n]
<1>3. /\ p \in S /\ p \in Live(h) /\ p \in Node /\ p # 0
      /\ n \in S /\ n \in Live(h) /\ n \in Node
      /\ S \subseteq Live(h) /\ Live(h) \subseteq Node
  BY <1>2 DEF OpenChain, Live
<1>4. /\ h.next[p] = n /\ p < n /\ h.next[n] = 0 /\ p >= h.head
      /\ h.head \in S
  <2>1. h.next[p] = n
    BY <1>3 DEF HeapInv, LinksAgree, NULL
  <2>2. n > p
    BY <1>2, <1>3, <2>1 DEF HeapInv, LinksAgree, NULL
  <2>3. h.next[n] = 0
    BY DEF HeapInv, EndsValid, NULL
  <2>4. p >= h.head /\ h.head \in S
    BY <1>3 DEF OpenChain
  <2> QED
    BY <1>2, <1>3, <2>1, <2>2, <2>3, <2>4
<1>5. /\ g \in HeapType
      /\ g.size = h.size /\ g.freed = h.freed \cup {n} /\ g.head = h.head
      /\ g.tail = p
      /\ g.type = h.type /\ g.child = h.child /\ g.data = h.data
      /\ g.prev = h.prev
      /\ g.next = [h.next EXCEPT ![p] = 0]
  BY <1>1, <1>3, RemoveSelfFields
<1>6. Live(g) = Live(h) \ {n}
  BY <1>5 DEF Live
<1>7. \A m \in Node : g.next[m] = IF m = p THEN 0 ELSE h.next[m]
  BY <1>2, <1>3, <1>5
<1> HIDE DEF p
<1>8. Fresh(g)
  BY <1>2, <1>3, <1>5, <1>7 DEF HeapInv, Fresh, Live, NULL
<1>9. EndsValid(g)
  BY <1>2, <1>3, <1>4, <1>5, <1>6, <1>7 DEF HeapInv, EndsValid, NULL
<1>10. \A m \in Live(h) : h.next[m] = n => m = p
  BY <1>2, <1>3 DEF HeapInv, LinksAgree, NULL, p
<1>11. \A m \in Live(h) : h.prev[m] # n
  BY <1>2, <1>3, <1>4 DEF HeapInv, LinksAgree, NULL
<1>12. LinksAgree(g)
  BY <1>2, <1>3, <1>4, <1>5, <1>6, <1>7, <1>10, <1>11 DEF HeapInv, LinksAgree, NULL
<1>13. NeverShared(g)
  <2>1. \A m \in Live(h), c \in Node : Owns(g, m, c) <=> Owns(h, m, c)
    BY <1>5 DEF Owns
  <2>2. \A m \in Live(h), c \in Node : Owns(h, m, c) => c # n
    BY <1>3 DEF HeapInv, NeverShared, NULL, p
  <2> QED
    BY <2>1, <2>2, <1>5, <1>6 DEF HeapInv, NeverShared
<1>14. ChainsTerminated(g)
  BY <1>3, <1>5, <1>6, <1>7 DEF HeapInv, ChainsTerminated
<1>15. Region(g)
  BY <1>3, <1>5, <1>6, <1>7 DEF HeapInv, Region, NULL
<1>16. OpenChain(g, S \ {n})
  <2>1. \A m \in S : m # h.head => h.prev[m] # n
    BY <1>11, <1>3
  <2> QED
    BY <2>1, <1>3, <1>4, <1>5, <1>6 DEF OpenChain
<1>17. SameBelow(h, g)
  <2>1. n >= h.head
    BY DEF OpenChain
  <2> QED
    BY <1>2, <1>3, <1>4, <1>5, <1>7, <2>1 DEF SameBelow
<1> QED
  BY <1>5, <1>8, <1>9, <1>12, <1>13, <1>14, <1>15, <1>16, <1>17 DEF HeapInv

-----------------------------------------------------------------------------
(* _node_terminate hangs a T_TRUE behind a node.                           *)
LEMMA TerminateFields ==
  ASSUME NEW h \in HeapType, NEW n \in Node, h.size < MaxNodes
  PROVE  LET g == Terminate(h, n)
             t == h.size + 1
         IN  /\ g \in HeapType /\ t \in Node
             /\ g.size = t /\ g.freed = h.freed
             /\ g.head = h.head /\ g.tail = h.tail
             /\ g.data = h.data /\ g.child = h.child
             /\ g.type = [h.type EXCEPT ![t] = "T_TRUE"]
             /\ g.prev = [h.prev EXCEPT ![t] = n]
             /\ g.next = [h.next EXCEPT ![n] = t]
<1> DEFINE g == Terminate(h, n)
           t == h.size + 1
<1>1. t \in Node /\ t \in 1 .. MaxNodes
  BY BoundAssumption DEF HeapType, Node
<1>2. /\ g.size = t /\ g.freed = h.freed /\ g.head = h.head /\ g.tail = h.tail
      /\ g.data = h.data /\ g.child = h.child
  BY DEF Terminate, HeapType
<1>3. /\ g.type = [h.type EXCEPT ![t] = "T_TRUE"]
      /\ g.prev = [h.prev EXCEPT ![t] = n]
      /\ g.next = [h.next EXCEPT ![n] = t]
  BY DEF Terminate, HeapType
<1>4. g \in HeapType
  <2>1. "T_TRUE" \in NodeType
    BY DEF NodeType
  <2> QED
    BY <2>1, <1>1 DEF Terminate, HeapType
<1> QED
  BY <1>1, <1>2, <1>3, <1>4

(* A quantifier at the end of the chain takes the node before it as child. *)
LEMMA AdoptFields ==
  ASSUME NEW h \in HeapType, NEW n \in Node, NEW c \in Node, NEW p \in Node,
         c = h.prev[n], p = h.prev[c], p # n, c # n, h.size < MaxNodes
  PROVE  LET g == Adopt(h, n)
             t == h.size + 1
         IN  /\ g \in HeapType /\ t \in Node
             /\ g.size = t /\ g.freed = h.freed
             /\ g.head = h.head /\ g.tail = h.tail
             /\ g.data = h.data
             /\ g.child = [h.child EXCEPT ![n] = c]
             /\ g.type = [h.type EXCEPT ![t] = "T_TRUE"]
             /\ g.prev = [h.prev EXCEPT ![n] = p, ![c] = 0, ![t] = c]
             /\ g.next = [h.next EXCEPT ![p] = n, ![c] = t]
<1> DEFINE g == Adopt(h, n)
           t == h.size + 1
           k == [h EXCEPT !.child[n] = c, !.prev[n] = p, !.next[p] = n, !.prev[c] = NULL]
<1>1. g = Terminate(k, c)
  BY DEF Adopt
<1>2. t \in Node /\ t \in 1 .. MaxNodes
  BY BoundAssumption DEF HeapType, Node
<1>3. /\ k.size = h.size /\ k.freed = h.freed /\ k.head = h.head /\ k.tail = h.tail
      /\ k.data = h.data /\ k.type = h.type
  BY DEF HeapType
<1>4. /\ k.child = [h.child EXCEPT ![n] = c]
      /\ k.next = [h.next EXCEPT ![p] = n]
  BY DEF HeapType
<1>5. k.prev = [h.prev EXCEPT ![n] = p, ![c] = 0]
  BY DEF HeapType, NULL
<1>6. k \in HeapType
  BY DEF HeapType, NULL
<1> HIDE DEF k
<1>7. /\ g \in HeapType
      /\ g.size = t /\ g.freed = h.freed /\ g.head = h.head /\ g.tail = h.tail
      /\ g.data = h.data /\ g.child = k.child
      /\ g.type = [h.type EXCEPT ![t] = "T_TRUE"]
      /\ g.prev = [k.prev EXCEPT ![t] = c]
      /\ g.next = [k.next EXCEPT ![c] = t]
  BY <1>1, <1>3, <1>6, TerminateFields
<1> QED
  BY <1>2, <1>4, <1>5, <1>7

(* _add_quantifier keeps the heap: the operand becomes a closed chain of   *)
(* its own, owned by the quantifier alone.                                 *)
LEMMA AdoptInv ==
  ASSUME NEW h, HeapInv(h), NEW S, OpenChain(h, S), h.size < MaxNodes,
         NEW n, n = h.tail, n # h.head,
         h.type[n] = "T_QUANTIFIER", h.child[n] = 0,
         h.prev[n] # h.head,
         NEW g, g = Adopt(h, n)
  PROVE  /\ HeapInv(g)
         /\ OpenChain(g, S \ {h.prev[n]})
         /\ SameBelow(h, g)
<1> DEFINE c == h.prev[n]
           p == h.prev[c]
           t == h.size + 1
<1>1. h \in HeapType
  BY DEF HeapInv
<1>2. /\ h.size \in Nat /\ h.head \in Nat /\ h.tail \in Nat
      /\ h.head \in Node /\ h.tail \in Node /\ 1 .. h.head - 1 \subseteq Node
      /\ h.type \in [Node -> NodeType]
      /\ h.next \in [Node -> Node \cup {0}]
      /\ h.prev \in [Node -> Node \cup {0}]
      /\ h.child \in [Node -> Node \cup {0}]
      /\ Node \subseteq Nat \ {0} /\ 1 .. h.size \subseteq Node
  BY <1>1, FieldTypes
<1>3. S \subseteq Live(h) /\ Live(h) \subseteq Node /\ h.head \in S
      /\ \A m \in Live(h) : m \in Nat /\ m <= h.size
  BY <1>2 DEF OpenChain, Live
<1>4. n \in S /\ c \in S /\ p \in S
  BY DEF OpenChain
<1>5. /\ n \in Node /\ c \in Node /\ p \in Node
      /\ n \in Nat /\ c \in Nat /\ p \in Nat /\ t \in Nat
      /\ n # 0 /\ c # 0 /\ p # 0 /\ t # 0
      /\ n \in Live(h) /\ c \in Live(h) /\ p \in Live(h)
  BY <1>2, <1>3, <1>4
<1>6. h.next[c] = n /\ h.next[p] = c /\ h.next[n] = 0
  BY <1>5 DEF HeapInv, LinksAgree, EndsValid, NULL
<1>7. p < c /\ c < n /\ n < t /\ h.size < t
  <2>1. h.next[c] > c /\ h.next[p] > p
    BY <1>5, <1>6 DEF HeapInv, LinksAgree, NULL
  <2> QED
    BY <2>1, <1>2, <1>3, <1>5, <1>6
<1>8. h.head <= p /\ h.head < c
  <2>1. h.head <= p
    BY <1>4 DEF OpenChain
  <2> QED
    BY <2>1, <1>2, <1>5, <1>7
<1>9. /\ g \in HeapType /\ t \in Node
      /\ g.size = t /\ g.freed = h.freed
      /\ g.head = h.head /\ g.tail = n
      /\ g.data = h.data
      /\ g.child = [h.child EXCEPT ![n] = c]
      /\ g.type = [h.type EXCEPT ![t] = "T_TRUE"]
      /\ g.prev = [h.prev EXCEPT ![n] = p, ![c] = 0, ![t] = c]
      /\ g.next = [h.next EXCEPT ![p] = n, ![c] = t]
  BY <1>1, <1>5, <1>7, AdoptFields
<1>10. Live(g) = Live(h) \cup {t} /\ t \notin Live(h)
  BY <1>2, <1>3, <1>9 DEF HeapInv, Fresh, Live
<1>11. /\ g.next[p] = n /\ g.next[c] = t /\ g.next[n] = 0 /\ g.next[t] = 0
       /\ g.prev[n] = p /\ g.prev[c] = 0 /\ g.prev[t] = c
       /\ g.type[t] = "T_TRUE" /\ g.type[n] = "T_QUANTIFIER" /\ g.child[n] = c
       /\ g.child[t] = 0
  <2>1. h.next[t] = 0 /\ h.child[t] = 0
    BY <1>2, <1>9 DEF HeapInv, Fresh, NULL
  <2>2. n # p /\ n # c /\ p # c /\ t # n /\ t # p /\ t # c
    BY <1>5, <1>7
  <2>3. g.next[p] = n /\ g.next[c] = t /\ g.next[n] = 0 /\ g.next[t] = 0
    BY <2>1, <2>2, <1>2, <1>5, <1>6, <1>9
  <2>4. g.prev[n] = p /\ g.prev[c] = 0 /\ g.prev[t] = c
    BY <2>2, <1>2, <1>5, <1>9
  <2>5. /\ g.type[t] = "T_TRUE" /\ g.type[n] = "T_QUANTIFIER" /\ g.child[n] = c
        /\ g.child[t] = 0
    BY <2>1, <2>2, <1>2, <1>5, <1>9
  <2> QED
    BY <2>3, <2>4, <2>5
<1>12. \A m \in Node :
         /\ m \notin {p, c} => g.next[m] = h.next[m]
         /\ m \notin {n, c, t} => g.prev[m] = h.prev[m]
         /\ m # t => g.type[m] = h.type[m]
         /\ m # n => g.child[m] = h.child[m]
  BY <1>2, <1>5, <1>9
<1>13. p # n /\ c # n /\ p # c /\ t # n /\ t # c /\ t # p
  BY <1>5, <1>7
<1> HIDE DEF c, p, t
<1>14. Fresh(g)
  <2>1. \A m \in Node : m > t => m > h.size /\ m \notin {p, c, n, t} /\ m > c /\ m > p
    <3>1. \A m \in Node : m \in Nat
      BY <1>2
    <3> QED
      BY <3>1, <1>2, <1>5, <1>7
  <2> QED
    BY <1>2, <1>5, <1>9, <1>12, <2>1 DEF HeapInv, Fresh, NULL
<1>15. EndsValid(g)
  BY <1>3, <1>5, <1>7, <1>8, <1>9, <1>10, <1>11, <1>12 DEF HeapInv, EndsValid, NULL
<1>16. \A m \in Live(h) : /\ h.next[m] = n => m = c
                          /\ h.next[m] = c => m = p
                          /\ h.prev[m] = n => FALSE
                          /\ h.prev[m] = c => m = n
                          /\ h.prev[m] = p => m = c
                          /\ h.next[m] # t /\ h.prev[m] # t
  <2>1. \A m \in Live(h) : h.next[m] # t /\ h.prev[m] # t
    BY <1>5, <1>7, <1>10 DEF HeapInv, LinksAgree, NULL
  <2>2. \A m \in Live(h) : h.next[m] \in {n, c} => h.prev[h.next[m]] = m
    BY <1>5 DEF HeapInv, LinksAgree, NULL
  <2>3. \A m \in Live(h) : h.prev[m] \in {n, c, p} => h.next[h.prev[m]] = m
    BY <1>5 DEF HeapInv, LinksAgree, NULL
  <2>4. \A m \in Live(h) : m # 0
    BY <1>2, <1>3
  <2> QED
    BY <2>1, <2>2, <2>3, <2>4, <1>6, <1>13 DEF c, p
<1>17. LinksAgree(g)
  <2> SUFFICES ASSUME NEW m \in Live(g)
               PROVE  /\ g.next[m] # NULL => /\ g.next[m] \in Live(g)
                                             /\ g.next[m] > m
                                             /\ g.prev[g.next[m]] = m
                      /\ g.prev[m] # NULL => g.prev[m] \in Live(g) /\ g.next[g.prev[m]] = m
    BY DEF LinksAgree
  <2>1. CASE m \in {p, c, n, t}
    <3>1. h.prev[p] # 0 => h.prev[p] \in Live(h) /\ h.next[h.prev[p]] = p
      BY <1>5 DEF HeapInv, LinksAgree, NULL
    <3>2. CASE m = p
      <4>1. h.prev[p] \notin {p, c} /\ g.prev[p] = h.prev[p]
        BY <3>1, <1>5, <1>6, <1>12, <1>13
      <4> QED
        BY <3>1, <3>2, <4>1, <1>3, <1>5, <1>7, <1>10, <1>11, <1>12 DEF NULL
    <3>3. CASE m \in {c, n, t}
      BY <3>3, <1>5, <1>7, <1>10, <1>11 DEF NULL
    <3> QED
      BY <2>1, <3>2, <3>3
  <2>2. CASE m \notin {p, c, n, t}
    <3>1. m \in Live(h) /\ m \in Node
      BY <2>2, <1>3, <1>10
    <3>2. g.next[m] = h.next[m] /\ g.prev[m] = h.prev[m]
      BY <2>2, <3>1, <1>12
    <3>3. h.next[m] \notin {n, c, t} /\ h.prev[m] \notin {p, c, n}
      BY <2>2, <3>1, <1>16
    <3>4. /\ h.next[m] # 0 => h.next[m] \in Live(h) /\ h.next[m] > m /\ h.prev[h.next[m]] = m
          /\ h.prev[m] # 0 => h.prev[m] \in Live(h) /\ h.next[h.prev[m]] = m
      BY <3>1 DEF HeapInv, LinksAgree, NULL
    <3> QED
      BY <3>1, <3>2, <3>3, <3>4, <1>3, <1>10, <1>12 DEF NULL
  <2> QED
    BY <2>1, <2>2
<1>18. NeverShared(g)
  <2> SUFFICES ASSUME NEW m \in Live(g), NEW d \in Node, Owns(g, m, d)
               PROVE  /\ d \in Live(g) /\ g.prev[d] = NULL /\ g.type[d] # "T_ROOT"
                      /\ \A k \in Live(g) : Owns(g, k, d) => k = m
    BY DEF NeverShared
  <2>1. \A k \in Live(g) : Owns(g, k, d) /\ k # n => k \in Live(h) /\ Owns(h, k, d)
    BY <1>3, <1>10, <1>11, <1>12 DEF Owns, Composite
  <2>2. \A k \in Live(h), e \in Node : Owns(h, k, e) =>
           /\ e \in Live(h) /\ h.prev[e] = 0 /\ h.type[e] # "T_ROOT"
           /\ \A j \in Live(h) : Owns(h, j, e) => j = k
    BY DEF HeapInv, NeverShared, NULL
  <2>3. h.prev[c] # 0 /\ h.prev[n] # 0 /\ h.type[c] # "T_ROOT"
    BY <1>5 DEF c, p, HeapInv, Region, NULL
  <2>4. CASE m = n
    <3>1. d = c
      BY <2>4, <1>11 DEF Owns
    <3>2. \A k \in Live(g) : Owns(g, k, d) => k = n
      BY <3>1, <2>1, <2>2, <2>3, <1>5
    <3> QED
      BY <2>3, <2>4, <3>1, <3>2, <1>5, <1>10, <1>11, <1>12, <1>13 DEF NULL
  <2>5. CASE m # n
    <3>1. m \in Live(h) /\ Owns(h, m, d)
      BY <2>1, <2>5
    <3>2. d \in Live(h) /\ h.prev[d] = 0 /\ h.type[d] # "T_ROOT"
      BY <3>1, <2>2
    <3>3. d \notin {n, c, t}
      BY <3>2, <2>3, <1>10
    <3>4. ~Owns(g, n, d)
      BY <3>3, <1>11 DEF Owns
    <3> QED
      BY <3>1, <3>2, <3>3, <3>4, <2>1, <2>2, <1>10, <1>12 DEF NULL
  <2> QED
    BY <2>4, <2>5
<1>19. ChainsTerminated(g)
  <2> SUFFICES ASSUME NEW m \in Live(g), g.next[m] = 0, m # n
               PROVE  g.type[m] = "T_TRUE"
    BY <1>9 DEF ChainsTerminated, NULL
  <2>1. m \notin {p, c}
    BY <1>5, <1>11
  <2>2. m # t => h.next[m] = 0 /\ m \in Live(h) /\ m \in Node
    BY <2>1, <1>3, <1>10, <1>12
  <2> QED
    BY <2>2, <1>11, <1>12 DEF HeapInv, ChainsTerminated, NULL
<1>20. Region(g)
  <2> SUFFICES ASSUME NEW m \in Live(g)
               PROVE  /\ g.type[m] = "T_ROOT" => g.prev[m] = NULL
                      /\ m >= g.head =>
                         /\ g.next[m] # NULL => g.next[m] >= g.head
                         /\ g.prev[m] # NULL => g.prev[m] >= g.head
                         /\ g.type[m] \in Composite /\ g.child[m] # NULL => g.child[m] >= g.head
    BY DEF Region
  <2>1. t >= h.head /\ n >= h.head /\ c >= h.head
    BY <1>2, <1>5, <1>7, <1>8
  <2>2. CASE m \in {p, c, n, t}
    BY <2>1, <2>2, <1>5, <1>8, <1>9, <1>11, <1>12, <1>13 DEF HeapInv, Region, NULL
  <2>3. CASE m \notin {p, c, n, t}
    BY <2>3, <1>3, <1>9, <1>10, <1>12 DEF HeapInv, Region, NULL
  <2> QED
    BY <2>2, <2>3
<1>21. OpenChain(g, S \ {c})
  <2>1. \A m \in S : m # h.head /\ m # n => h.prev[m] # c
    BY <1>3, <1>16
  <2> QED
    BY <2>1, <1>2, <1>3, <1>4, <1>5, <1>8, <1>9, <1>10, <1>11, <1>12, <1>13 DEF OpenChain
<1>22. SameBelow(h, g)
  <2>1. \A m \in 1 .. h.head - 1 : m \in Node /\ m \notin {p, c, n, t}
    BY <1>2, <1>5, <1>7, <1>8
  <2> QED
    BY <2>1, <1>9, <1>12 DEF SameBelow
<1> QED
  BY <1>9, <1>14, <1>15, <1>17, <1>18, <1>19, <1>20, <1>21, <1>22 DEF HeapInv, c

-----------------------------------------------------------------------------
(* '|' moves the chain from s on below a new alternation.                  *)
LEMMA SplitFields ==
  ASSUME NEW h \in HeapType, NEW s \in Node, NEW p \in Node,
         p = h.prev[s], h.size < MaxNodes
  PROVE  LET g == Split(h, s)
             a == h.size + 1
         IN  /\ g \in HeapType /\ a \in Node
             /\ g.size = a /\ g.freed = h.freed /\ g.head = h.head /\ g.tail = a
             /\ g.data = h.data
             /\ g.child = [h.child EXCEPT ![a] = s]
             /\ g.type = [h.type EXCEPT ![h.tail] = "T_TRUE", ![a] = "T_ALTERNATION"]
             /\ g.prev = [h.prev EXCEPT ![s] = 0, ![a] = p]
             /\ g.next = [h.next EXCEPT ![p] = a]
<1> DEFINE g == Split(h, s)
           a == h.size + 1
           k == [h EXCEPT !.type[h.tail] = "T_TRUE", !.prev[s] = NULL,
                          !.next[p] = NULL, !.tail = p]
           j == AddNode(k)
<1>1. g = [j EXCEPT !.type[a] = "T_ALTERNATION", !.child[a] = s]
  <2>1. k.size = h.size
    BY DEF HeapType
  <2> QED
    BY <2>1 DEF Split
<1>2. /\ k.size = h.size /\ k.freed = h.freed /\ k.head = h.head /\ k.tail = p
      /\ k.data = h.data /\ k.child = h.child
      /\ k.type = [h.type EXCEPT ![h.tail] = "T_TRUE"]
  BY DEF HeapType
<1>3. /\ k.prev = [h.prev EXCEPT ![s] = 0]
      /\ k.next = [h.next EXCEPT ![p] = 0]
  BY DEF HeapType, NULL
<1>4. k \in HeapType
  <2>1. "T_TRUE" \in NodeType
    BY DEF NodeType
  <2> QED
    BY <2>1 DEF HeapType, NULL
<1> HIDE DEF k
<1>5. /\ j \in HeapType /\ a \in Node
      /\ j.size = a /\ j.freed = k.freed /\ j.head = k.head /\ j.tail = a
      /\ j.type = k.type /\ j.child = k.child /\ j.data = k.data
      /\ j.prev = [k.prev EXCEPT ![a] = p]
      /\ j.next = [k.next EXCEPT ![p] = a]
  BY <1>2, <1>4, AddNodeFields
<1> HIDE DEF j
<1>6. /\ g.size = a /\ g.freed = h.freed /\ g.head = h.head /\ g.tail = a
      /\ g.data = h.data /\ g.prev = j.prev /\ g.next = j.next
  BY <1>1, <1>2, <1>5 DEF HeapType
<1>7. g.type = [j.type EXCEPT ![a] = "T_ALTERNATION"] /\ g.child = [j.child EXCEPT ![a] = s]
  BY <1>1, <1>5 DEF HeapType
<1>9. g.next = [h.next EXCEPT ![p] = a]
  BY <1>3, <1>5, <1>6 DEF HeapType
<1>8. g \in HeapType
  <2>1. "T_ALTERNATION" \in NodeType /\ s \in Node \cup {NULL}
    BY DEF NodeType, Composite
  <2> DEFINE i == [j EXCEPT !.type[a] = "T_ALTERNATION"]
  <2>2. i \in HeapType
    BY <2>1, <1>5 DEF HeapType
  <2>3. g = [i EXCEPT !.child[a] = s]
    BY <1>1, <1>5 DEF HeapType
  <2> HIDE DEF i
  <2> QED
    BY <2>1, <2>2, <2>3, <1>5 DEF HeapType
<1> QED
  BY <1>2, <1>3, <1>5, <1>6, <1>7, <1>8, <1>9

(* '|' keeps the heap: its last node becomes the T_TRUE that closes the    *)
(* left side.                                                              *)
LEMMA SplitInv ==
  ASSUME NEW h, HeapInv(h), NEW S, OpenChain(h, S), h.size < MaxNodes,
         NEW s \in S, s # h.head, s # h.tail, h.tail # h.head,
         NEW g, g = Split(h, s)
  PROVE  /\ HeapInv(g)
         /\ OpenChain(g, {m \in S : m < s} \cup {h.size + 1})
         /\ SameBelow(h, g)
<1> DEFINE p == h.prev[s]
           x == h.tail
           a == h.size + 1
<1>1. h \in HeapType
  BY DEF HeapInv
<1>2.  /\ h.size \in Nat /\ h.head \in Nat /\ h.tail \in Nat
      /\ h.head \in Node /\ h.tail \in Node /\ 1 .. h.head - 1 \subseteq Node
      /\ h.type \in [Node -> NodeType]
      /\ h.next \in [Node -> Node \cup {0}]
      /\ h.prev \in [Node -> Node \cup {0}]
      /\ h.child \in [Node -> Node \cup {0}]
      /\ Node \subseteq Nat \ {0} /\ 1 .. h.size \subseteq Node
  BY <1>1, FieldTypes
<1>3. S \subseteq Live(h) /\ Live(h) \subseteq Node /\ h.head \in S
      /\ \A m \in Live(h) : m \in Nat /\ m <= h.size /\ m # 0
  BY <1>2 DEF OpenChain, Live
<1>4. s \in S /\ p \in S /\ x \in S
  BY DEF OpenChain
<1>5. /\ s \in Node /\ p \in Node /\ x \in Node
      /\ s \in Nat /\ p \in Nat /\ x \in Nat /\ a \in Nat
      /\ s # 0 /\ p # 0 /\ x # 0 /\ a # 0
      /\ s \in Live(h) /\ p \in Live(h) /\ x \in Live(h)
  BY <1>2, <1>3, <1>4
<1>6. h.next[p] = s /\ h.next[x] = 0
  BY <1>5 DEF HeapInv, LinksAgree, EndsValid, NULL
<1>7. p < s /\ s < a /\ p < a /\ x < a /\ h.size < a
  <2>1. h.next[p] > p
    BY <1>5, <1>6 DEF HeapInv, LinksAgree, NULL
  <2> QED
    BY <2>1, <1>2, <1>3, <1>5, <1>6
<1>8. h.head <= p /\ h.head < s /\ h.head <= x /\ h.head < a
  <2>1. h.head <= p /\ h.head <= x
    BY <1>4 DEF OpenChain
  <2> QED
    BY <2>1, <1>2, <1>5, <1>7
<1>9. /\ g \in HeapType /\ a \in Node
      /\ g.size = a /\ g.freed = h.freed /\ g.head = h.head /\ g.tail = a
      /\ g.data = h.data
      /\ g.child = [h.child EXCEPT ![a] = s]
      /\ g.type = [h.type EXCEPT ![x] = "T_TRUE", ![a] = "T_ALTERNATION"]
      /\ g.prev = [h.prev EXCEPT ![s] = 0, ![a] = p]
      /\ g.next = [h.next EXCEPT ![p] = a]
  BY <1>1, <1>5, SplitFields
<1>10. Live(g) = Live(h) \cup {a} /\ a \notin Live(h)
  BY <1>2, <1>3, <1>9 DEF HeapInv, Fresh, Live
<1>11. /\ p # s /\ s # x /\ p # x /\ a # p /\ a # s /\ a # x
       /\ x # h.head /\ s # h.head /\ a # h.head
  BY <1>2, <1>5, <1>6, <1>7, <1>8
<1>12. /\ g.next[p] = a /\ g.next[a] = 0 /\ g.prev[s] = 0 /\ g.prev[a] = p
       /\ g.type[x] = "T_TRUE" /\ g.type[a] = "T_ALTERNATION" /\ g.child[a] = s
  <2>1. h.next[a] = 0
    BY <1>2, <1>7, <1>9 DEF HeapInv, Fresh, NULL
  <2> QED
    BY <2>1, <1>2, <1>5, <1>9, <1>11
<1>13. \A m \in Node :
         /\ m # p => g.next[m] = h.next[m]
         /\ m \notin {s, a} => g.prev[m] = h.prev[m]
         /\ m \notin {x, a} => g.type[m] = h.type[m]
         /\ m # a => g.child[m] = h.child[m]
  BY <1>2, <1>5, <1>9
<1> HIDE DEF p, x, a
<1>14. Fresh(g)
  <2>1. \A m \in Node : m > a => m > h.size /\ m \notin {p, s, x, a}
    <3>1. \A m \in Node : m \in Nat
      BY <1>2
    <3> QED
      BY <3>1, <1>2, <1>5, <1>7
  <2>2. g.freed \subseteq 1 .. a
    BY <1>2, <1>5, <1>7, <1>9 DEF HeapInv, Fresh
  <2> QED
    BY <1>9, <1>13, <2>1, <2>2 DEF HeapInv, Fresh, NULL
<1>15. EndsValid(g)
  <2>1. h.type[h.head] = "T_ROOT" /\ h.prev[h.head] = 0 /\ h.head \in Live(h)
    BY DEF HeapInv, EndsValid, NULL
  <2> QED
    BY <2>1, <1>2, <1>9, <1>10, <1>11, <1>12, <1>13 DEF EndsValid, NULL
<1>16. \A m \in Live(h) : /\ h.next[m] = s => m = p
                          /\ h.prev[m] = p => m = s
                          /\ h.next[m] # a /\ h.prev[m] # a
  <2>1. \A m \in Live(h) : h.next[m] # a /\ h.prev[m] # a
    BY <1>5, <1>10 DEF HeapInv, LinksAgree, NULL
  <2>2. \A m \in Live(h) : h.next[m] = s => h.prev[s] = m
    BY <1>5 DEF HeapInv, LinksAgree, NULL
  <2>3. \A m \in Live(h) : h.prev[m] = p => h.next[p] = m
    BY <1>5 DEF HeapInv, LinksAgree, NULL
  <2> QED
    BY <2>1, <2>2, <2>3, <1>6 DEF p
<1>17. LinksAgree(g)
  <2> SUFFICES ASSUME NEW m \in Live(g)
               PROVE  /\ g.next[m] # NULL => /\ g.next[m] \in Live(g)
                                             /\ g.next[m] > m
                                             /\ g.prev[g.next[m]] = m
                      /\ g.prev[m] # NULL => g.prev[m] \in Live(g) /\ g.next[g.prev[m]] = m
    BY DEF LinksAgree
  <2>1. CASE m = a
    BY <2>1, <1>5, <1>7, <1>10, <1>12 DEF NULL
  <2>2. CASE m # a
    <3>1. m \in Live(h) /\ m \in Node
      BY <2>2, <1>3, <1>10
    <3>2. /\ h.next[m] # 0 => h.next[m] \in Live(h) /\ h.next[m] > m /\ h.prev[h.next[m]] = m
          /\ h.prev[m] # 0 => h.prev[m] \in Live(h) /\ h.next[h.prev[m]] = m
      BY <3>1 DEF HeapInv, LinksAgree, NULL
    <3>3. g.next[m] # 0 => g.next[m] \in Live(g) /\ g.next[m] > m /\ g.prev[g.next[m]] = m
      <4>1. CASE m = p
        BY <4>1, <1>5, <1>7, <1>10, <1>12
      <4>2. CASE m # p
        <5>1. g.next[m] = h.next[m] /\ h.next[m] \notin {s, a}
          BY <4>2, <3>1, <1>13, <1>16
        <5> QED
          BY <5>1, <3>2, <1>3, <1>10, <1>13
      <4> QED
        BY <4>1, <4>2
    <3>4. g.prev[m] # 0 => g.prev[m] \in Live(g) /\ g.next[g.prev[m]] = m
      <4>1. CASE m = s
        BY <4>1, <1>12
      <4>2. CASE m # s
        <5>1. g.prev[m] = h.prev[m] /\ h.prev[m] # p
          BY <4>2, <2>2, <3>1, <1>13, <1>16
        <5> QED
          BY <5>1, <3>2, <1>3, <1>10, <1>13
      <4> QED
        BY <4>1, <4>2
    <3> QED
      BY <3>3, <3>4 DEF NULL
  <2> QED
    BY <2>1, <2>2
<1>18. NeverShared(g)
  <2> SUFFICES ASSUME NEW m \in Live(g), NEW d \in Node, Owns(g, m, d)
               PROVE  /\ d \in Live(g) /\ g.prev[d] = NULL /\ g.type[d] # "T_ROOT"
                      /\ \A k \in Live(g) : Owns(g, k, d) => k = m
    BY DEF NeverShared
  <2>1. \A k \in Live(g) : Owns(g, k, d) /\ k # a => k \in Live(h) /\ Owns(h, k, d)
    BY <1>3, <1>10, <1>12, <1>13 DEF Owns, Composite
  <2>2. \A k \in Live(h), e \in Node : Owns(h, k, e) =>
           /\ e \in Live(h) /\ h.prev[e] = 0 /\ h.type[e] # "T_ROOT"
           /\ \A j \in Live(h) : Owns(h, j, e) => j = k
    BY DEF HeapInv, NeverShared, NULL
  <2>3. h.prev[s] # 0 /\ h.type[s] # "T_ROOT"
    BY <1>5 DEF p, HeapInv, Region, NULL
  <2>4. CASE m = a
    <3>1. d = s
      BY <2>4, <1>12 DEF Owns
    <3>2. \A k \in Live(g) : Owns(g, k, d) => k = a
      BY <3>1, <2>1, <2>2, <2>3, <1>5
    <3> QED
      BY <2>3, <2>4, <3>1, <3>2, <1>5, <1>10, <1>11, <1>12, <1>13 DEF NULL
  <2>5. CASE m # a
    <3>1. m \in Live(h) /\ Owns(h, m, d)
      BY <2>1, <2>5
    <3>2. d \in Live(h) /\ h.prev[d] = 0 /\ h.type[d] # "T_ROOT"
      BY <3>1, <2>2
    <3>3. d \notin {s, a}
      BY <3>2, <2>3, <1>10
    <3>4. ~Owns(g, a, d)
      BY <3>3, <1>12 DEF Owns
    <3>5. g.type[d] # "T_ROOT"
      BY <3>2, <3>3, <1>12, <1>13
    <3> QED
      BY <3>1, <3>2, <3>3, <3>4, <3>5, <2>1, <2>2, <1>10, <1>13 DEF NULL
  <2> QED
    BY <2>4, <2>5
<1>19. ChainsTerminated(g)
  <2> SUFFICES ASSUME NEW m \in Live(g), g.next[m] = 0, m # a
               PROVE  g.type[m] = "T_TRUE"
    BY <1>9 DEF ChainsTerminated, NULL
  <2>1. m # p /\ m \in Live(h) /\ m \in Node
    BY <1>3, <1>5, <1>10, <1>12
  <2>2. m # x => h.next[m] = 0 /\ h.type[m] = "T_TRUE"
    BY <2>1, <1>13 DEF HeapInv, ChainsTerminated, NULL, x
  <2> QED
    BY <2>1, <2>2, <1>12, <1>13
<1>20. Region(g)
  <2> SUFFICES ASSUME NEW m \in Live(g)
               PROVE  /\ g.type[m] = "T_ROOT" => g.prev[m] = NULL
                      /\ m >= g.head =>
                         /\ g.next[m] # NULL => g.next[m] >= g.head
                         /\ g.prev[m] # NULL => g.prev[m] >= g.head
                         /\ g.type[m] \in Composite /\ g.child[m] # NULL => g.child[m] >= g.head
    BY DEF Region
  <2>1. CASE m = a
    BY <2>1, <1>8, <1>9, <1>12, <1>5, <1>2 DEF NULL
  <2>2. CASE m # a
    <3>1. m \in Live(h) /\ m \in Node
      BY <2>2, <1>3, <1>10
    <3>2. /\ h.type[m] = "T_ROOT" => h.prev[m] = 0
          /\ m >= h.head =>
             /\ h.next[m] # 0 => h.next[m] >= h.head
             /\ h.prev[m] # 0 => h.prev[m] >= h.head
             /\ h.type[m] \in Composite /\ h.child[m] # 0 => h.child[m] >= h.head
      BY <3>1 DEF HeapInv, Region, NULL
    <3>3. g.type[m] = h.type[m] \/ g.type[m] = "T_TRUE"
      BY <2>2, <3>1, <1>12, <1>13
    <3>4. g.prev[m] = h.prev[m] \/ g.prev[m] = 0
      BY <2>2, <3>1, <1>12, <1>13
    <3>5. g.next[m] = h.next[m] \/ g.next[m] >= h.head
      BY <3>1, <1>8, <1>12, <1>13, <1>2, <1>5
    <3> QED
      BY <2>2, <3>1, <3>2, <3>3, <3>4, <3>5, <1>9, <1>13 DEF NULL, Composite
  <2> QED
    BY <2>1, <2>2
<1>21. OpenChain(g, {m \in S : m < s} \cup {a})
  <2>1. \A m \in S : m \in Nat /\ m \in Node /\ m \in Live(h)
    BY <1>3
  <2>2. \A m \in S : m # h.head => h.prev[m] \in S /\ h.prev[m] < m
    <3>1. \A m \in S : m # h.head => h.prev[m] \in S
      BY DEF OpenChain
    <3>2. \A m \in S : m # h.head => h.next[h.prev[m]] = m /\ h.next[h.prev[m]] > h.prev[m]
      BY <2>1, <3>1, <1>3 DEF HeapInv, LinksAgree, NULL
    <3> QED
      BY <3>1, <3>2, <2>1
  <2>3. \A m \in S : m < s => m \notin {s, a}
    BY <2>1, <1>5, <1>7
  <2>4. ASSUME NEW m \in S, m < s, m # h.head
        PROVE  g.prev[m] \in {k \in S : k < s}
    <3>1. g.prev[m] = h.prev[m]
      BY <2>1, <2>3, <2>4, <1>13
    <3>2. h.prev[m] \in S /\ h.prev[m] < m /\ h.prev[m] \in Nat /\ m \in Nat
      BY <2>1, <2>2, <2>4
    <3> QED
      BY <3>1, <3>2, <2>4, <1>5
  <2>5. \A m \in S : m >= h.head
    BY DEF OpenChain
  <2> DEFINE T == {m \in S : m < s}
  <2>6. T \cup {a} \subseteq Live(g)
    BY <2>1, <1>10
  <2>7. h.head \in T /\ p \in T
    BY <1>3, <1>4, <1>7, <1>8
  <2>8. \A m \in T : m >= h.head /\ (m # h.head => g.prev[m] \in T)
    BY <2>4, <2>5
  <2>9. a >= h.head
    BY <1>2, <1>5, <1>8
  <2> HIDE DEF T
  <2>10. OpenChain(g, T \cup {a})
    BY <2>6, <2>7, <2>8, <2>9, <1>9, <1>12 DEF OpenChain
  <2> QED
    BY <2>10 DEF T
<1>22. SameBelow(h, g)
  <2>1. \A m \in 1 .. h.head - 1 : m \in Node /\ m \notin {p, s, x, a}
    BY <1>2, <1>5, <1>7, <1>8
  <2> QED
    BY <2>1, <1>9, <1>13 DEF SameBelow
<1> QED
  BY <1>9, <1>14, <1>15, <1>17, <1>18, <1>19, <1>20, <1>21, <1>22 DEF HeapInv, a

-----------------------------------------------------------------------------
(* ')' moves what follows the open group s below s.                        *)
LEMMA CloseGroupFields ==
  ASSUME NEW h \in HeapType, NEW s \in Node, NEW f \in Node, f = h.next[s]
  PROVE  LET g == CloseGroup(h, s)
         IN  /\ g \in HeapType
             /\ g.size = h.size /\ g.freed = h.freed /\ g.head = h.head /\ g.tail = s
             /\ g.data = h.data
             /\ g.child = [h.child EXCEPT ![s] = f]
             /\ g.type = [h.type EXCEPT ![s] = "T_GROUP", ![h.tail] = "T_TRUE"]
             /\ g.prev = [h.prev EXCEPT ![f] = 0]
             /\ g.next = [h.next EXCEPT ![s] = 0]
<1> DEFINE g == CloseGroup(h, s)
<1>1. /\ g.size = h.size /\ g.freed = h.freed /\ g.head = h.head /\ g.tail = s
      /\ g.data = h.data
  BY DEF CloseGroup, HeapType
<1>2. /\ g.prev = [h.prev EXCEPT ![f] = 0]
      /\ g.next = [h.next EXCEPT ![s] = 0]
  BY DEF CloseGroup, HeapType, NULL
<1>3. /\ g.child = [h.child EXCEPT ![s] = f]
      /\ g.type = [h.type EXCEPT ![s] = "T_GROUP", ![h.tail] = "T_TRUE"]
  BY DEF CloseGroup, HeapType
<1>4. g \in HeapType
  <2>1. "T_TRUE" \in NodeType /\ "T_GROUP" \in NodeType
    BY DEF NodeType, Composite
  <2>2. DOMAIN g = DOMAIN h /\ g = [x \in DOMAIN h |-> g[x]]
    BY DEF CloseGroup
  <2> DEFINE k == [h EXCEPT !.type[s] = "T_GROUP", !.child[s] = f, !.next[s] = NULL]
             j == [k EXCEPT !.prev[f] = NULL, !.tail = s]
  <2>3. k \in HeapType /\ k.tail = h.tail /\ k.prev = h.prev
    BY <2>1 DEF HeapType, NULL
  <2>4. g = [j EXCEPT !.type[h.tail] = "T_TRUE"]
    BY DEF CloseGroup, HeapType
  <2> HIDE DEF k
  <2>5. j \in HeapType
    BY <2>3 DEF HeapType, NULL
  <2> HIDE DEF j
  <2> QED
    BY <2>1, <2>4, <2>5 DEF HeapType
<1> QED
  BY <1>1, <1>2, <1>3, <1>4

(* ')' keeps the heap, and the group it closes has content to move.        *)
LEMMA CloseGroupInv ==
  ASSUME NEW h, HeapInv(h), NEW S, OpenChain(h, S),
         NEW s \in S, h.type[s] = "T_GROUP_START", s # h.tail, h.tail # h.head,
         NEW g, g = CloseGroup(h, s)
  PROVE  /\ HeapInv(g)
         /\ OpenChain(g, {m \in S : m <= s})
         /\ SameBelow(h, g)
         /\ h.next[s] # 0
<1> DEFINE f == h.next[s]
           x == h.tail
<1>1. h \in HeapType
  BY DEF HeapInv
<1>2.  /\ h.size \in Nat /\ h.head \in Nat /\ h.tail \in Nat
      /\ h.head \in Node /\ h.tail \in Node /\ 1 .. h.head - 1 \subseteq Node
      /\ h.type \in [Node -> NodeType]
      /\ h.next \in [Node -> Node \cup {0}]
      /\ h.prev \in [Node -> Node \cup {0}]
      /\ h.child \in [Node -> Node \cup {0}]
      /\ Node \subseteq Nat \ {0} /\ 1 .. h.size \subseteq Node
  BY <1>1, FieldTypes
<1>3. S \subseteq Live(h) /\ Live(h) \subseteq Node /\ h.head \in S
      /\ \A m \in Live(h) : m \in Nat /\ m <= h.size /\ m # 0
  BY <1>2 DEF OpenChain, Live
<1>4. s \in S /\ x \in S
  BY DEF OpenChain
<1>5. s \in Node /\ x \in Node /\ s \in Live(h) /\ x \in Live(h) /\ s \in Nat
  BY <1>3, <1>4
<1>6. f # 0 /\ f \in Live(h) /\ f > s /\ h.prev[f] = s
  <2>1. f # 0
    BY <1>5 DEF HeapInv, ChainsTerminated, NULL
  <2> QED
    BY <2>1, <1>5 DEF HeapInv, LinksAgree, NULL
<1>7. f \in Node /\ f \in Nat /\ s # 0 /\ h.next[x] = 0
  BY <1>3, <1>5, <1>6 DEF HeapInv, EndsValid, NULL
<1>8. s # x /\ f # s /\ s # h.head /\ f # h.head /\ x # h.head /\ h.head <= s /\ h.head <= x
  <2>1. s # h.head
    BY DEF HeapInv, EndsValid
  <2>2. h.head <= s /\ h.head <= x
    BY <1>4 DEF OpenChain
  <2> QED
    BY <2>1, <2>2, <1>2, <1>5, <1>6, <1>7
<1>9. /\ g \in HeapType
      /\ g.size = h.size /\ g.freed = h.freed /\ g.head = h.head /\ g.tail = s
      /\ g.data = h.data
      /\ g.child = [h.child EXCEPT ![s] = f]
      /\ g.type = [h.type EXCEPT ![s] = "T_GROUP", ![x] = "T_TRUE"]
      /\ g.prev = [h.prev EXCEPT ![f] = 0]
      /\ g.next = [h.next EXCEPT ![s] = 0]
  BY <1>1, <1>5, <1>7, CloseGroupFields
<1>10. Live(g) = Live(h)
  BY <1>9 DEF Live
<1>11. /\ g.next[s] = 0 /\ g.prev[f] = 0
       /\ g.type[x] = "T_TRUE" /\ g.type[s] = "T_GROUP" /\ g.child[s] = f
  BY <1>2, <1>5, <1>7, <1>8, <1>9
<1>12. \A m \in Node :
         /\ m # s => g.next[m] = h.next[m]
         /\ m # f => g.prev[m] = h.prev[m]
         /\ m \notin {x, s} => g.type[m] = h.type[m]
         /\ m # s => g.child[m] = h.child[m]
  BY <1>2, <1>5, <1>7, <1>9
<1> HIDE DEF f, x
<1>13. Fresh(g)
  <2>1. \A m \in Node : m > h.size => m \notin {f, s, x}
    BY <1>2, <1>3, <1>5, <1>6
  <2> QED
    BY <1>9, <1>12, <2>1 DEF HeapInv, Fresh, NULL
<1>14. EndsValid(g)
  <2>1. h.type[h.head] = "T_ROOT" /\ h.prev[h.head] = 0 /\ h.head \in Live(h)
    BY DEF HeapInv, EndsValid, NULL
  <2> QED
    BY <2>1, <1>2, <1>5, <1>8, <1>9, <1>10, <1>11, <1>12 DEF EndsValid, NULL
<1>15. \A m \in Live(h) : /\ h.next[m] = f => m = s
                          /\ h.prev[m] = s => m = f
  <2>1. \A m \in Live(h) : h.next[m] = f => h.prev[f] = m
    BY <1>6 DEF HeapInv, LinksAgree, NULL
  <2>2. \A m \in Live(h) : h.prev[m] = s => h.next[s] = m
    BY <1>7 DEF HeapInv, LinksAgree, NULL
  <2> QED
    BY <2>1, <2>2, <1>6 DEF f
<1>16. LinksAgree(g)
  <2> SUFFICES ASSUME NEW m \in Live(g)
               PROVE  /\ g.next[m] # NULL => /\ g.next[m] \in Live(g)
                                             /\ g.next[m] > m
                                             /\ g.prev[g.next[m]] = m
                      /\ g.prev[m] # NULL => g.prev[m] \in Live(g) /\ g.next[g.prev[m]] = m
    BY DEF LinksAgree
  <2>1. m \in Live(h) /\ m \in Node
    BY <1>3, <1>10
  <2>2. /\ h.next[m] # 0 => h.next[m] \in Live(h) /\ h.next[m] > m /\ h.prev[h.next[m]] = m
        /\ h.prev[m] # 0 => h.prev[m] \in Live(h) /\ h.next[h.prev[m]] = m
    BY <2>1 DEF HeapInv, LinksAgree, NULL
  <2>3. g.next[m] # 0 => g.next[m] \in Live(g) /\ g.next[m] > m /\ g.prev[g.next[m]] = m
    <3>1. CASE m = s
      BY <3>1, <1>11
    <3>2. CASE m # s
      BY <3>2, <2>1, <2>2, <1>3, <1>10, <1>12, <1>15
    <3> QED
      BY <3>1, <3>2
  <2>4. g.prev[m] # 0 => g.prev[m] \in Live(g) /\ g.next[g.prev[m]] = m
    <3>1. CASE m = f
      BY <3>1, <1>11
    <3>2. CASE m # f
      BY <3>2, <2>1, <2>2, <1>3, <1>10, <1>12, <1>15
    <3> QED
      BY <3>1, <3>2
  <2> QED
    BY <2>3, <2>4 DEF NULL
<1>17. NeverShared(g)
  <2> SUFFICES ASSUME NEW m \in Live(g), NEW d \in Node, Owns(g, m, d)
               PROVE  /\ d \in Live(g) /\ g.prev[d] = NULL /\ g.type[d] # "T_ROOT"
                      /\ \A k \in Live(g) : Owns(g, k, d) => k = m
    BY DEF NeverShared
  <2>1. \A k \in Live(g) : Owns(g, k, d) /\ k # s => k \in Live(h) /\ Owns(h, k, d)
    BY <1>3, <1>10, <1>11, <1>12 DEF Owns, Composite
  <2>2. \A k \in Live(h), e \in Node : Owns(h, k, e) =>
           /\ e \in Live(h) /\ h.prev[e] = 0 /\ h.type[e] # "T_ROOT"
           /\ \A j \in Live(h) : Owns(h, j, e) => j = k
    BY DEF HeapInv, NeverShared, NULL
  <2>3. h.prev[f] # 0 /\ h.type[f] # "T_ROOT"
    BY <1>6, <1>7 DEF HeapInv, Region, NULL
  <2>4. CASE m = s
    <3>1. d = f
      BY <2>4, <1>11 DEF Owns
    <3>2. \A k \in Live(g) : Owns(g, k, d) => k = s
      BY <3>1, <2>1, <2>2, <2>3, <1>7
    <3> QED
      BY <2>3, <2>4, <3>1, <3>2, <1>6, <1>7, <1>8, <1>10, <1>11, <1>12 DEF NULL
  <2>5. CASE m # s
    <3>1. m \in Live(h) /\ Owns(h, m, d)
      BY <2>1, <2>5
    <3>2. d \in Live(h) /\ h.prev[d] = 0 /\ h.type[d] # "T_ROOT"
      BY <3>1, <2>2
    <3>3. d # f
      BY <3>2, <2>3
    <3>4. ~Owns(g, s, d)
      BY <3>3, <1>11 DEF Owns
    <3>5. g.type[d] # "T_ROOT"
      BY <3>2, <1>11, <1>12
    <3> QED
      BY <3>1, <3>2, <3>3, <3>4, <3>5, <2>1, <2>2, <1>10, <1>12 DEF NULL
  <2> QED
    BY <2>4, <2>5
<1>18. ChainsTerminated(g)
  <2> SUFFICES ASSUME NEW m \in Live(g), g.next[m] = 0, m # s
               PROVE  g.type[m] = "T_TRUE"
    BY <1>9 DEF ChainsTerminated, NULL
  <2>1. m \in Live(h) /\ m \in Node
    BY <1>3, <1>10
  <2>2. m # x => h.next[m] = 0 /\ h.type[m] = "T_TRUE"
    BY <2>1, <1>12 DEF HeapInv, ChainsTerminated, NULL, x
  <2> QED
    BY <2>1, <2>2, <1>11, <1>12
<1>19. Region(g)
  <2> SUFFICES ASSUME NEW m \in Live(g)
               PROVE  /\ g.type[m] = "T_ROOT" => g.prev[m] = NULL
                      /\ m >= g.head =>
                         /\ g.next[m] # NULL => g.next[m] >= g.head
                         /\ g.prev[m] # NULL => g.prev[m] >= g.head
                         /\ g.type[m] \in Composite /\ g.child[m] # NULL => g.child[m] >= g.head
    BY DEF Region
  <2>1. m \in Live(h) /\ m \in Node
    BY <1>3, <1>10
  <2>2. /\ h.type[m] = "T_ROOT" => h.prev[m] = 0
        /\ m >= h.head =>
           /\ h.next[m] # 0 => h.next[m] >= h.head
           /\ h.prev[m] # 0 => h.prev[m] >= h.head
           /\ h.type[m] \in Composite /\ h.child[m] # 0 => h.child[m] >= h.head
    BY <2>1 DEF HeapInv, Region, NULL
  <2>3. g.type[m] = h.type[m] \/ g.type[m] = "T_TRUE" \/ (m = s /\ g.type[m] = "T_GROUP")
    BY <2>1, <1>11, <1>12
  <2>4. g.prev[m] = h.prev[m] \/ g.prev[m] = 0
    BY <2>1, <1>11, <1>12
  <2>5. g.next[m] = h.next[m] \/ g.next[m] = 0
    BY <2>1, <1>11, <1>12
  <2>6. m = s => g.child[m] >= h.head
    BY <1>2, <1>5, <1>6, <1>7, <1>8, <1>11
  <2> QED
    BY <2>1, <2>2, <2>3, <2>4, <2>5, <2>6, <1>9, <1>12 DEF NULL, Composite
<1>20. OpenChain(g, {m \in S : m <= s})
  <2>1. \A m \in S : m \in Nat /\ m \in Node /\ m \in Live(h)
    BY <1>3
  <2>2. \A m \in S : m # h.head => h.prev[m] \in S /\ h.prev[m] < m
    <3>1. \A m \in S : m # h.head => h.prev[m] \in S
      BY DEF OpenChain
    <3>2. \A m \in S : m # h.head => h.next[h.prev[m]] = m /\ h.next[h.prev[m]] > h.prev[m]
      BY <2>1, <3>1, <1>3 DEF HeapInv, LinksAgree, NULL
    <3> QED
      BY <3>1, <3>2, <2>1
  <2>3. ASSUME NEW m \in S, m <= s, m # h.head
        PROVE  g.prev[m] \in {k \in S : k <= s}
    <3>1. m \in Nat /\ m # f
      BY <2>1, <2>3, <1>5, <1>6, <1>7
    <3>2. g.prev[m] = h.prev[m]
      BY <2>1, <3>1, <1>12
    <3>3. h.prev[m] \in S /\ h.prev[m] < m /\ h.prev[m] \in Nat
      BY <2>1, <2>2, <2>3
    <3> QED
      BY <3>1, <3>2, <3>3, <2>3, <1>5
  <2>4. \A m \in S : m >= h.head
    BY DEF OpenChain
  <2> DEFINE T == {m \in S : m <= s}
  <2>5. T \subseteq Live(g)
    BY <2>1, <1>10
  <2>6. g.head \in T /\ g.tail \in T
    BY <1>3, <1>4, <1>5, <1>8, <1>9
  <2>7. \A m \in T : m >= g.head /\ (m # g.head => g.prev[m] \in T)
    BY <2>3, <2>4, <1>9
  <2> QED
    BY <2>5, <2>6, <2>7 DEF OpenChain
<1>21. SameBelow(h, g)
  <2>1. \A m \in 1 .. h.head - 1 : m \in Node /\ m \notin {f, s, x}
    BY <1>2, <1>5, <1>6, <1>7, <1>8
  <2> QED
    BY <2>1, <1>9, <1>12 DEF SameBelow
<1> QED
  BY <1>6, <1>9, <1>13, <1>14, <1>16, <1>17, <1>18, <1>19, <1>20, <1>21 DEF HeapInv, f

-----------------------------------------------------------------------------
(* An accepted pattern gets its T_TRUE, the object a new T_ROOT.           *)
LEMMA AddRootFields ==
  ASSUME NEW h \in HeapType, h.size < MaxNodes
  PROVE  LET g == AddRoot(h)
             n == h.size + 1
         IN  /\ g \in HeapType /\ n \in Node
             /\ g.size = n /\ g.freed = h.freed /\ g.head = n /\ g.tail = n
             /\ g.data = h.data /\ g.child = h.child
             /\ g.prev = h.prev /\ g.next = h.next
             /\ g.type = [h.type EXCEPT ![n] = "T_ROOT"]
<1> DEFINE g == AddRoot(h)
           n == h.size + 1
<1>1. n \in Node /\ n \in 1 .. MaxNodes /\ "T_ROOT" \in NodeType
  BY BoundAssumption DEF HeapType, Node, NodeType
<1>2. /\ g.size = n /\ g.freed = h.freed /\ g.head = n /\ g.tail = n
      /\ g.data = h.data /\ g.child = h.child
      /\ g.prev = h.prev /\ g.next = h.next
      /\ g.type = [h.type EXCEPT ![n] = "T_ROOT"]
  BY DEF AddRoot, HeapType
<1>3. g \in HeapType
  BY <1>1 DEF AddRoot, HeapType
<1> QED
  BY <1>1, <1>2, <1>3

(* Accepting a pattern closes its chain and opens a new one above it.      *)
LEMMA EndPatternInv ==
  ASSUME NEW h, HeapInv(h), NEW S, OpenChain(h, S), h.size + 2 <= MaxNodes,
         NEW g, g = AddRoot(Terminate(h, h.tail))
  PROVE  /\ HeapInv(g)
         /\ OpenChain(g, {h.size + 2})
         /\ SameBelow(h, g)
<1> DEFINE x == h.tail
           t == h.size + 1
           r == h.size + 2
           k == Terminate(h, x)
<1>1. h \in HeapType
  BY DEF HeapInv
<1>2.  /\ h.size \in Nat /\ h.head \in Nat /\ h.tail \in Nat
      /\ h.head \in Node /\ h.tail \in Node /\ 1 .. h.head - 1 \subseteq Node
      /\ h.type \in [Node -> NodeType]
      /\ h.next \in [Node -> Node \cup {0}]
      /\ h.prev \in [Node -> Node \cup {0}]
      /\ h.child \in [Node -> Node \cup {0}]
      /\ Node \subseteq Nat \ {0} /\ 1 .. h.size \subseteq Node
  BY <1>1, FieldTypes
<1>3. /\ Live(h) \subseteq Node /\ h.head \in Live(h) /\ x \in Live(h)
      /\ \A m \in Live(h) : m \in Nat /\ m <= h.size /\ m # 0
  BY <1>2 DEF Live, HeapInv, EndsValid
<1>4. /\ t \in Nat /\ r \in Nat /\ h.size < t /\ t < r /\ r = t + 1
      /\ x \in Node /\ x < t /\ h.head < t /\ h.head < r /\ t # 0 /\ r # 0
  BY <1>2, <1>3
<1>5. h.size < MaxNodes /\ t < MaxNodes
  BY <1>2, BoundAssumption
<1>6. /\ k \in HeapType /\ t \in Node
      /\ k.size = t /\ k.freed = h.freed
      /\ k.head = h.head /\ k.tail = h.tail
      /\ k.data = h.data /\ k.child = h.child
      /\ k.type = [h.type EXCEPT ![t] = "T_TRUE"]
      /\ k.prev = [h.prev EXCEPT ![t] = x]
      /\ k.next = [h.next EXCEPT ![x] = t]
  BY <1>1, <1>4, <1>5, TerminateFields
<1> HIDE DEF k
<1>7. /\ g \in HeapType /\ r \in Node
      /\ g.size = r /\ g.freed = h.freed /\ g.head = r /\ g.tail = r
      /\ g.data = h.data /\ g.child = h.child
      /\ g.prev = [h.prev EXCEPT ![t] = x]
      /\ g.next = [h.next EXCEPT ![x] = t]
      /\ g.type = [h.type EXCEPT ![t] = "T_TRUE", ![r] = "T_ROOT"]
  <2>1. g = AddRoot(k)
    BY DEF k
  <2> QED
    BY <1>4, <1>5, <1>6, <2>1, AddRootFields
<1>8. Live(g) = Live(h) \cup {t, r} /\ t \notin Live(h) /\ r \notin Live(h)
  BY <1>2, <1>3, <1>4, <1>7 DEF HeapInv, Fresh, Live
<1>9. /\ h.next[x] = 0 /\ h.next[t] = 0 /\ h.next[r] = 0 /\ h.prev[t] = 0 /\ h.prev[r] = 0
      /\ h.child[t] = 0 /\ h.child[r] = 0
  <2>1. h.next[x] = 0
    BY DEF HeapInv, EndsValid, NULL
  <2>2. t > h.size /\ r > h.size
    BY <1>2, <1>4
  <2> QED
    BY <1>6, <1>7, <2>1, <2>2 DEF HeapInv, Fresh, NULL
<1>10. /\ g.next[x] = t /\ g.next[t] = 0 /\ g.next[r] = 0
       /\ g.prev[t] = x /\ g.prev[r] = 0
       /\ g.type[t] = "T_TRUE" /\ g.type[r] = "T_ROOT"
       /\ x # t /\ x # r /\ t # r
  BY <1>2, <1>4, <1>6, <1>7, <1>9
<1>11. \A m \in Node :
         /\ m # x => g.next[m] = h.next[m]
         /\ m # t => g.prev[m] = h.prev[m]
         /\ m \notin {t, r} => g.type[m] = h.type[m]
         /\ g.child[m] = h.child[m]
  BY <1>2, <1>4, <1>6, <1>7
<1> HIDE DEF x, t, r
<1>12. Fresh(g)
  <2>1. \A m \in Node : m > r => m > h.size /\ m \notin {x, t, r}
    <3>1. \A m \in Node : m \in Nat
      BY <1>2
    <3> QED
      BY <3>1, <1>2, <1>4
  <2>2. g.freed \subseteq 1 .. r
    BY <1>2, <1>4, <1>7 DEF HeapInv, Fresh
  <2> QED
    BY <2>1, <2>2, <1>7, <1>11 DEF HeapInv, Fresh, NULL
<1>13. EndsValid(g)
  BY <1>7, <1>8, <1>10 DEF EndsValid, NULL
<1>14. \A m \in Live(h) : h.next[m] \notin {t, r} /\ h.prev[m] \notin {t, r, x}
  <2>1. \A m \in Live(h) : h.next[m] \notin {t, r} /\ h.prev[m] \notin {t, r}
    BY <1>4, <1>8 DEF HeapInv, LinksAgree, NULL
  <2>2. \A m \in Live(h) : h.prev[m] # x
    BY <1>3, <1>9 DEF HeapInv, LinksAgree, NULL
  <2> QED
    BY <2>1, <2>2
<1>15. LinksAgree(g)
  <2> SUFFICES ASSUME NEW m \in Live(g)
               PROVE  /\ g.next[m] # NULL => /\ g.next[m] \in Live(g)
                                             /\ g.next[m] > m
                                             /\ g.prev[g.next[m]] = m
                      /\ g.prev[m] # NULL => g.prev[m] \in Live(g) /\ g.next[g.prev[m]] = m
    BY DEF LinksAgree
  <2>1. CASE m = r
    BY <2>1, <1>10 DEF NULL
  <2>2. CASE m = t
    BY <2>2, <1>3, <1>8, <1>10 DEF NULL
  <2>3. CASE m \notin {t, r}
    <3>1. m \in Live(h) /\ m \in Node
      BY <2>3, <1>3, <1>8
    <3>2. /\ h.next[m] # 0 => h.next[m] \in Live(h) /\ h.next[m] > m /\ h.prev[h.next[m]] = m
          /\ h.prev[m] # 0 => h.prev[m] \in Live(h) /\ h.next[h.prev[m]] = m
      BY <3>1 DEF HeapInv, LinksAgree, NULL
    <3>3. g.next[m] # 0 => g.next[m] \in Live(g) /\ g.next[m] > m /\ g.prev[g.next[m]] = m
      <4>1. CASE m = x
        BY <4>1, <1>4, <1>8, <1>10
      <4>2. CASE m # x
        BY <4>2, <3>1, <3>2, <1>3, <1>8, <1>11, <1>14
      <4> QED
        BY <4>1, <4>2
    <3>4. g.prev[m] # 0 => g.prev[m] \in Live(g) /\ g.next[g.prev[m]] = m
      BY <2>3, <3>1, <3>2, <1>3, <1>8, <1>11, <1>14
    <3> QED
      BY <3>3, <3>4 DEF NULL
  <2> QED
    BY <2>1, <2>2, <2>3
<1>16. NeverShared(g)
  <2> SUFFICES ASSUME NEW m \in Live(g), NEW d \in Node, Owns(g, m, d)
               PROVE  /\ d \in Live(g) /\ g.prev[d] = NULL /\ g.type[d] # "T_ROOT"
                      /\ \A j \in Live(g) : Owns(g, j, d) => j = m
    BY DEF NeverShared
  <2>1. \A j \in Live(g) : Owns(g, j, d) => j \in Live(h) /\ Owns(h, j, d)
    BY <1>3, <1>8, <1>10, <1>11 DEF Owns, Composite
  <2>2. /\ d \in Live(h) /\ h.prev[d] = 0 /\ h.type[d] # "T_ROOT"
        /\ \A j \in Live(h) : Owns(h, j, d) => j = m
    BY <2>1 DEF HeapInv, NeverShared, NULL
  <2> QED
    BY <2>1, <2>2, <1>8, <1>11 DEF NULL
<1>17. ChainsTerminated(g)
  <2> SUFFICES ASSUME NEW m \in Live(g), g.next[m] = 0, m # r
               PROVE  g.type[m] = "T_TRUE"
    BY <1>7 DEF ChainsTerminated, NULL
  <2>1. m # t => m \in Live(h) /\ m \in Node /\ m # x /\ m # r
    BY <1>3, <1>4, <1>8, <1>10
  <2>2. m # t => h.next[m] = 0 /\ h.type[m] = "T_TRUE"
    BY <2>1, <1>11 DEF HeapInv, ChainsTerminated, NULL, x
  <2> QED
    BY <2>1, <2>2, <1>10, <1>11
<1>18. Region(g)
  <2>1. \A m \in Live(g) : m >= r => m = r
    BY <1>2, <1>3, <1>4, <1>8
  <2>2. \A m \in Live(g) : m \notin {t, r} => m \in Live(h) /\ m \in Node
    BY <1>3, <1>8
  <2>3. \A m \in Live(g) : g.type[m] = "T_ROOT" => g.prev[m] = 0
    BY <2>2, <1>10, <1>11 DEF HeapInv, Region, NULL
  <2> QED
    BY <2>1, <2>3, <1>7, <1>10 DEF Region, NULL, Composite
<1>19. OpenChain(g, {r})
  BY <1>4, <1>7, <1>8 DEF OpenChain
<1>20. SameBelow(h, g)
  <2>1. x >= h.head
    BY DEF OpenChain, x
  <2>2. \A m \in 1 .. h.head - 1 : m \in Node /\ m \notin {x, t, r}
    BY <2>1, <1>2, <1>4
  <2> QED
    BY <2>2, <1>7, <1>11 DEF SameBelow
<1> QED
  BY <1>7, <1>12, <1>13, <1>15, <1>16, <1>17, <1>18, <1>19, <1>20 DEF HeapInv, r

-----------------------------------------------------------------------------
(* _node_free: what is still to be freed hangs below nothing that is left. *)
FreeInv(h, td) ==
  /\ \A n \in Live(h) :
       /\ h.next[n] # 0 => /\ h.next[n] \in Live(h) /\ h.prev[h.next[n]] = n
                           /\ n >= h.head => h.next[n] >= h.head
       /\ n >= h.head /\ h.type[n] \in Composite /\ h.child[n] # 0 =>
            h.child[n] >= h.head
  /\ NeverShared(h)
  /\ \A i \in DOMAIN td : td[i] # 0 =>
       /\ td[i] \in Live(h) /\ td[i] >= h.head
       /\ h.prev[td[i]] \notin Live(h)
       /\ \A m \in Live(h) : ~Owns(h, m, td[i])
       /\ \A j \in DOMAIN td : td[j] = td[i] => i = j

(* regexx_free starts with the head of the open chain.                     *)
LEMMA BeginFreeInv ==
  ASSUME NEW h, HeapInv(h)
  PROVE  FreeInv(h, <<h.head>>)
<1>1. NeverShared(h)
  BY DEF HeapInv
<1>2. 0 \notin Live(h)
  BY DEF Live
<1>3. \A n \in Live(h) :
       /\ h.next[n] # 0 => /\ h.next[n] \in Live(h) /\ h.prev[h.next[n]] = n
                           /\ n >= h.head => h.next[n] >= h.head
       /\ n >= h.head /\ h.type[n] \in Composite /\ h.child[n] # 0 =>
            h.child[n] >= h.head
  BY DEF HeapInv, LinksAgree, Region, NULL
<1>4. h.head \in Node /\ h.head >= h.head
  BY BoundAssumption DEF HeapInv, HeapType, Node
<1>5. h.head \in Live(h) /\ h.prev[h.head] = 0 /\ h.type[h.head] = "T_ROOT"
  BY DEF HeapInv, EndsValid, NULL
<1>6. \A m \in Live(h) : ~Owns(h, m, h.head)
  BY <1>1, <1>4, <1>5 DEF NeverShared
<1> DEFINE td == <<h.head>>
<1>7. DOMAIN td = {1} /\ td[1] = h.head
  OBVIOUS
<1> HIDE DEF td
<1>8. FreeInv(h, td)
  BY <1>1, <1>2, <1>3, <1>4, <1>5, <1>6, <1>7 DEF FreeInv
<1> QED
  BY <1>8 DEF td

(* A NULL that is popped changes nothing.                                  *)
LEMMA FreeNullInv ==
  ASSUME NEW h, NEW td \in Seq(Node \cup {0}), td # <<>>, FreeInv(h, td)
  PROVE  FreeInv(h, Tail(td))
<1> DEFINE u == Tail(td)
<1>1. \A i \in DOMAIN u : i + 1 \in DOMAIN td /\ u[i] = td[i + 1] /\ i \in Nat
  BY HeadTailProperties, LenProperties
<1> HIDE DEF u
<1>2. FreeInv(h, u)
  BY <1>1 DEF FreeInv
<1> QED
  BY <1>2 DEF u

(* Freeing a node replaces it by its child and its successor.              *)
LEMMA FreeNodeInv ==
  ASSUME NEW h \in HeapType, NEW td \in Seq(Node \cup {0}), td # <<>>, FreeInv(h, td),
         NEW n, n = Head(td), n # 0,
         NEW g, g = [h EXCEPT !.freed = @ \cup {n}],
         NEW b \in Seq(Node \cup {0}),
         b = <<h.next[n]>> \/ (h.type[n] \in Composite /\ b = <<h.child[n], h.next[n]>>)
  PROVE  /\ g \in HeapType
         /\ FreeInv(g, b \o Tail(td))
         /\ SameBelow(h, g)
<1>1. /\ h.size \in Nat /\ h.head \in Nat /\ h.tail \in Nat
      /\ h.head \in Node /\ h.tail \in Node /\ 1 .. h.head - 1 \subseteq Node
      /\ h.type \in [Node -> NodeType]
      /\ h.next \in [Node -> Node \cup {0}]
      /\ h.prev \in [Node -> Node \cup {0}]
      /\ h.child \in [Node -> Node \cup {0}]
      /\ Node \subseteq Nat \ {0} /\ 1 .. h.size \subseteq Node
  BY FieldTypes
<1>2. 1 \in DOMAIN td /\ n = td[1]
  BY EmptySeq, LenProperties
<1>3. /\ n \in Live(h) /\ n >= h.head /\ h.prev[n] \notin Live(h)
      /\ \A m \in Live(h) : ~Owns(h, m, n)
      /\ \A j \in DOMAIN td : td[j] = n => j = 1
  BY <1>2 DEF FreeInv
<1>4. Live(h) \subseteq Node /\ n \in Node /\ 0 \notin Node /\ 0 \notin Live(h)
  BY <1>1, <1>3 DEF Live
<1>5. /\ g.freed = h.freed \cup {n} /\ g.size = h.size /\ g.head = h.head
      /\ g.next = h.next /\ g.prev = h.prev /\ g.type = h.type
      /\ g.child = h.child /\ g.data = h.data
  BY DEF HeapType
<1>6. g \in HeapType
  BY <1>4 DEF HeapType
<1>7. Live(g) = Live(h) \ {n}
  BY <1>5 DEF Live
<1>8. \A m \in Live(h) :
       /\ h.next[m] # 0 => /\ h.next[m] \in Live(h) /\ h.prev[h.next[m]] = m
                           /\ h.next[m] # n
                           /\ m >= h.head => h.next[m] >= h.head
       /\ m >= h.head /\ h.type[m] \in Composite /\ h.child[m] # 0 =>
            h.child[m] >= h.head
  BY <1>3 DEF FreeInv
<1>9. \A m \in Live(h), c \in Node : Owns(h, m, c) =>
        /\ c \in Live(h) /\ h.prev[c] = 0 /\ h.type[c] # "T_ROOT" /\ c # n
        /\ \A k \in Live(h) : Owns(h, k, c) => k = m
  BY <1>3 DEF FreeInv, NeverShared, NULL
<1>10. NeverShared(g)
  <2> SUFFICES ASSUME NEW m \in Live(g), NEW c \in Node, Owns(g, m, c)
               PROVE  /\ c \in Live(g) /\ g.prev[c] = NULL /\ g.type[c] # "T_ROOT"
                      /\ \A k \in Live(g) : Owns(g, k, c) => k = m
    BY DEF NeverShared
  <2>1. \A k \in Live(g) : Owns(g, k, c) => k \in Live(h) /\ Owns(h, k, c)
    BY <1>5, <1>7 DEF Owns
  <2> QED
    BY <2>1, <1>5, <1>7, <1>9 DEF NULL
<1> DEFINE u == Tail(td)
           w == b \o u
           Pending(m) == /\ m \in Live(g) /\ m >= h.head
                         /\ h.prev[m] \notin Live(g)
                         /\ \A k \in Live(g) : ~Owns(g, k, m)
<1>11. u \in Seq(Node \cup {0})
       /\ \A i \in 1 .. Len(u) : i + 1 \in DOMAIN td /\ u[i] = td[i + 1] /\ i + 1 # 1
  BY HeadTailProperties, LenProperties
<1>12. /\ Len(b) \in {1, 2}
       /\ b[Len(b)] = h.next[n]
       /\ Len(b) = 2 => h.type[n] \in Composite /\ b[1] = h.child[n]
  <2>1. CASE b = <<h.next[n]>>
    <3>1. Len(b) = 1 /\ b[1] = h.next[n]
      BY <2>1
    <3> QED
      BY <3>1
  <2>2. CASE h.type[n] \in Composite /\ b = <<h.child[n], h.next[n]>>
    <3>1. Len(b) = 2 /\ b[1] = h.child[n] /\ b[2] = h.next[n]
      BY <2>2
    <3> QED
      BY <2>2, <3>1
  <2> QED
    BY <2>1, <2>2
<1>13. \A m \in Node, k \in Live(g) : Owns(g, k, m) => Owns(h, k, m) /\ k # n
  BY <1>5, <1>7 DEF Owns
<1>14. h.next[n] # 0 => Pending(h.next[n])
  <2> HAVE h.next[n] # 0
  <2>1. h.next[n] \in Live(h) /\ h.prev[h.next[n]] = n /\ h.next[n] # n /\ h.next[n] >= h.head
    BY <1>3, <1>8
  <2>2. \A k \in Live(g) : ~Owns(g, k, h.next[n])
    <3> SUFFICES ASSUME NEW k \in Live(g), Owns(g, k, h.next[n]) PROVE FALSE
      OBVIOUS
    <3>1. h.next[n] \in Node /\ k \in Live(h)
      BY <2>1, <1>4, <1>7
    <3>2. Owns(h, k, h.next[n])
      BY <3>1, <1>13
    <3>3. h.prev[h.next[n]] = 0
      BY <3>1, <3>2, <1>9
    <3> QED
      BY <2>1, <3>3
  <2> QED
    BY <2>1, <2>2, <1>7
<1>15. h.type[n] \in Composite /\ h.child[n] # 0 => Pending(h.child[n])
  <2> HAVE h.type[n] \in Composite /\ h.child[n] # 0
  <2>1. h.child[n] \in Node /\ Owns(h, n, h.child[n])
    BY <1>1, <1>4 DEF Owns
  <2>2. h.child[n] \in Live(h) /\ h.prev[h.child[n]] = 0 /\ h.child[n] # n /\ h.child[n] >= h.head
    BY <2>1, <1>3, <1>8, <1>9
  <2>3. \A k \in Live(g) : ~Owns(g, k, h.child[n])
    <3> SUFFICES ASSUME NEW k \in Live(g), Owns(g, k, h.child[n]) PROVE FALSE
      OBVIOUS
    <3>1. k \in Live(h) /\ k # n /\ Owns(h, k, h.child[n])
      BY <2>1, <1>7, <1>13
    <3>2. k = n
      BY <2>1, <3>1, <1>3, <1>9
    <3> QED
      BY <3>1, <3>2
  <2> QED
    BY <2>2, <2>3, <1>4, <1>7
<1>16. \A i \in 1 .. Len(u) : u[i] # 0 =>
         /\ Pending(u[i])
         /\ \A j \in 1 .. Len(u) : u[j] = u[i] => i = j
         /\ u[i] # h.next[n]
         /\ h.type[n] \in Composite => u[i] # h.child[n]
  <2> TAKE i \in 1 .. Len(u)
  <2> HAVE u[i] # 0
  <2>1. /\ u[i] \in Live(h) /\ u[i] >= h.head /\ u[i] # n
        /\ h.prev[u[i]] \notin Live(h)
        /\ \A m \in Live(h) : ~Owns(h, m, u[i])
        /\ \A j \in DOMAIN td : td[j] = u[i] => j = i + 1
    BY <1>3, <1>11 DEF FreeInv
  <2>2. \A j \in 1 .. Len(u) : u[j] = u[i] => i = j
    BY <2>1, <1>11
  <2>3. u[i] # h.next[n]
    BY <2>1, <1>3, <1>8
  <2>4. h.type[n] \in Composite => u[i] # h.child[n]
    BY <2>1, <1>3 DEF Owns
  <2>5. Pending(u[i])
    BY <2>1, <1>4, <1>7, <1>13
  <2> QED
    BY <2>2, <2>3, <2>4, <2>5
<1>17. h.type[n] \in Composite /\ h.child[n] # 0 => h.child[n] # h.next[n]
  <2> HAVE h.type[n] \in Composite /\ h.child[n] # 0
  <2>1. h.child[n] \in Node /\ Owns(h, n, h.child[n])
    BY <1>1, <1>4 DEF Owns
  <2> QED
    BY <2>1, <1>3, <1>4, <1>8, <1>9
<1>18. /\ DOMAIN w = 1 .. Len(b) + Len(u)
       /\ \A i \in 1 .. Len(b) + Len(u) : w[i] = IF i <= Len(b) THEN b[i] ELSE u[i - Len(b)]
       /\ Len(u) \in Nat
  BY <1>11, ConcatProperties, LenProperties
<1> HIDE DEF w, u
<1>19. \A i \in DOMAIN w : w[i] # 0 =>
         /\ Pending(w[i])
         /\ \A j \in DOMAIN w : w[j] = w[i] => i = j
  <2> HIDE DEF Pending
  <2>1. CASE Len(b) = 1
    <3>1. w[1] = h.next[n] /\ \A i \in DOMAIN w : i # 1 => i - 1 \in 1 .. Len(u) /\ w[i] = u[i - 1]
      BY <2>1, <1>12, <1>18
    <3>2. \A i \in DOMAIN w : w[i] # 0 => Pending(w[i])
      BY <3>1, <1>14, <1>16
    <3>3. \A i, j \in DOMAIN w : w[i] # 0 /\ w[j] = w[i] => i = j
      BY <3>1, <1>16, <1>18
    <3> QED
      BY <3>2, <3>3
  <2>2. CASE Len(b) = 2
    <3>1. /\ w[1] = h.child[n] /\ w[2] = h.next[n] /\ h.type[n] \in Composite
          /\ \A i \in DOMAIN w : i \notin {1, 2} => i - 2 \in 1 .. Len(u) /\ w[i] = u[i - 2]
      BY <2>2, <1>12, <1>18
    <3>2. \A i \in DOMAIN w : w[i] # 0 => Pending(w[i])
      BY <3>1, <1>14, <1>15, <1>16
    <3>3. ASSUME NEW i \in DOMAIN w, NEW j \in DOMAIN w, w[i] # 0, w[j] = w[i]
          PROVE  i = j
      <4>1. CASE i \in {1, 2} /\ j \in {1, 2}
        BY <3>1, <3>3, <4>1, <1>17
      <4>2. CASE i \notin {1, 2} /\ j \notin {1, 2}
        <5>1. /\ i - 2 \in 1 .. Len(u) /\ w[i] = u[i - 2]
              /\ j - 2 \in 1 .. Len(u) /\ w[j] = u[j - 2]
          BY <3>1, <4>2
        <5>2. i - 2 = j - 2
          BY <3>3, <5>1, <1>16
        <5> QED
          BY <5>2, <1>18
      <4>3. CASE i \in {1, 2} /\ j \notin {1, 2}
        BY <3>1, <3>3, <4>3, <1>16
      <4>4. CASE i \notin {1, 2} /\ j \in {1, 2}
        BY <3>1, <3>3, <4>4, <1>16
      <4> QED
        BY <4>1, <4>2, <4>3, <4>4
    <3> QED
      BY <3>2, <3>3
  <2> QED
    BY <2>1, <2>2, <1>12
<1>20. FreeInv(g, w)
  <2>1. \A m \in Live(g) :
          /\ g.next[m] # 0 => /\ g.next[m] \in Live(g) /\ g.prev[g.next[m]] = m
                              /\ m >= g.head => g.next[m] >= g.head
          /\ m >= g.head /\ g.type[m] \in Composite /\ g.child[m] # 0 =>
               g.child[m] >= g.head
    BY <1>5, <1>7, <1>8
  <2>2. \A i \in DOMAIN w : w[i] # 0 =>
          /\ w[i] \in Live(g) /\ w[i] >= g.head
          /\ g.prev[w[i]] \notin Live(g)
          /\ \A m \in Live(g) : ~Owns(g, m, w[i])
          /\ \A j \in DOMAIN w : w[j] = w[i] => i = j
    BY <1>5, <1>7, <1>19
  <2> QED
    BY <2>1, <2>2, <1>10 DEF FreeInv
<1>21. SameBelow(h, g)
  <2>1. \A m \in 1 .. h.head - 1 : m # n
    BY <1>1, <1>3, <1>4
  <2> QED
    BY <2>1, <1>5 DEF SameBelow
<1> QED
  BY <1>6, <1>20, <1>21 DEF w, u
=============================================================================
