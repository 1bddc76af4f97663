--------------------------- MODULE CompileRefines ---------------------------
(***************************************************************************)
(* RegexCompile implements PatternBuilder: read as trees, the node chains  *)
(* of the heap go through the states of the abstract builder.  The node    *)
(* that '|' and ')' have added while they hunt backwards is not part of    *)
(* the pattern yet.                                                        *)
(***************************************************************************)
EXTENDS RegexCompile

CONSTANT Repeats   (* The [min, max] pairs that the fragments ask for.     *)

Hunting == pc \in {"bar", "close"}

(* The items from node n to the end of its chain, a T_TRUE or a NULL.      *)
RECURSIVE Items(_)
Items(n) ==
  IF n = NULL \/ re.type[n] = "T_TRUE" \/ (Hunting /\ n = re.tail) THEN <<>>
  ELSE <<[t   |-> re.type[n],
          d   |-> re.data[n],
          sub |-> IF re.type[n] \in Composite THEN Items(re.child[n]) ELSE <<>>]>>
       \o Items(re.next[n])

Phase ==
  CASE pc = "idle" -> "none"
    [] pc = "error" -> "failed"
    [] pc \in {"parse", "bar", "close"} -> "adding"
    [] pc \in {"freeing", "freed"} -> "released"

Builder == INSTANCE PatternBuilder WITH
  Atoms   <- AtomType,
  Data    <- Repeats,
  chain   <- Items(re.next[re.head]),
  done    <- [i \in DOMAIN patterns |-> Items(re.next[patterns[i]])],
  call    <- Phase,
  dropped <- pc = "bar" /\ re.type[re.tail] = "T_QUANTIFIER"

(* Every step of the compiler is a step of the builder or changes nothing  *)
(* of the trees: the pointer surgery of regexx.c loses, duplicates and     *)
(* reorders nothing that the builder keeps.                                *)
BuildsTrees == Builder!BSpec
=============================================================================
