------------------------------ MODULE MCXgrep ------------------------------
(***************************************************************************)
(* A small instance of Xgrep.                                              *)
(***************************************************************************)
EXTENDS Xgrep

MCChar == {"a", "b", "{", "}", "|", ")"}
MCClass == {"a"}
Empty == {}

Wanted == {[k |-> "char", c |-> "a"], [k |-> "char", c |-> "b"],
           [k |-> "atom", t |-> "T_ANCHOR_END"],
           [k |-> "open", look |-> TRUE, inv |-> FALSE],
           [k |-> "open", look |-> FALSE, inv |-> FALSE],
           [k |-> "close"], [k |-> "question"],
           [k |-> "quant", min |-> 0, max |-> SIZE_MAX]}

Starred == {[k |-> "char", c |-> "a"], [k |-> "char", c |-> "b"],
            [k |-> "quant", min |-> 0, max |-> SIZE_MAX]}

MCTexts == UNION {[1 .. k -> {"a", "b"}] : k \in 0 .. 2}
=============================================================================
