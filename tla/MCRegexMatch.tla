---------------------------- MODULE MCRegexMatch ----------------------------
(***************************************************************************)
(* Small instances of RegexMatch and RegexPrint: every pattern of a few    *)
(* fragments, against every short text, and printed.                       *)
(***************************************************************************)
EXTENDS RegexMatch, RegexPrint

MCChar == {"a", "b", "{", "}", "|", ")"}
MCClass == {"b"}
Empty == {}

Lit(c)  == [k |-> "char", c |-> c]
Atom(t) == [k |-> "atom", t |-> t]
Bar     == [k |-> "bar"]
Close   == [k |-> "close"]
Open    == [k |-> "open", look |-> FALSE, inv |-> FALSE]
Ahead   == [k |-> "open", look |-> TRUE, inv |-> FALSE]
Lazy    == [k |-> "question"]
Star    == [k |-> "quant", min |-> 0, max |-> SIZE_MAX]
Plus    == [k |-> "quant", min |-> 1, max |-> SIZE_MAX]

(* With groups, and without.                                               *)
Every == {Lit("a"), Atom("T_DOT_ALL"), Atom("T_CHARCLASS"), Open, Ahead, Close, Bar, Star, Plus, Lazy}
Plain == {Lit("a"), Lit("b"), Atom("T_DOT_ALL"), Bar, Star, Lazy}

UpTo(n) == UNION {[1 .. k -> {"a", "b"}] : k \in 0 .. n}
MCTexts == UpTo(3)
=============================================================================
