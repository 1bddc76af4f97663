------------------------------- MODULE CTokens -------------------------------
(***************************************************************************)
(* The table of src/examples/c-lex.c at work: the macros and patterns that *)
(* clex_create gives to the compiler, built into chains as PatternBuilder  *)
(* says, matched as RegexEval says, and the longest match returned, as     *)
(* LexLongest says of regexx_lex_token.  What CLexer leaves open, which    *)
(* pattern matches where, is settled here.                                 *)
(***************************************************************************)
EXTENDS RegexEval

CONSTANTS
  Char,      (* The characters of the texts.                               *)
  Texts,     (* The files.                                                 *)
  Keyword,   (* The keywords and                                           *)
  Operator   (* the operators of the table that a text can spell, those    *)
             (* with an id of their own among them: all are T_OP here.     *)

ASSUME TokenAssumption ==
  /\ Texts \cup Keyword \cup Operator \subseteq Seq(Char)

Zeroed == [str |-> <<>>, min |-> 0, max |-> 0, lazy |-> FALSE, look |-> FALSE, inv |-> FALSE]

Builder == INSTANCE PatternBuilder WITH
  Atoms <- {}, Data <- {}, StringMax <- 56,
  chain <- <<>>, done <- <<>>, call <- "none", dropped <- FALSE

-----------------------------------------------------------------------------
(* Patterns, as sequences of fragments.                                    *)
Lit(word)  == [i \in DOMAIN word |-> [k |-> "char", c |-> word[i]]]
Class(S)   == <<[k |-> "class", set |-> S \cap Char]>>
Except(S)  == <<[k |-> "class", set |-> Char \ S]>>
Dot        == <<[k |-> "atom", t |-> "T_DOT_ALL"]>>
Begin      == <<[k |-> "atom", t |-> "T_ANCHOR_BEGIN"]>>
Star       == <<[k |-> "quant", min |-> 0, max |-> SIZE_MAX]>>
Plus       == <<[k |-> "quant", min |-> 1, max |-> SIZE_MAX]>>
Question   == <<[k |-> "question"]>>
Bar        == <<[k |-> "bar"]>>
Close      == <<[k |-> "close"]>>
Times(m, n) == <<[k |-> "brace", min |-> m, max |-> n], [k |-> "char", c |-> "}"]>>
Group(p)   == <<[k |-> "open", look |-> FALSE, inv |-> FALSE]>> \o p \o Close
Ahead(p)   == <<[k |-> "open", look |-> TRUE, inv |-> FALSE]>> \o p \o Close

-----------------------------------------------------------------------------
(* clex_macros.  A macro's value is read in place of its name, so that a   *)
(* quantifier behind the name repeats its last fragment only.              *)
Octals == {"0", "1", "2", "3", "4", "5", "6", "7"}
Digits == Octals \cup {"8", "9"}
Hexes  == Digits \cup {"a", "b", "c", "d", "e", "f", "A", "B", "C", "D", "E", "F"}
Letters == {"a", "d", "e", "f", "i", "l", "n", "o", "p", "u", "x", "E", "L", "P", "U", "X", "_"}
Blanks == {" ", "\t", "\f", "\r"}

O   == Class(Octals)
D   == Class(Digits)
NZ  == Class(Digits \ {"0"})
L   == Class(Letters)
A   == Class(Letters \cup Digits)
H   == Class(Hexes)
HP  == Group(Lit(<<"0">>) \o Class({"x", "X"}))
E   == Group(Class({"E", "e"}) \o Class({"+", "-"}) \o Question \o D \o Plus)
P   == Group(Class({"P", "p"}) \o Class({"+", "-"}) \o Question \o D \o Plus)
FS  == Group(Lit(<<"f">>) \o Bar \o Lit(<<"F">>) \o Bar \o Lit(<<"l">>) \o Bar \o Lit(<<"L">>))

Unsigned == Group(Lit(<<"u">>) \o Bar \o Lit(<<"U">>))
Long == Group(Lit(<<"l">>) \o Bar \o Lit(<<"L">>) \o Bar \o
              Lit(<<"l", "l">>) \o Bar \o Lit(<<"L", "L">>))
IS  == Group(Group(Unsigned \o Long \o Question) \o Bar \o Group(Long \o Unsigned \o Question))
CP  == Group(Lit(<<"u">>) \o Bar \o Lit(<<"U">>) \o Bar \o Lit(<<"L">>))
SP  == Group(Lit(<<"u", "8">>) \o Bar \o
             Lit(<<"u">>) \o Bar \o Lit(<<"U">>) \o Bar \o Lit(<<"L">>))
ES  == Group(Lit(<<"\\">>) \o
             Group(Class({"'", "\"", "?", "\\", "a", "b", "f", "n", "r", "t", "v"}) \o Bar \o
                   O \o Times(1, 3) \o Bar \o Lit(<<"x">>) \o H \o Plus))
WS  == Class(Blanks \cup {"\n"})
WS2 == Class(Blanks)
SPLICE == Lit(<<"\\">>) \o Class({"\r"}) \o Star \o Class({"\n"})

-----------------------------------------------------------------------------
(* clex_exp: the constants.                                                *)
Hexadecimal == HP \o H \o Plus \o IS \o Question
DecimalFromZero == D \o D \o Star \o IS \o Question   (* mutant: {D} for {NZ} *)
Decimal == NZ \o D \o Star \o IS \o Question
OctalConstant == Lit(<<"0">>) \o O \o Star \o IS \o Question
Character == CP \o Question \o Lit(<<"'">>) \o
             Group(Except({"'", "\\", "n"}) \o Bar \o ES) \o Plus \o Lit(<<"'">>)
Whole == D \o Plus \o E \o FS \o Question
Fraction == D \o Star \o Lit(<<".">>) \o D \o Plus \o E \o Question \o FS \o Question
NoFraction == D \o Plus \o Lit(<<".">>) \o E \o Question \o FS \o Question
HexWhole == HP \o H \o Plus \o P \o FS \o Question
HexFraction == HP \o H \o Star \o Lit(<<".">>) \o H \o Plus \o P \o FS \o Question
HexNoFraction == HP \o H \o Plus \o Lit(<<".">>) \o P \o FS \o Question
String ==
  Group(SP \o Question \o Lit(<<"\"">>) \o Group(Except({"\"", "\n"}) \o Bar \o ES) \o Star
        \o Lit(<<"\"">>) \o WS \o Star) \o Plus

(* White space and comments.                                               *)
Spliced == WS2 \o Star \o Group(SPLICE \o Plus \o WS2 \o Star) \o Plus
Block == Lit(<<"/", "*">>) \o Dot \o Star \o Question \o Lit(<<"*", "/">>)
LineComment == Lit(<<"/", "/">>) \o Dot \o Star \o Question \o Ahead(Class({"\n"}))
SplicedComment ==
  Lit(<<"/", "/">>) \o Group(Except({"\n"}) \o Star \o Question \o SPLICE) \o Plus
  \o Except({"\n"}) \o Star \o Question \o Ahead(Class({"\n"}))

Entry(id, p) == [id |-> id, pattern |-> p]
Listed(id, words) ==
  LET order[S \in SUBSET words] ==
        IF S = {} THEN <<>>
        ELSE LET w == CHOOSE w \in S : TRUE
             IN  <<Entry(id, Lit(w))>> \o order[S \ {w}]
  IN  order[words]

(* In the table's order; of the keywords, and of the operators, it does    *)
(* not matter, as they differ.  "^" is an anchor, so that it and "^=" are  *)
(* no operators.                                                           *)
Table ==
  <<Entry("T_NEWLINE", Lit(<<"\n">>)), Entry("T_WHITESPACE", WS2 \o Plus),
    Entry("T_WHITESPACE", Spliced),
    Entry("T_INTEGER", Hexadecimal), Entry("T_INTEGER", Decimal),
    Entry("T_INTEGER", OctalConstant), Entry("T_INTEGER", Character),
    Entry("T_FLOAT", Whole), Entry("T_FLOAT", Fraction), Entry("T_FLOAT", NoFraction),
    Entry("T_FLOAT", HexWhole), Entry("T_FLOAT", HexFraction),
    Entry("T_FLOAT", HexNoFraction), Entry("T_STRING", String)>>
  \o Listed("T_KEYWORD", Keyword) \o Listed("T_OP", Operator)
  \o <<Entry("T_OP", Begin \o Lit(<<"=">>)), Entry("T_OP", Begin),
       Entry("T_IDENTIFIER", L \o A \o Star),
       Entry("T_COMMENT", Block), Entry("T_COMMENT", LineComment),
       Entry("T_COMMENT", SplicedComment)>>

-----------------------------------------------------------------------------
(* The items, laid out in a heap behind what is there already: the heap's  *)
(* size is then the first one's node.  The compiler ends every chain of    *)
(* items, at each level, with a T_TRUE.                                    *)
Put(h, t, d, next, child) ==
  [size |-> h.size + 1, type |-> Append(h.type, t), data |-> Append(h.data, d),
   next |-> Append(h.next, next), child |-> Append(h.child, child)]

RECURSIVE Laid(_, _)
Laid(h, items) ==
  LET rest == Laid(h, Tail(items))
      sub  == Laid(rest, items[1].sub)
  IN  IF items = <<>> THEN Put(h, "T_TRUE", Zeroed, 0, 0)
      ELSE IF items[1].t \in Branching
        THEN Put(sub, items[1].t, items[1].d, rest.size, sub.size)
      ELSE Put(rest, items[1].t, items[1].d, rest.size, 0)

NoNodes == [size |-> 0, type |-> <<>>, data |-> <<>>, next |-> <<>>, child |-> <<>>]

Patterns ==
  [i \in DOMAIN Table |->
     [id |-> Table[i].id, heap |-> Laid(NoNodes, Builder!Compile(Table[i].pattern))]]

VARIABLES
  text,    (* The file,                                                    *)
  offset,  (* how far it is read,                                          *)
  from,    (* the offset at which the last token began,                    *)
  token    (* and that token.                                              *)

tokens == <<text, offset, from, token>>

NoToken == [id |-> "none", length |-> 0]

Init ==
  /\ text \in Texts
  /\ offset = 0
  /\ from = 0
  /\ token = NoToken

(* regexx_lex_token: of the patterns with the longest match, the first.    *)
LexEnds == 
  [i \in DOMAIN Patterns |-> Eval(Patterns[i].heap, text, Patterns[i].heap.size, offset)]
First(S) == CHOOSE i \in S : \A j \in S : i <= j
Winner(ends) ==
  First({i \in DOMAIN ends : ends[i] > 0 /\ \A j \in DOMAIN ends : ends[j] <= ends[i]})
Found(ends) == \E i \in DOMAIN ends : ends[i] > 0

NextToken ==
  /\ \E ends \in {LexEnds} :
       /\ Found(ends)
       /\ LET i == Winner(ends)
          IN  /\ token' = [id |-> Patterns[i].id, length |-> ends[i] - offset]
              /\ offset' = ends[i]
  /\ from' = offset
  /\ UNCHANGED text

(* A character that is no token.                                           *)
BadChar ==
  /\ offset < Len(text)
  /\ ~Found(LexEnds)
  /\ token' = [id |-> "T__BADCHAR", length |-> 1]
  /\ offset' = offset + 1
  /\ from' = offset
  /\ UNCHANGED text

PretendNewline ==
  /\ offset = Len(text)
  /\ ~Found(LexEnds)
  /\ token' = [id |-> "T_NEWLINE", length |-> 1]
  /\ from' = offset
  /\ UNCHANGED <<text, offset>>

Next ==
  \/ NextToken
  \/ BadChar
  \/ PretendNewline

Spec == Init /\ [][Next]_tokens

-----------------------------------------------------------------------------
(***************************************************************************)
(* The reference: the lexical grammar of C, as predicates on words.        *)
(***************************************************************************)
All(w, S) == \A i \in DOMAIN w : w[i] \in S
Some(w, S) == w # <<>> /\ All(w, S)
Up(w, n) == SubSeq(w, 1, n)
From(w, n) == SubSeq(w, n + 1, Len(w))
Cat(V, W) == {v \o w : v \in V, w \in W}

Unsigneds == {<<"u">>, <<"U">>}
Longs == {<<"l">>, <<"L">>, <<"l", "l">>, <<"L", "L">>}
IntegerSuffix == {<<>>} \cup Unsigneds \cup Longs \cup Cat(Unsigneds, Longs) \cup Cat(Longs, Unsigneds)
FloatSuffix == {<<>>, <<"f">>, <<"F">>, <<"l">>, <<"L">>}

HasHexPrefix(w) == Len(w) > 1 /\ w[1] = "0" /\ w[2] \in {"x", "X"}
IsInteger(w) ==
  \E n \in 1 .. Len(w) :
    /\ From(w, n) \in IntegerSuffix
    /\ \/ w[1] # "0" /\ All(Up(w, n), Digits)
       \/ w[1] = "0" /\ All(Up(w, n), Octals)
       \/ HasHexPrefix(w) /\ n > 2 /\ All(SubSeq(w, 3, n), Hexes)

(* An exponent, and digits with one '.' among them.                        *)
IsExponent(w, letters) ==
  /\ Len(w) > 1 /\ w[1] \in letters
  /\ Some(From(w, IF w[2] \in {"+", "-"} THEN 2 ELSE 1), Digits)
IsPointed(w, S) ==
  /\ Len(w) > 1
  /\ \E i \in DOMAIN w : w[i] = "." /\ All(Up(w, i - 1), S) /\ All(From(w, i), S)
IsFloat(w) ==
  \E n \in 1 .. Len(w) : \E m \in 1 .. n :
    LET exponent == SubSeq(w, m + 1, n)
    IN  /\ From(w, n) \in FloatSuffix
        /\ \/ IsPointed(Up(w, m), Digits) /\ (m = n \/ IsExponent(exponent, {"e", "E"}))
           \/ Some(Up(w, m), Digits) /\ IsExponent(exponent, {"e", "E"})
           \/ /\ HasHexPrefix(w)
              /\ (IsPointed(SubSeq(w, 3, m), Hexes) \/ Some(SubSeq(w, 3, m), Hexes))
              /\ IsExponent(exponent, {"p", "P"})

(* What stands between quotes: a backslash goes with the character behind  *)
(* it.  Does w end such a body that begins behind offset n?                *)
Quoted(w, n, quote, barred) ==
  LET in[i \in n .. Len(w)] ==
        \/ i = n
        \/ in[i - 1] /\ w[i] \notin {quote, "\\", barred}
        \/ i > n + 1 /\ in[i - 2] /\ w[i - 1] = "\\" /\ (w[i] # "\n" \/ barred # "\n")
  IN  Len(w) > n /\ w[Len(w)] = quote /\ in[Len(w) - 1]

CharPrefix == {<<>>, <<"u">>, <<"U">>, <<"L">>}
StringPrefix == CharPrefix \cup {<<"u", "8">>}
Starts(w, p, quote) == Len(w) > Len(p) /\ Up(w, Len(p)) = p /\ w[Len(p) + 1] = quote
CharacterBarring(w, barred) ==
  \E p \in CharPrefix :
    Starts(w, p, "'") /\ Len(w) > Len(p) + 2 /\ Quoted(w, Len(p) + 1, "'", barred)
IsCharacter(w) == CharacterBarring(w, "\n")
IsLiteral(w) == \E p \in StringPrefix : Starts(w, p, "\"") /\ Quoted(w, Len(p) + 1, "\"", "\n")

(* Neighbouring strings, with the white space between and behind them, are *)
(* one token.                                                              *)
IsString(w) ==
  LET in[i \in 0 .. Len(w)] ==
        \/ i > 0 /\ in[i - 1] /\ w[i] \in Blanks \cup {"\n"}
        \/ \E j \in 0 .. i - 1 : (j = 0 \/ in[j]) /\ IsLiteral(SubSeq(w, j + 1, i))
  IN  in[Len(w)]

(* A backslash hides the newline behind it, carriage returns aside.        *)
IsSplice(w) ==
  /\ Len(w) > 1 /\ w[1] = "\\" /\ w[Len(w)] = "\n"
  /\ All(SubSeq(w, 2, Len(w) - 1), {"\r"})
IsBlank(w) ==
  LET in[i \in 0 .. Len(w)] ==
        \/ i = 0
        \/ in[i - 1] /\ w[i] \in Blanks
        \/ \E j \in 0 .. i - 2 : in[j] /\ IsSplice(SubSeq(w, j + 1, i))
  IN  w # <<>> /\ in[Len(w)]

IsBlock(w) ==
  /\ Len(w) > 3 /\ Up(w, 2) = <<"/", "*">> /\ From(w, Len(w) - 2) = <<"*", "/">>
  /\ \A i \in 3 .. Len(w) - 2 : ~(w[i] = "*" /\ w[i + 1] = "/")
Hidden(w, i) == \E j \in 1 .. i - 1 : IsSplice(SubSeq(w, j, i))
IsLineComment(w) ==
  Len(w) > 1 /\ Up(w, 2) = <<"/", "/">> /\ \A i \in DOMAIN w : w[i] = "\n" => Hidden(w, i)

IsName(w) == w # <<>> /\ w[1] \in Letters /\ All(w, Letters \cup Digits)

(* The kind of token that w is, if it is one.                              *)
KindOf(w) ==
  CASE w = <<"\n">> -> "T_NEWLINE"
    [] IsBlank(w) -> "T_WHITESPACE"
    [] IsInteger(w) \/ IsCharacter(w) -> "T_INTEGER"
    [] IsFloat(w) -> "T_FLOAT"
    [] IsString(w) -> "T_STRING"
    [] w \in Keyword -> "T_KEYWORD"
    [] w \in Operator -> "T_OP"
    [] IsName(w) -> "T_IDENTIFIER"
    [] IsBlock(w) \/ IsLineComment(w) -> "T_COMMENT"
    [] OTHER -> "none"

-----------------------------------------------------------------------------
(***************************************************************************)
(* Where the table does not follow C: its class for a character constant   *)
(* leaves out the letter n and not the newline; the '+' behind {SPLICE}    *)
(* repeats the newline alone, so that white space takes in empty lines     *)
(* that follow; and a // comment needs a newline behind it.                *)
(***************************************************************************)
Apart(rest) ==
  \E n \in DOMAIN rest :
    LET w == Up(rest, n)
    IN  \/ IsCharacter(w) # CharacterBarring(w, "n")
        \/ IsBlank(w) /\ w[n] = "\n" /\ n < Len(rest) /\ rest[n + 1] = "\n"
        \/ IsLineComment(w) /\ n = Len(rest)

(* Whatever stands in the file, the token is the longest one that C knows  *)
(* there, of the right kind, and a character that begins none is returned  *)
(* alone: no entry of the table hides or cuts short what another one       *)
(* stands for, though groups give nothing back and counted repetitions do  *)
(* not repeat.                                                             *)
LongestLexeme ==
  token.id # "none" /\ from < Len(text) =>
    \E rest \in {From(text, from)} :
      LET lexemes == {n \in DOMAIN rest : KindOf(Up(rest, n)) # "none"}
      IN  \/ Apart(rest)
          \/ lexemes = {} /\ token.id = "T__BADCHAR"
          \/ /\ token.length \in lexemes
             /\ \A n \in lexemes : n <= token.length
             /\ token.id = KindOf(Up(rest, token.length))
=============================================================================
