----------------------------- MODULE MCCPreproc -----------------------------
(***************************************************************************)
(* A small instance of CPreprocLive: the lines a file may have, each with  *)
(* its tokens and with what it means.                                      *)
(***************************************************************************)
EXTENDS CPreprocLive

Id(name) == Token("T_IDENTIFIER", name)
Word(name) == Token("T_KEYWORD", name)
Pound == Token("T__POUND", "#")
Space == Token("T_WHITESPACE", " ")
Comment == Token("T_COMMENT", "c")
Open == Token("T_PARENS_OPEN", "(")
Close == Token("T_PARENS_CLOSE", ")")
Comma == Token("T_COMMA", ",")
Dots == Token("T_ELLIPSES", "...")
NoParm == Token("T_WHITESPACE", "")

Line(tokens, means) ==
  [tokens |-> Append(tokens, NewlineToken), means |-> means]
TextLine(tokens) == Line(tokens, [kind |-> "text"])
OtherLine(kind, tokens) == Line(<<Pound>> \o tokens, [kind |-> kind])
DefineLine(tokens, name, definition) ==
  Line(<<Pound, Id("define"), Space>> \o tokens,
       [kind |-> "define", wellFormed |-> TRUE, name |-> name,
        definition |-> definition])
Object(body) == [is_function |-> FALSE, parms |-> <<>>, body |-> body]
Function(parms, body) == [is_function |-> TRUE, parms |-> parms, body |-> body]
BadDefine(tokens) ==
  Line(<<Pound, Id("define")>> \o tokens,
       [kind |-> "define", wellFormed |-> FALSE])
IfLine(kind, tokens, name) ==
  Line(<<Pound, Id(kind)>> \o tokens,
       [kind |-> kind, wellFormed |-> name # "", name |-> name])
EndifLine(tokens, wellFormed) ==
  Line(<<Pound, Id("endif")>> \o tokens,
       [kind |-> "endif", wellFormed |-> wellFormed])

MCLines == {
  TextLine(<<>>),
  TextLine(<<Space, Id("X")>>),
  TextLine(<<Id("F"), Id("a"), Comma, Close>>),
  TextLine(<<Id("F"), Open, Id("a"), Close>>),
  TextLine(<<Word("if"), Id("F")>>),
  DefineLine(<<Id("X"), Space, Id("a")>>, "X", Object(<<Id("a")>>)),
  DefineLine(<<Id("X"), Comment, Id("b"), Comment, Id("a"), Space>>, "X",
             Object(<<Id("b"), Space, Id("a")>>)),
  DefineLine(<<Id("X"), Space, Id("a"), Space, Comment>>, "X", Object(<<Id("a")>>)),
  DefineLine(<<Id("F"), Open, Id("a"), Comma, Close>>, "F", Function(<<Id("a"), NoParm>>, <<>>)),
  DefineLine(<<Id("F"), Open, Dots, Close, Comment, Id("a")>>, "F",
             Function(<<Dots>>, <<Id("a")>>)),
  DefineLine(<<Id("F"), Space, Open, Close>>, "F", Object(<<Open, Close>>)),
  BadDefine(<<Space, Id("F"), Open, Id("a"), Comma, Id("a"), Close>>),
  BadDefine(<<>>),
  IfLine("ifdef", <<Space, Id("X")>>, "X"),
  IfLine("ifndef", <<Space, Id("F"), Comment, Id("a")>>, "F"),
  IfLine("ifdef", <<>>, ""),
  OtherLine("if", <<Word("if"), Space, Id("X")>>),
  OtherLine("else", <<Space, Word("else")>>),
  Line(<<Space, Comment, Pound, Space, Word("else")>>, [kind |-> "else"]),
  EndifLine(<<Space>>, TRUE),
  EndifLine(<<Id("a")>>, FALSE),
  OtherLine("note", <<Space>>),
  OtherLine("note", <<Id("warning"), Space, Id("X")>>),
  OtherLine("error", <<Id("error")>>),
  OtherLine("undef", <<Id("undef"), Id("X")>>),
  OtherLine("elif", <<Id("elif"), Id("X")>>),
  OtherLine("unknown", <<Id("a")>>)}
=============================================================================
