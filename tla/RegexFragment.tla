---------------------------- MODULE RegexFragment ----------------------------
(***************************************************************************)
(* How the characters of a pattern become one fragment: the reading half   *)
(* of _parse_next_node in src/src/regexx.c, with its escapes, numbers and  *)
(* bracketed classes, and the way back, which _node_print takes.  What is  *)
(* read here is what RegexCompile starts from.                             *)
(*                                                                         *)
(* Characters are bytes.  A charclass_t, four 64-bit words, is the set of  *)
(* the bytes whose bits are set.  A fragment that is a character or a      *)
(* class is printed and what was printed is read again.                    *)
(***************************************************************************)
EXTENDS Integers, Sequences, FiniteSets, TLC

CONSTANTS
  Texts,     (* What stands in the pattern from the fragment on.           *)
  SIZE_MAX   (* The largest size_t.                                        *)

Byte == 0 .. 255

ASSUME TextAssumption == Texts \subseteq Seq(Byte \ {0}) \ {<<>>}
ASSUME SizeAssumption == SIZE_MAX \in Nat \ {0}

Caret == 94
Dash == 45
Backslash == 92
Colon == 58
LBracket == 91
RBracket == 93
LBrace == 123
RBrace == 125
LParen == 40
Comma == 44
Question == 63
Underscore == 95

Digits == 48 .. 57
Upper  == 65 .. 90
Lower  == 97 .. 122
Alpha  == Upper \cup Lower
Octal  == 48 .. 55
Punct  == (33 .. 126) \ (Digits \cup Alpha)
Graph  == 32 .. 126                      (* isprint                        *)

Whitespace == {9, 10, 11, 12, 13, 32}    (* _whitespace                    *)
Word == Alpha \cup Digits \cup {95}      (* _word                          *)

VARIABLES
  text,      (* the pattern, from the fragment on                          *)
  offset,    (* *offset, relative to the fragment                          *)
  pc,        (* Is the fragment begun, in a class, read, refused?          *)
  inverted,  (* is_inverted                                                *)
  charclass, (* the class so far                                           *)
  prev,      (* the character a '-' starts a range from                    *)
  result,    (* the fragment                                               *)
  printed    (* The fragment whose print is being read, if it is one.      *)

vars == <<text, offset, pc, inverted, charclass, prev, result, printed>>

None == [k |-> "none"]

-----------------------------------------------------------------------------
(***************************************************************************)
(* Characters.  _next_char and _peek_char return a `char`, which is signed *)
(* here, as an int, and -1 at the end.                                     *)
(***************************************************************************)
EOF == -1
Signed(b) == IF b < 128 THEN b ELSE b - 256
PeekChar(t, o) == IF o < Len(t) THEN Signed(t[o + 1]) ELSE EOF
After(t, o) == IF o < Len(t) THEN o + 1 ELSE o

(* The first offset from o on whose character is not in S.                 *)
RunEnd(t, o, S) ==
  CHOOSE e \in o .. Len(t) :
    PeekChar(t, e) \notin S /\ \A x \in o .. e - 1 : PeekChar(t, x) \in S

HexVal(c) ==
  CASE c \in Digits    -> c - 48
    [] c \in 97 .. 102 -> c - 87
    [] c \in 65 .. 70  -> c - 55
    [] OTHER           -> 255

IsHex(c)   == HexVal(c) <= 15
IsOctal(c) == HexVal(c) < 8

(* _parse_integer of the digits from o up to e, in a size_t.               *)
Number(t, o, e) ==
  LET value[x \in o .. e] ==
        IF x = o THEN 0 ELSE (value[x - 1] * 10 + t[x] - 48) % (SIZE_MAX + 1)
  IN  value[e]

(* What is read of a fragment, and the offset behind it.                   *)
Reading(f, o) == [ok |-> TRUE, f |-> f, off |-> o]
Refused == [ok |-> FALSE, f |-> None, off |-> 0]

-----------------------------------------------------------------------------
(* _charclass_from_escseq, from the character behind the backslash on.     *)
Escaped == 97 :> {7} @@ 98 :> {8} @@ 110 :> {10} @@ 114 :> {13} @@ 116 :> {9} @@
           102 :> {12} @@ 118 :> {11} @@
           100 :> Digits @@ 68 :> Byte \ Digits @@
           119 :> Word @@ 87 :> Byte \ Word @@
           115 :> Whitespace @@ 83 :> Byte \ Whitespace

OctalNumber(t, o) ==
  IF PeekChar(t, o) \in 48 .. 51 /\ IsOctal(PeekChar(t, o + 1)) /\ IsOctal(PeekChar(t, o + 2))
    THEN Reading({HexVal(PeekChar(t, o)) * 64 + HexVal(PeekChar(t, o + 1)) * 8
                  + HexVal(PeekChar(t, o + 2))}, o + 3)
    ELSE Refused

(* A backslash and a zero that no octal digit follows takes the character  *)
(* behind it, whatever it is, for the one that is meant.                   *)
EscSeq(t, o) ==
  LET c  == PeekChar(t, o)
      c1 == PeekChar(t, o + 1)
      c2 == PeekChar(t, o + 2)
  IN  CASE c \in DOMAIN Escaped -> Reading(Escaped[c], o + 1)
        [] c = 99 ->                                       (* \cA to \cZ   *)
             IF c1 \in Upper THEN Reading({c1 - 65}, o + 2) ELSE Refused
        [] c = 120 ->                                      (* \x41         *)
             IF IsHex(c1) /\ IsHex(c2)
               THEN Reading({HexVal(c1) * 16 + HexVal(c2)}, o + 3) ELSE Refused
        [] c = 48 /\ ~IsOctal(c1) -> Reading({c1 % 256}, After(t, o + 1))
        [] c \in 48 .. 51 /\ (c # 48 \/ IsOctal(c1)) -> OctalNumber(t, o)
        [] c \in Punct -> Reading({c}, o + 1)
        [] OTHER -> Refused

Char(c) == [k |-> "char", c |-> c % 256]
Class(S) == [k |-> "class", set |-> S]

(* An escape outside of brackets is a character if it stands for one.      *)
ReadEscape(t, o) ==
  LET r == EscSeq(t, o)
  IN  IF ~r.ok THEN Refused
      ELSE IF Cardinality(r.f) = 1
             THEN Reading(Char(CHOOSE c \in r.f : TRUE), r.off)
             ELSE Reading(Class(r.f), r.off)

(***************************************************************************)
(* \u41: the code peeks at the 'u' instead of passing it, so that          *)
(* _unicode_from_number starts at o, with the 'u'.                         *)
(***************************************************************************)
UnicodeStart(o) == o

HexNumber(t, o, e) ==
  LET value[x \in o .. e] ==
        IF x = o THEN 0 ELSE value[x - 1] * 16 + HexVal(PeekChar(t, x - 1))
  IN  value[e]

UnicodeFromNumber(t, o) ==
  LET digits == RunEnd(t, o + 1, {c \in Byte : IsHex(c)})
  IN  CASE PeekChar(t, o) = LBrace /\ PeekChar(t, digits) = RBrace ->
             [ok |-> TRUE, uc |-> HexNumber(t, o + 1, digits), off |-> digits + 1]
        [] \A x \in o .. o + 3 : IsHex(PeekChar(t, x)) ->
             [ok |-> TRUE, uc |-> HexNumber(t, o, o + 4), off |-> o + 4]
        [] OTHER -> [ok |-> FALSE]

ReadUnicode(t, o) ==
  LET r == UnicodeFromNumber(t, UnicodeStart(o))
  IN  IF ~r.ok \/ (r.ok /\ r.uc >= 1114111) THEN Refused
      ELSE Reading([k |-> "unicode", uc |-> r.uc], r.off)

-----------------------------------------------------------------------------
(***************************************************************************)
(* '{' begins a macro's name, which ends in '}' and is passed as a whole,  *)
(* or a repetition, whose '}' is looked for but not passed.                *)
(***************************************************************************)
NameEnd(t, o) == RunEnd(t, o, Alpha \cup Digits \cup {Underscore})
IsMacro(t, o) ==
  PeekChar(t, o) \in Alpha \cup {Underscore} /\ PeekChar(t, NameEnd(t, o)) = RBrace

CommaAt(t, o) == PeekChar(t, RunEnd(t, o, Digits)) = Comma
RepeatEnd(t, o) ==
  LET e == RunEnd(t, o, Digits)
  IN  IF CommaAt(t, o) THEN RunEnd(t, e + 1, Digits) ELSE e
IsQuantifier(t, o) == RepeatEnd(t, o) > o /\ PeekChar(t, RepeatEnd(t, o)) = RBrace

BraceBounds(t, o) ==
  LET e == RunEnd(t, o, Digits)
  IN  [k |-> "brace",
       min |-> Number(t, o, e),
       max |-> IF CommaAt(t, o) THEN Number(t, e + 1, RepeatEnd(t, o)) ELSE SIZE_MAX]
ReadBrace(t, o) ==
  CASE IsMacro(t, o) ->
         Reading([k |-> "macro", name |-> SubSeq(t, o + 1, NameEnd(t, o))], NameEnd(t, o) + 1)
    [] IsQuantifier(t, o) -> Reading(BraceBounds(t, o), RepeatEnd(t, o))
    [] OTHER -> Refused

(* "(", "(?:", "(?=", "(?!"; a '?' before anything else is passed over.    *)
Open(look, inv) == [k |-> "open", look |-> look, inv |-> inv]
ReadGroup(t, o) ==
  IF PeekChar(t, o) # Question THEN Reading(Open(FALSE, FALSE), o)
  ELSE CASE PeekChar(t, o + 1) = 61    -> Reading(Open(TRUE, FALSE), o + 2)
         [] PeekChar(t, o + 1) = 33    -> Reading(Open(TRUE, TRUE), o + 2)
         [] PeekChar(t, o + 1) = 60    -> Refused
         [] PeekChar(t, o + 1) = Colon -> Reading(Open(FALSE, FALSE), o + 2)
         [] OTHER                      -> Reading(Open(FALSE, FALSE), o + 1)

Mark == Caret :> [k |-> "atom", t |-> "T_ANCHOR_BEGIN"] @@
        36 :> [k |-> "atom", t |-> "T_ANCHOR_END"] @@
        46 :> [k |-> "atom", t |-> "T_DOT_ALL"] @@
        42 :> [k |-> "quant", min |-> 0, max |-> SIZE_MAX] @@
        43 :> [k |-> "quant", min |-> 1, max |-> SIZE_MAX] @@
        Question :> [k |-> "question"] @@ 124 :> [k |-> "bar"] @@ 41 :> [k |-> "close"]

(* The switch of _parse_next_node, but for '['.                            *)
ReadFragment(t) ==
  LET c == PeekChar(t, 0)
  IN  CASE c = EOF -> Refused
        [] c \in DOMAIN Mark -> Reading(Mark[c], 1)
        [] c = LBrace -> ReadBrace(t, 1)
        [] c = LParen -> ReadGroup(t, 1)
        [] c = Backslash ->
             IF PeekChar(t, 1) = 117 THEN ReadUnicode(t, 1) ELSE ReadEscape(t, 1)
        [] OTHER -> Reading(Char(c), 1)

-----------------------------------------------------------------------------
(***************************************************************************)
(* _charclass_add_range counts from one `unsigned` to the other and keeps  *)
(* the low byte of each: a negative character is a very large number.      *)
(***************************************************************************)
RangeHalfOpen(first, last) == {x % 256 : x \in first .. last - 1}   (* mutant: < *)
RangeSigned(first, last) == {x % 256 : x \in first .. last}
AddRange(first, last) ==
  IF first >= 0 /\ last < 0 THEN Byte
  ELSE IF first < 0 /\ last >= 0 THEN {}
  ELSE RangeSigned(first, last)

Init ==
  /\ text \in Texts
  /\ offset = 0
  /\ pc = "begin"
  /\ inverted = FALSE
  /\ charclass = {}
  /\ prev = EOF
  /\ result = None
  /\ printed = None

Next1 == PeekChar(text, offset)
Next2 == PeekChar(text, offset + 1)

Refuse ==
  /\ pc' = "refused"
  /\ UNCHANGED <<text, offset, inverted, charclass, prev, result, printed>>

ReadShort ==
  /\ pc = "begin"
  /\ Next1 # LBracket
  /\ LET r == ReadFragment(text)
     IN  \/ ~r.ok /\ Refuse
         \/ /\ r.ok
            /\ pc' = "read"
            /\ result' = r.f
            /\ offset' = r.off
            /\ UNCHANGED <<text, inverted, charclass, prev, printed>>

OpenClass ==
  /\ pc = "begin"
  /\ Next1 = LBracket
  /\ pc' = "class"
  /\ inverted' = (Next2 = Caret)
  /\ offset' = IF Next2 = Caret THEN 2 ELSE 1
  /\ UNCHANGED <<text, charclass, prev, result, printed>>

(* The turns of the loop that reads a class.                               *)
InClass == pc = "class" /\ UNCHANGED <<text, pc, inverted, result, printed>>

ClassEscape ==
  /\ pc = "class"
  /\ Next1 = Backslash
  /\ LET r == EscSeq(text, offset + 1)
     IN  \/ ~r.ok /\ Refuse
         \/ /\ r.ok
            /\ InClass
            /\ charclass' = charclass \cup r.f
            /\ prev' = EOF
            /\ offset' = r.off

(* "this cannot be a range"                                                *)
ClassDash ==
  /\ Next1 = Dash
  /\ prev = EOF \/ Next2 = RBracket
  /\ InClass
  /\ charclass' = charclass \cup {Dash}
  /\ prev' = Dash
  /\ offset' = offset + 1

(* The end of a range may have a backslash, which changes nothing.         *)
RangeAt == IF Next2 = Backslash THEN offset + 2 ELSE offset + 1
ClassRange ==
  /\ Next1 = Dash
  /\ prev # EOF
  /\ Next2 # RBracket
  /\ PeekChar(text, RangeAt) # EOF
  /\ InClass
  /\ charclass' = charclass \cup AddRange(prev, PeekChar(text, RangeAt))
  /\ prev' = EOF
  /\ offset' = RangeAt + 1

ClassChar ==
  /\ Next1 \notin {EOF, RBracket, Backslash, Dash}
  /\ ~(Next1 = LBracket /\ Next2 = Colon)
  /\ InClass
  /\ charclass' = charclass \cup {Next1 % 256}
  /\ prev' = Next1
  /\ offset' = offset + 1

(* A range without its end, a class without its end, or [:name:].  Of a    *)
(* name, _charclass_from_nameseq reads the first colon and, in comparing,  *)
(* takes it for the whole name, so that it knows none.                     *)
ClassBad ==
  /\ pc = "class"
  /\ \/ Next1 = EOF
     \/ Next1 = Dash /\ prev # EOF /\ Next2 # RBracket /\ PeekChar(text, RangeAt) = EOF
     \/ Next1 = LBracket /\ Next2 = Colon
  /\ Refuse

CloseClass ==
  /\ pc = "class"
  /\ Next1 = RBracket
  /\ pc' = "read"
  /\ result' = Class(IF inverted THEN Byte \ charclass ELSE charclass)
  /\ offset' = offset + 1
  /\ UNCHANGED <<text, inverted, charclass, prev, printed>>

-----------------------------------------------------------------------------
(***************************************************************************)
(* _charclass_print.  A run is of letters or of digits; shorter ones than  *)
(* three are written out.  The buffer of 1024 bytes holds every class.     *)
(***************************************************************************)
RunOf(S, kind, c) ==
  CHOOSE n \in 0 .. 26 :
    /\ \A x \in c .. c + n - 1 : x \in kind /\ x \in S
    /\ c + n \in kind => c + n \notin S
Run(S, c) ==
  IF c \in Alpha THEN RunOf(S, Alpha, c)
  ELSE IF c \in Digits THEN RunOf(S, Digits, c) ELSE 0

Blank == 9 :> 116 @@ 10 :> 110 @@ 11 :> 118 @@ 12 :> 102 @@ 13 :> 114

PrintByte(c) ==
  CASE c = 0 -> <<Backslash, 48>>
    [] c \in {Caret, Dash, LBracket, RBracket, Backslash} -> <<Backslash, c>>
    [] c \in DOMAIN Blank -> <<Backslash, Blank[c]>>
    [] c \in (1 .. 26) \ DOMAIN Blank -> <<Backslash, 99, 65 + c>>
    [] c \in Graph \ {Caret, Dash, LBracket, RBracket, Backslash} -> <<c>>
    [] OTHER -> <<Backslash, 48 + c \div 64, 48 + ((c \div 8) % 8), 48 + (c % 8)>>

(* Behind the first of a long run, nothing is printed of it.  The pieces   *)
(* are joined in halves.                                                   *)
CharclassPrint(S) ==
  LET long == {c \in S : Run(S, c) > 2}
      behind == UNION {c + 1 .. c + Run(S, c) - 1 : c \in long}
      piece(c) == IF c \in behind \/ c \notin S THEN <<>>
                  ELSE IF c \in long THEN <<c, Dash, c + Run(S, c) - 1>>
                  ELSE PrintByte(c)
      joined[k \in 0 .. 8, n \in Byte] ==
        IF k = 0 THEN piece(n) ELSE joined[k - 1, 2 * n] \o joined[k - 1, 2 * n + 1]
  IN  joined[8, 0]

Shorthand == Whitespace :> <<Backslash, 115>> @@ (Byte \ Whitespace) :> <<Backslash, 83>> @@
             Word :> <<Backslash, 119>> @@ (Byte \ Word) :> <<Backslash, 87>> @@
             Digits :> <<Backslash, 100>> @@ (Byte \ Digits) :> <<Backslash, 68>> @@
             Byte :> <<LBracket, Backslash, 115, Backslash, 83, RBracket>>

(* The class or its complement, whichever is written shorter.              *)
PrintUninverted(S) ==   (* mutant: "[^" is printed as "["                    *)
  LET normal == CharclassPrint(S)
      inverse == CharclassPrint(Byte \ S)
  IN  IF S \in DOMAIN Shorthand THEN Shorthand[S]
      ELSE <<LBracket>> \o (IF Len(normal) < Len(inverse) THEN normal ELSE inverse)
           \o <<RBracket>>
PrintClass(S) ==
  LET normal == CharclassPrint(S)
      inverse == CharclassPrint(Byte \ S)
  IN  IF S \in DOMAIN Shorthand THEN Shorthand[S]
      ELSE IF Len(normal) < Len(inverse) THEN <<LBracket>> \o normal \o <<RBracket>>
      ELSE <<LBracket, Caret>> \o inverse \o <<RBracket>>

(* _node_print_chars, of one character.  strchr also finds the zero, whose *)
(* print ends the string behind the backslash.                             *)
Special == {46, 94, 36, 42, 43, 63, 40, 41, 91, 123, 125, 92, 124}
PrintChar(c) ==
  CASE c = 0 -> <<Backslash>>
    [] c \in Special -> <<Backslash, c>>
    [] c = 7 -> <<Backslash, 97>>
    [] c = 8 -> <<Backslash, 98>>
    [] c \in DOMAIN Blank -> <<Backslash, Blank[c]>>
    [] OTHER -> <<c>>

PrintFragment(f) ==
  IF f.k = "char" THEN PrintChar(f.c) ELSE PrintClass(f.set)

(* The fragment is printed, and the print is read as a pattern.            *)
PrintAgain ==
  /\ pc = "read"
  /\ printed = None
  /\ result.k \in {"char", "class"}
  /\ printed' = result
  /\ text' = PrintFragment(result)
  /\ offset' = 0
  /\ pc' = "begin"
  /\ inverted' = FALSE
  /\ charclass' = {}
  /\ prev' = EOF
  /\ result' = None

Next ==
  \/ ReadShort
  \/ OpenClass
  \/ ClassEscape
  \/ ClassDash
  \/ ClassRange
  \/ ClassChar
  \/ ClassBad
  \/ CloseClass
  \/ PrintAgain

Spec == Init /\ [][Next]_vars

-----------------------------------------------------------------------------
(***************************************************************************)
(* The documents as a reference: what the escapes, the classes and the     *)
(* repetitions of docs/REGEX.md:3-28, and the \uFFFF and \u{FFF} of        *)
(* README.md:169, stand for.  Nothing is left out of what these lines      *)
(* write that one fragment can be; where the code reads it otherwise is    *)
(* listed below, under Departs.                                            *)
(***************************************************************************)
DocLetter == 116 :> {9} @@ 110 :> {10} @@ 118 :> {11} @@ 102 :> {12} @@ 114 :> {13} @@
             100 :> Digits @@ 119 :> Word @@ 115 :> Whitespace @@
             68 :> Byte \ Digits @@ 87 :> Byte \ Word @@ 83 :> Byte \ Whitespace @@
             48 :> {0}
DocPunct == Special \cup {47, Dash, RBracket}

IsNull(w)    == w = <<Backslash, 48>>
IsControl(w) == Len(w) = 3 /\ w[1] = Backslash /\ w[2] = 99 /\ w[3] \in Upper

(* The set w is an escape for, or nothing if the documents have none such. *)
EscapeMeaning(w) ==
  CASE Len(w) = 2 /\ w[1] = Backslash /\ w[2] \in DOMAIN DocLetter -> DocLetter[w[2]]
    [] Len(w) = 2 /\ w[1] = Backslash /\ w[2] \in DocPunct -> {w[2]}
    [] IsControl(w) -> {w[3] - 64}
    [] /\ Len(w) = 4 /\ w[1] = Backslash /\ w[2] = 120
       /\ IsHex(w[3]) /\ IsHex(w[4]) -> {HexVal(w[3]) * 16 + HexVal(w[4])}
    [] /\ Len(w) = 4 /\ w[1] = Backslash
       /\ w[2] \in 48 .. 51 /\ w[3] \in Octal /\ w[4] \in Octal ->
         {64 * (w[2] - 48) + 8 * (w[3] - 48) + w[4] - 48}
    [] OTHER -> {}

(* "within char classes, only \-] need escapes".  A range is from one      *)
(* character to another, each plain or an escape.                          *)
Plain == (1 .. 255) \ {Backslash, Dash, RBracket}
EndMeaning(w) == IF Len(w) = 1 /\ w[1] \in Plain THEN {w[1]} ELSE EscapeMeaning(w)
RangeDashes(w) ==
  {d \in 2 .. Len(w) - 1 :
     /\ w[d] = Dash
     /\ Cardinality(EndMeaning(SubSeq(w, 1, d - 1))) = 1
     /\ Cardinality(EndMeaning(SubSeq(w, d + 1, Len(w)))) = 1}
PieceMeaning(w) ==
  EndMeaning(w) \cup
  {x \in Byte : \E d \in RangeDashes(w) :
                  /\ \E first \in EndMeaning(SubSeq(w, 1, d - 1)) : first <= x
                  /\ \E last \in EndMeaning(SubSeq(w, d + 1, Len(w))) : x <= last}
LongestPiece == 9   (* "\x41-\x5A" *)

(* The body of a class as its pieces from left to right, each as long as   *)
(* can be; one that is empty if there is no way on.                        *)
Pieces(body) ==
  LET ends(x) == {y \in x + 1 .. Len(body) :
                    y - x <= LongestPiece /\ PieceMeaning(SubSeq(body, x + 1, y)) # {}}
      from[x \in 0 .. Len(body)] ==
        IF x = Len(body) THEN <<>>
        ELSE LET E == ends(x)
             IN  IF E = {} THEN <<<<>>>>
                 ELSE LET y == CHOOSE y \in E : \A z \in E : z <= y
                      IN  <<SubSeq(body, x + 1, y)>> \o from[y]
  IN  from[0]

(* A class of the documents as the set of its pieces, and what it means.   *)
IsInverted(t) == Len(t) > 1 /\ t[2] = Caret
Body(t) == SubSeq(t, IF IsInverted(t) THEN 3 ELSE 2, Len(t) - 1)
IsBracketed(t) == Len(t) > 1 /\ t[1] = LBracket /\ t[Len(t)] = RBracket
ClassPieces(t) == IF IsBracketed(t) THEN Pieces(Body(t)) ELSE <<>>
IsClass(ps) == ps # <<>> /\ \A i \in DOMAIN ps : ps[i] # <<>>
ClassMeaning(t, ps) ==
  LET set == UNION {PieceMeaning(ps[i]) : i \in DOMAIN ps}
  IN  Class(IF IsInverted(t) THEN Byte \ set ELSE set)

(* "{2,3}", "{,3}" and "{2,}", whose numbers fit a size_t.                 *)
Decimal(ds) ==
  LET value[x \in 0 .. Len(ds)] == IF x = 0 THEN 0 ELSE value[x - 1] * 10 + ds[x] - 48
  IN  value[Len(ds)]
Bounds(t, comma) ==
  [k |-> "brace", min |-> Decimal(SubSeq(t, 2, comma - 1)),
                  max |-> IF comma + 1 = Len(t) THEN SIZE_MAX
                          ELSE Decimal(SubSeq(t, comma + 1, Len(t) - 1))]
BoundsOf(t) ==
  {Bounds(t, comma) : comma \in {x \in DOMAIN t :
     /\ Len(t) > 3 /\ t[1] = LBrace /\ t[x] = Comma /\ t[Len(t)] = RBrace
     /\ \A y \in (2 .. Len(t) - 1) \ {x} : t[y] \in Digits}}

(* "\uFFFF" (in REGEX.md also "\xuFFFF") and "\u{FFF}".                    *)
CodePoint(t) ==
  LET u == IF Len(t) > 1 /\ t[2] = 120 THEN 3 ELSE 2
      hex(a, b) == a <= b /\ \A x \in a .. b : IsHex(t[x])
  IN  CASE ~(Len(t) > u /\ t[1] = Backslash /\ t[u] = 117) -> {}
        [] Len(t) = u + 4 /\ hex(u + 1, u + 4) -> {HexNumber(t, u, u + 4)}
        [] t[u + 1] = LBrace /\ t[Len(t)] = RBrace /\ hex(u + 2, Len(t) - 1) ->
             {HexNumber(t, u + 1, Len(t) - 1)}
        [] OTHER -> {}

(* What a text that is described as a whole must be read as, and how far;  *)
(* the '}' of a repetition is left.                                        *)
Documented(t, ps) ==
  CASE IsClass(ps) -> {<<ClassMeaning(t, ps), Len(t)>>}
    [] Len(t) = 1 /\ t[1] \notin DocPunct \ {Dash} -> {<<Char(t[1]), 1>>}
    [] EscapeMeaning(t) # {} ->
         IF Cardinality(EscapeMeaning(t)) = 1
           THEN {<<Char(c), Len(t)>> : c \in EscapeMeaning(t)}
           ELSE {<<Class(EscapeMeaning(t)), Len(t)>>}
    [] OTHER ->
         {<<b, Len(t) - 1>> : b \in {x \in BoundsOf(t) : x.min <= SIZE_MAX /\ x.max <= SIZE_MAX}}
         \cup {<<[k |-> "unicode", uc |-> uc], Len(t)>> : uc \in CodePoint(t)}

(***************************************************************************)
(* Where the code departs from the documents: \cI (regexx.c:699 counts     *)
(* from 0), \0 (which takes the character behind it), the byte 255 (which  *)
(* reads as the end of the input), in a class a range from below 128 to    *)
(* above (which holds every byte), a range with an escape for an end       *)
(* (which is a '-' between two characters, or ends behind the backslash)   *)
(* and a '[' before a ':' (which begins a name); and the repetition {2,}   *)
(* (which is {2,0}) and every \u (which the code reads from the 'u' on).   *)
(***************************************************************************)
Crosses(w) == Len(w) = 3 /\ RangeDashes(w) # {} /\ (w[1] < 128) # (w[3] < 128)
HasEscapedEnd(w) ==
  \E d \in RangeDashes(w) :
    d > 2 \/ (Len(w) > 3 /\ ~(Len(w) = 4 /\ w[3] = Backslash /\ w[4] \in DocPunct))
PieceDeparts(w) ==
  IsNull(w) \/ IsControl(w) \/ Crosses(w) \/ HasEscapedEnd(w) \/
  \E x \in DOMAIN w : w[x] = 255
NameDeparts(ps) ==
  \E i \in 1 .. Len(ps) - 1 : ps[i] = <<LBracket>> /\ ps[i + 1][1] = Colon
IsOpenBrace(t) == BoundsOf(t) # {} /\ t[Len(t) - 1] = Comma
Departs(t, ps) ==
  IF IsClass(ps) THEN NameDeparts(ps) \/ \E i \in DOMAIN ps : PieceDeparts(ps[i])
  ELSE PieceDeparts(t) \/ IsOpenBrace(t) \/ CodePoint(t) # {}

(* Several departures may make up for each other, and so may a '-' that is *)
(* a character where a range is meant, as in [\--.].                       *)
DepartsForSure(t, ps) ==
  /\ Departs(t, ps)
  /\ IsClass(ps) =>
       /\ \A i \in DOMAIN ps : ~HasEscapedEnd(ps[i])
       /\ Len(ps) = 1 \/ \A i \in DOMAIN ps : ~PieceDeparts(ps[i])

-----------------------------------------------------------------------------
Finished == pc \in {"read", "refused"}

(* What the documents write is accepted, to its last character, and stands *)
(* for what they say, whatever pieces a class is put together from, unless *)
(* the list above names it.  And the list names nothing in vain: what is   *)
(* on it, by itself or in a class of its own, is refused or stands for     *)
(* something else than the documents say.                                  *)
ReadsAsDocumented ==
  Finished /\ printed = None =>
    LET ps == ClassPieces(text)
    IN  \A d \in Documented(text, ps) :
          LET asWritten == pc = "read" /\ result = d[1] /\ offset = d[2]
          IN  /\ ~Departs(text, ps) => asWritten
              /\ DepartsForSure(text, ps) => ~asWritten

(* What _node_print writes for a character or a class reads as the same    *)
(* one, the choice between a class and its complement included, unless     *)
(* what it writes has the character 0, 26 or, outside of a class, 255.     *)
Writable(f) ==
  IF f.k = "char" THEN f.c \notin {0, 255}
  ELSE f.set \in DOMAIN Shorthand \/
       {0, 26} \cap (IF text[2] = Caret THEN Byte \ f.set ELSE f.set) = {}
PrintedReadsBack ==
  Finished /\ printed # None /\ Writable(printed) =>
    pc = "read" /\ result = printed /\ offset = Len(text)
=============================================================================
