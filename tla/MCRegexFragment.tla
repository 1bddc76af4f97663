--------------------------- MODULE MCRegexFragment ---------------------------
(***************************************************************************)
(* A small instance of RegexFragment: classes and escapes put together     *)
(* from a few characters each, in every order.                             *)
(***************************************************************************)
EXTENDS RegexFragment

UpTo(n, S) == UNION {[1 .. k -> S] : k \in 0 .. n}

(* ^ - \ ] [ : d a c 0 1, a byte above 127 and its like.                   *)
ClassChars == {94, 45, 92, 93, 91, 58, 100, 97, 99, 48, 233, 128}
ClassTexts ==
  {<<91>> \o b \o <<93>> :
     b \in UpTo(3, ClassChars) \cup UpTo(4, ClassChars \ {91, 58, 233, 128})} \cup
  {<<91>> \o b : b \in UpTo(2, ClassChars)}

(* Pieces: \cA, \cZ, \x1a, \033, \0, \000, a-e, 1-3, x, yz, \-, \], !-\], \D, *)
(* \w, \s, ^, [, :, ranges from 128 to 254 and from a to 233, the byte 255   *)
(* and ranges with an escape at an end.                                     *)
Simple == {<<92, 99, 65>>, <<92, 99, 90>>, <<92, 120, 49, 97>>, <<92, 48, 51, 51>>,
           <<97, 45, 101>>, <<49, 45, 51>>, <<120>>, <<121, 122>>, <<92, 45>>, <<92, 93>>,
           <<128, 45, 254>>, <<92, 68>>, <<92, 119>>, <<92, 115>>, <<94>>}
Piece == Simple \cup
  {<<92, 48>>, <<92, 48, 48, 48>>, <<33, 45, 92, 93>>, <<91>>, <<58>>, <<97, 45, 233>>, <<255>>,
   <<97, 45, 92, 120, 54, 53>>, <<92, 120, 52, 49, 45, 92, 120, 53, 65>>, <<92, 45, 45, 46>>}
PieceTexts ==
  {<<91>> \o n \o a \o b \o c \o <<93>> :
     n \in {<<>>, <<94>>}, a \in Simple, b \in Simple \cup {<<>>}, c \in Simple} \cup
  {<<91>> \o n \o a \o b \o <<93>> :
     n \in {<<>>, <<94>>}, a \in Piece, b \in Piece \cup {<<>>}}

(* A backslash before c x u 0 1 3 7 9 a A d - { or a byte above 127.       *)
EscapeTexts ==
  {<<92>> \o b : b \in UpTo(3, {99, 120, 117, 48, 49, 51, 55, 57, 97, 65, 100, 45, 123, 233})} \cup
  {<<92, c>> : c \in 1 .. 254} \cup {<<92, 120, a, b>> : a, b \in {48, 49, 54, 65, 102}} \cup
  {<<92>> \o x \o <<117>> \o b : x \in {<<>>, <<120>>}, b \in UpTo(4, {48, 56})} \cup
  {<<92, 117, 123>> \o b \o <<125>> : b \in UpTo(3, {48, 102})}

(* A brace before 1 9 , } a _ and a parenthesis before ? = ! < : a.        *)
OtherTexts ==
  {<<123>> \o b : b \in UpTo(4, {49, 57, 44, 125, 97, 95})} \cup
  {<<40>> \o b : b \in UpTo(2, {63, 61, 33, 60, 58, 97})} \cup {<<c>> : c \in 1 .. 255}

MCTexts == ClassTexts \cup PieceTexts \cup EscapeTexts \cup OtherTexts
=============================================================================
