----------------------------- MODULE MacroTable -----------------------------
(***************************************************************************)
(* src/examples/c-preproc-macros.c: the table of macro definitions.  The   *)
(* hash map underneath acts as a map (Hashmap!ActsAsMap), so the table is  *)
(* a function of the names, and memory is assumed to suffice.  A token is  *)
(* its id and its text; positions in the file are left out.                *)
(***************************************************************************)
EXTENDS Integers, Sequences, FiniteSetsExt, TLC

VARIABLE macros   (* ppm->macros: what each defined name stands for         *)

Token(id, string) == [id |-> id, string |-> string]

Whitespace == Token("T_WHITESPACE", " ")

Tokens == Seq([id : STRING, string : STRING])

IsSpace(t) == t.id \in {"T_WHITESPACE", "T_COMMENT"}

(* clex_tokens_are_equal                                                   *)
SameToken(s, t) == s.id = t.id /\ (IsSpace(s) \/ s.string = t.string)

-----------------------------------------------------------------------------
(* tokenlist_normalize.  It takes blanks off both ends, but no comments: a *)
(* slip in the conditions tests for T_WHITESPACE twice.                    *)
Stripped[body \in Tokens] ==
  LET solid == {i \in DOMAIN body : body[i].id # "T_WHITESPACE"}
  IN  IF solid = {} THEN <<>> ELSE SubSeq(body, Min(solid), Max(solid))

(* A space behind another is deleted with a memmove whose length is the    *)
(* whole list's, and a comment at the start is compared with the token     *)
(* before the list.  Either goes beyond the array.                         *)
ReadsBefore(body) == body # <<>> /\ body[1].id = "T_COMMENT"
WritesBehind(body) ==
  \E i \in 1 .. Len(body) - 1 : IsSpace(body[i]) /\ IsSpace(body[i + 1])

OutOfBounds(body) == ReadsBefore(body) \/ WritesBehind(body)

(* What is left to do within the array.                                    *)
Normalized(body) ==
  [i \in DOMAIN body |-> IF IsSpace(body[i]) THEN Whitespace ELSE body[i]]

-----------------------------------------------------------------------------
Definition(name, is_function, parms, body) ==
  [name |-> name, is_function |-> is_function, parms |-> parms,
   body |-> body]

(* ppmacros_lookup                                                         *)
IsDefined(t) == t.string \in DOMAIN macros

(* mutant: the parameters are forgotten, too                               *)
SameKind(m, def) ==
  SameToken(m.name, def.name) /\ m.is_function = def.is_function

(* macros_are_equal: the bodies are not compared.                          *)
MacrosAreEqual(m, def) ==
  /\ SameToken(m.name, def.name)
  /\ m.is_function = def.is_function
  /\ Len(m.parms) = Len(def.parms)
  /\ \A i \in DOMAIN m.parms : SameToken(m.parms[i], def.parms[i])

(* ppmacros_add returns -1 for a definition that is not a repetition.      *)
Refused(def) ==
  IsDefined(def.name) /\ ~MacrosAreEqual(macros[def.name.string], def)

Stored(def) == [def EXCEPT !.body = Normalized(Stripped[@])]

Add(def) ==
  macros' =
    IF IsDefined(def.name) THEN macros
    ELSE [name \in DOMAIN macros \cup {def.name.string} |->
            IF name = def.name.string THEN Stored(def) ELSE macros[name]]
=============================================================================
