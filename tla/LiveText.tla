------------------------------ MODULE LiveText ------------------------------
(***************************************************************************)
(* What conditional sections mean, without tokens and without recursion: a *)
(* stack of open sections, changed by one line at a time.  `means` is what *)
(* a line is to a reader: its kind and, where it has them, the name it is  *)
(* about, the definition of a macro (a function or not, its parameters and *)
(* its body), and whether it is well formed.                               *)
(***************************************************************************)
EXTENDS Sequences, SequencesExt

Nothing == [sections |-> <<>>, definitions |-> <<>>, ok |-> TRUE]

Section(live, seen_else) == [live |-> live, seen_else |-> seen_else]

AllLive(sections) == \A i \in DOMAIN sections : sections[i].live
Live(text) == AllLive(text.sections)

Bad(text) == [text EXCEPT !.ok = FALSE]

Opened(text, live) ==
  [text EXCEPT !.sections = Append(@, Section(live, FALSE))]

Conditional(text, means) ==
  CASE ~Live(text) -> Opened(text, FALSE)
    [] Live(text) /\ (means.kind = "if" \/ ~means.wellFormed) -> Bad(text)
    [] OTHER -> Opened(text, (means.name \in DOMAIN text.definitions)
                               = (means.kind = "ifdef"))

(* The other half of a section is live if the first was not and everything *)
(* around it is.                                                           *)
Else(text) ==
  IF text.sections = <<>> \/ Last(text.sections).seen_else THEN Bad(text)
  ELSE LET outer == Front(text.sections)
           live  == AllLive(outer) /\ ~Last(text.sections).live
       IN  [text EXCEPT !.sections = Append(outer, Section(live, TRUE))]

Endif(text, means) ==
  IF text.sections = <<>> \/ (Live(text) /\ ~means.wellFormed)
  THEN Bad(text)
  ELSE [text EXCEPT !.sections = Front(@)]

(* A macro may be defined again as the same kind of macro, with the same   *)
(* parameters, which changes nothing.  That the body must be the same too, *)
(* as c-preproc-macros.c:129-132 and c-preproc-macros.h:19-20 would have   *)
(* it, is left out on purpose: the code never looks at it.                 *)
SameHead(d, e) == d.is_function = e.is_function /\ d.parms = e.parms

Define(text, means) ==
  CASE ~Live(text) -> text
    [] Live(text) /\ ~means.wellFormed -> Bad(text)
    [] Live(text) /\ means.wellFormed /\ means.name \in DOMAIN text.definitions ->
         IF SameHead(text.definitions[means.name], means.definition) THEN text ELSE Bad(text)
    [] OTHER ->
         [text EXCEPT !.definitions =
            [name \in DOMAIN @ \cup {means.name} |->
               IF name = means.name THEN means.definition ELSE @[name]]]

After(text, means) ==
  CASE means.kind \in {"if", "ifdef", "ifndef"} -> Conditional(text, means)
    [] means.kind = "else" -> Else(text)
    [] means.kind = "endif" -> Endif(text, means)
    [] means.kind = "define" -> Define(text, means)
    [] means.kind \in {"error", "undef", "elif", "unknown"} ->
         IF Live(text) THEN Bad(text) ELSE text
    [] OTHER -> text
=============================================================================
