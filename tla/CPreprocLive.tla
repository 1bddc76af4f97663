---------------------------- MODULE CPreprocLive ----------------------------
(***************************************************************************)
(* The preprocessor beside the meaning of the lines it reads: `text` is    *)
(* what LiveText makes of the lines before the current one.                *)
(***************************************************************************)
EXTENDS CPreproc, LiveText

(* A line without the blanks at its start, what stands behind the # of a   *)
(* directive, and what stands behind the directive's name.                 *)
Solid(l) == Trim[l.tokens]
IsDirective(l) == Head(Solid(l)).id = "T__POUND"
WordsOf(l) == Trim[Tail(Solid(l))]
Operands(l) == Trim[Tail(WordsOf(l))]
NoPound(tokens) == Head(Trim[tokens]).id # "T__POUND"

(* The directives that the parser does not implement are all the same to   *)
(* it.                                                                     *)
KindOf(word) ==
  CASE word \in {"\n", "warning"} -> "note"
    [] word \in {"if", "ifdef", "ifndef", "else", "endif", "define",
                 "error", "undef", "elif"} -> word
    [] OTHER -> "unknown"

(* What the tokens of a line have to do with its meaning.  No directive    *)
(* stands behind another one in the same line.                             *)
NameMeans(l) ==
  l.means.wellFormed => l.means.name = Head(Operands(l)).string
IfdefMeans(l) ==
  /\ l.means.wellFormed = IsName(Head(Operands(l)))
  /\ NameMeans(l)
  /\ l.means.wellFormed => NoPound(Tail(Operands(l)))
EndifMeans(l) == l.means.wellFormed = IsNewline(Head(Operands(l)))
(* The body counts only if tokenlist_normalize stays inside the array.     *)
MacroMeans(def) ==
  [is_function |-> def.is_function, parms |-> def.parms, body |-> def.body]
DefineMeans(l) ==
  LET def == Defined[Operands(l)].def
  IN  /\ l.means.wellFormed = Defines(Operands(l))
      /\ NameMeans(l)
      /\ l.means.wellFormed =>
           /\ SameHead(l.means.definition, def)
           /\ ~OutOfBounds(Stripped[def.body]) =>
                l.means.definition = MacroMeans(Stored(def))

LineMeans(l) ==
  IF ~IsDirective(l) THEN l.means.kind = "text"
  ELSE /\ l.means.kind = KindOf(Head(WordsOf(l)).string)
       /\ l.means.kind \in {"ifdef", "ifndef"} => IfdefMeans(l)
       /\ l.means.kind = "else" => NoPound(Tail(WordsOf(l)))
       /\ l.means.kind = "endif" => EndifMeans(l)
       /\ l.means.kind = "define" => DefineMeans(l)

(* A word is an identifier or a keyword, but not now one, now the other.   *)
OneWord(k, l) ==
  /\ k.means.kind = "define" /\ k.means.wellFormed
  /\ l.means.kind = "define" /\ l.means.wellFormed
  /\ k.means.name = l.means.name
  => Head(Operands(k)) = Head(Operands(l))

ASSUME MeansAssumption ==
  /\ \A l \in Lines : LineMeans(l)
  /\ \A k, l \in Lines : OneWord(k, l)

VARIABLE text

LiveInit == PreprocInit /\ text = Nothing

(* What the current line is, also when it only goes on with the text of    *)
(* the one before; and whether a step gets to the end of it.               *)
Means == IF continued THEN [kind |-> "text"] ELSE line.means
LineRead == <<line, lineNo>>' # <<line, lineNo>>

LiveNext ==
  /\ PreprocNext
  /\ text' = IF LineRead THEN After(text, Means) ELSE text

LiveSpec == LiveInit /\ [][LiveNext]_<<pp, text>> /\ WF_<<pp, text>>(LiveNext)

-----------------------------------------------------------------------------
AtLine == pc = "loop" /\ line # NoLine /\ rest = line.tokens

(* The open section that a call stands for.                                *)
SectionOf(frame) ==
  IF frame.proc = "parse" THEN Section(TRUE, frame.is_else)
  ELSE Section(FALSE, frame.has_seen_else)

Sections == [i \in 1 .. Len(frames) - 1 |-> SectionOf(frames[i + 1])]

(* When a line begins, the calls in progress are the sections that are     *)
(* open, each live or dead as it should be and in its first or its second  *)
(* half, and the macros are those that live lines have defined: however    *)
(* sections were nested, skipped and handed over from half to half before. *)
(* Of each macro, kind, parameters and body are those of its first         *)
(* definition, whatever was defined again since.                           *)
SectionsAgree ==
  AtLine =>
    /\ Sections = text.sections
    /\ text.definitions = [name \in DOMAIN macros |-> MacroMeans(macros[name])]

(* A token is added only from a live line of text, or from what follows    *)
(* the name of an #ifdef or #ifndef that opens a live section; except for  *)
(* the blanks in front of a directive, which are added where it stands in  *)
(* live text.                                                              *)
OnlyLiveTextStep ==
  out' # NoToken =>
    \/ /\ Means.kind \in {"text", "ifdef", "ifndef"}
       /\ Live(After(text, Means))
    \/ IsSpace(out') /\ Live(text)
OnlyLiveText == [][OnlyLiveTextStep]_<<pp, text>>

(* Of a live line of text every token is added, the newline included, in   *)
(* its order, but for what an occurrence of a macro takes away: the name   *)
(* alone if it has no parameters; otherwise the name, as many blanks,      *)
(* names, commas and ellipses behind it as _process_PARMS reads, and the   *)
(* one token, of whatever kind, that it stops at, a newline perhaps, which *)
(* joins the next line to this one.  (Nothing is put in the place of what  *)
(* is taken away, although c-preproc.c:609-613 and c-preproc-macros.h:     *)
(* 26-27 promise the macro's replacement; and the token it stops at is the *)
(* parenthesis that opens the arguments, if there is one.)                 *)
MayBeParm(t) == IsSpace(t) \/ IsName(t) \/ t.id \in {"T_COMMA", "T_ELLIPSES"}
OnlyMacrosDroppedStep ==
  Means.kind = "text" /\ Live(text) /\ file' # file =>
    LET t    == Head(rest)
        left == IF LineRead THEN <<>> ELSE rest'
        read == Len(rest) - Len(left)
    IN  /\ read > 0 /\ left = SubSeq(rest, read + 1, Len(rest))
        /\ \/ out' = t /\ read = 1
           \/ /\ IsName(t) /\ t.string \in DOMAIN text.definitions
              /\ IF text.definitions[t.string].is_function
                 THEN \A n \in 2 .. read - 1 : MayBeParm(rest[n])
                 ELSE read = 1
OnlyMacrosDropped == [][OnlyMacrosDroppedStep]_<<pp, text>>

(* The parser goes on only behind lines that are in order: no #else behind *)
(* an #else or outside of a section, no stray #endif, no macro defined     *)
(* again as another kind of macro or with other parameters, no directive   *)
(* that it does not know in live text.  (It also goes on behind a macro    *)
(* defined again with another body, behind an occurrence of a macro whose  *)
(* arguments it could not read, and at the end of a file with a section    *)
(* still open.)                                                            *)
AcceptsOnlyGood == AtLine \/ pc = "done" => text.ok

(* It gives up only at a line that is not in order, or, in dead text, at a *)
(* directive that it cannot skip: #elif, #undef, or one it does not know.  *)
RefusesOnlyBad ==
  pc = "failed" =>
    \/ ~After(text, Means).ok
    \/ ~Live(text) /\ Means.kind \in {"elif", "undef", "unknown"}

(* C_NORM_ELSE reaches only the first of the two calls in _process_IFDEF,  *)
(* which is the one that answers it; anywhere else it would be an error.   *)
ElseAnswered ==
  pc = "return" /\ value = "C_NORM_ELSE" => Top.caller = "first"

(* tokenlist_normalize compares a comment with the token before it.  It is *)
(* never given a body that starts with one, although it does not itself    *)
(* remove it: _process_DEFINE does.  (What its memmove does behind the end *)
(* of the array is another matter, MacroTable!WritesBehind.)               *)
NeverReadsBefore ==
  LET tokens == Trim[Tail(words)]
  IN  Directive({"define"}) /\ Defines(tokens) =>
        ~ReadsBefore(Stripped[Defined[tokens].def.body])

(* preproc_parse returns for every file.                                   *)
Stops == <>(pc \in {"done", "failed", "undefined"})

=============================================================================
