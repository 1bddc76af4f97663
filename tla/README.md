# A verification project for regexx

regexx is a small regular-expression engine in C (`src/src/regexx.c`) with a
lex-like interface, and a set of programs built on it (`src/examples/`): a
tokenizer for C, the beginnings of a C preprocessor, a hash table, and a
grep. This directory holds TLA+ modules that model the engine and its users,
TLC configurations that check them on small instances, and TLAPS proofs of
the properties that matter most, for every value of the constants.

Paths below are relative to the repository (`regexx.c` is
`src/regexx.c` there). Everything is sequential: there are no threads, no messages and
no persistent state, so there is no crash recovery and no interleaving to
model. What is hard here is of another kind: pointer surgery whose result
depends on long sequences of earlier surgery, objects that are used on after
a call has failed, loops that end only if something moves, and numbers that
stand for two things at once.

## 1. Inventory

### Pattern compiler (`regexx.c` 456-1246, 428-450, 1636-1649)

*State*: `regexx_t`: a chain of nodes from `head` to `tail`, the pattern under
construction; the heads of the accepted patterns; the macros; an error
message. A node has `next`, `prev`, a type, and for quantifiers, alternations
and groups a `child` chain.

*Operations*: `regexx_create`, `regexx_add_macro`, `regexx_add_pattern`,
`regexx_free`. `_parse_next_node` reads one fragment of a pattern. It always
appends a node first and then turns it into what the fragment asks for: a
quantifier unlinks the node before itself and adopts it, `|` walks back to
the start of its level and hangs everything it passed below itself, `)` walks
back to the nearest open `(`. A macro reference removes its own node and
parses the macro's value recursively.

*Hard*: each surgery starts from the shape that all of the earlier ones have
left. A failure leaves its nodes on the chain, and the next call continues
behind them. Nodes are freed while the parser holds neighbours.

*Correct when*: the heap is a forest of well-linked, terminated chains; no
NULL and no freed pointer is followed; the tree that comes out is the one the
pattern describes; accepted patterns are never written again; every call
returns; `regexx_free` releases all of the chain under construction.

### Classes and escapes (`regexx.c` 262-371, 502-806, 1062-1194)

*State*: none beyond the fragment that is read: a set of 256 bits, the
character before a `-`, a flag for `[^`. *Operations*: `_charclass_from_escseq`,
`_unicode_from_number`, `_charclass_from_nameseq`, `_charclass_add_range`, the
loop over the body of a class, the tests that tell `{name}` from `{2,3}`.

*Hard*: characters are signed, `-1` is also a character, a `-` means one of
three things, and the print of a class must mean the same thing to this code.

*Correct when*: what `docs/REGEX.md` describes is read as it says. (It is not
everywhere; section 3 has the list of the forms that are read otherwise.)

### Printer (`regexx.c` 354-424, 1482-1634)

*State*: the buffer. `regexx_print` walks a pattern and writes it as a pattern.
*Correct when*: compiling what was printed gives the pattern that was printed.

### Matcher (`regexx.c` 1248-1388, 1448-1479)

*State*: none; `_node_eval` is a function of the nodes and the text, and
`regexx_match` tries every pattern at every offset.

*Hard*: end offsets, `0` and failure share one type; what may go on at the end
of the text is a list of node types; unbounded repetition of an empty match.

*Correct when*: a reported match is a match, a match that exists is found, and
the evaluation ends.

### Lexer (`regexx.c` 1390-1446, 141-160)

*State*: `re->offsets`, the line and character number, with a stack of saved
ones; the caller's offset.

*Operations*: `regexx_lex_token` (longest match of all patterns, the first of
several), `regexx_lex_push`, `regexx_lex_pop`.

*Correct when*: the token is the longest, tokens tile the text, positions are
those of the text, and a loop over tokens ends.

### C lexer (`examples/c-lex.c`)

*State*: one `regexx_t` with the patterns of the C tokens, which `clex_create`
adds from two tables, of macros and of patterns. *Operations*: `clex_next` turns "nothing found" into a pretended newline at the end of the
file or into a token for a bad character, which it skips behind the lexer's
back; `clex_push` and `clex_pop` wrap the lexer's. *Hard*: whether the table's
120 patterns, which compete for every token, leave each kind of token its words,
depends on all of them and on what the matcher does with them.

*Correct when*: each token is the longest that C has at its place, no character is lost or returned twice, the end is reached,
positions survive an included file.

### xgrep (`examples/xgrep.c`)

*State*: locals of `parse_file`: the line, the search offset, the flag and the
count. It compiles one pattern, searches every line for all of its matches,
and frees the object. *Correct when*: searching a line ends, stays in the
line, and counts the lines that match.

### Hash map (`examples/util-hashmap.c`)

*State*: an array of buckets, each a chain of entries, and the entry count.
*Operations*: create, put, get, contains, memoize, remove, for-each, free; the table
doubles above a load of three quarters. Any allocation may fail; the callback
of for-each may remove the entry it is given. *Correct when*: it acts as a map.

### Macro table, token lists, preprocessor (`examples/c-preproc*.c`)

*State*: a hash map from names to definitions; growing arrays of tokens; the
input file with its offset. *Operations*: `ppmacros_add`, `ppmacros_lookup`,
`tokenlist_normalize`; the directives, with the parsing and the skipping halves
of `#if`, `#else`, `#endif` calling each other. *Hard*: nesting of the two
halves, `C_NORM_ELSE` handed from one to the other, errors that some callers
drop, reads of fields that `clex_next` leaves unset. *Correct when*: the text
that is kept is that of the live lines, and what is refused is out of order.

### The rest

The error message, SipHash (third-party), `duplicatearray`, the driver
`c-compile.c`, and the tests, which were read for the call sequences they make.

### How they interact

`xgrep` and `c-lex` own a `regexx_t` each and drive it through calls; there are
no callbacks into them. The matcher and the lexer only read what the compiler
built. `c-preproc` pulls tokens from `c-lex`, one per call, and owns the
offset into the file; it stores definitions in the macro table, which owns a
hash map and calls back for hash and equality.

## 2. Modules

| Module | Models | Extends |
|---|---|---|
| `RegexCompile` | create, add_macro, add_pattern, free, over a node heap | |
| `RegexHeapProofs` | lemmas: what each surgery preserves | `RegexCompile` |
| `RegexCompileProofs` | the compiler's invariants and theorems | `RegexHeapProofs` |
| `PatternBuilder` | the compiler without pointers: a sequence of items | |
| `CompileRefines` | the mapping from heaps to items | `RegexCompile` |
| `RegexFragment` | the characters of one fragment, read and printed | |
| `RegexEval` | `_node_eval` on a heap of nodes, and a reference matcher | |
| `RegexMatch` | `_node_eval` on the compiler's heap, `regexx_match` | `RegexCompile`, `RegexEval` |
| `RegexPrint` | `regexx_print`, compiled again | `CompileRefines` |
| `Xgrep` | `main` and `parse_file` on one object | `RegexMatch` |
| `RegexMatchProofs` | what the matcher and xgrep do with every accepted pattern | `Xgrep`, `RegexCompileProofs`, `InductionLemmas` |
| `RegexLex` | `regexx_lex_token`, `_set_offsets` | |
| `RegexLexProofs` | the lexer's invariant and theorems | `RegexLex` |
| `CLexer` | `clex_next`, `clex_push`, `clex_pop` | `RegexLex` |
| `CLexerProofs` | the invariant and theorems of `CLexer` | `CLexer`, `RegexLexProofs` |
| `CTokens` | the table of `c-lex.c`, compiled and matched, and the grammar of C's tokens | `RegexEval`, `PatternBuilder` |
| `AbstractMap` | what `util-hashmap.h` promises | |
| `Hashmap` | the table of `util-hashmap.c` | |
| `InductionLemmas` | induction, recursive functions and remainders, stated for sets | |
| `HashmapProofs` | the table's invariant, theorems, and that it acts as `AbstractMap` | `Hashmap`, `InductionLemmas` |
| `MacroTable` | definitions, their comparison and normalization | |
| `CPreproc` | `preproc_parse`: both halves of conditional sections, `#define`, text | `MacroTable` |
| `LiveText` | what conditional sections mean, a line at a time | |
| `CPreprocLive` | `CPreproc` beside `LiveText`, and the properties | both |
| `CPreprocProofs` | what the stack of calls looks like, the invariant and the theorems of `CPreprocLive` | `CPreprocLive`, `InductionLemmas` |
| `MC...` | constants for the runs | |

Operators whose comment says *mutant* are alternatives to the definition below
them, each the shape of a plausible bug; `PROJECT.json` says which property each
of them breaks. No specification uses them.

### RegexCompile

`re` is the heap: `type`, `next`, `prev`, `child` and `data` are functions of a
node id, `head` and `tail` are those of `regexx_t`. Ids are handed out in order
and never reused, so an id in `freed` that is reached again is a use after free.
One action is one call of `_parse_next_node` (`ParseAtom`, `ParseQuantifier`,
`ParseMacro`, ...), except that the two backwards hunts are loops of their own
(`BarBack`/`BarLiteral`/`BarSplit` and `CloseBack`/`CloseLiteral`/`CloseMatch`,
with the local `start` in `scan`) and that the recursive `_node_free` is a stack
of pending calls (`todo`). Nested macro expansions are the stack `frames`.
`pc = "error"` stands for an object after a failed call; with
`ReuseAfterError` the caller goes on with it, as the tests do.

The characters of one fragment, which `RegexFragment` reads, are one record:
`.`, an anchor, an escape or a bracketed class is an `atom`, `{2,3` is a `brace` whose `}` is left in the input
as in the code, and `bad` is any fragment on which the switch fails after its
node was added. Which bytes a class holds does not matter to the chains.

### PatternBuilder and CompileRefines

The abstract compiler keeps a sequence of items; a quantifier wraps the last
item, `|` wraps the level, `)` wraps what is behind the last open group.
`CompileRefines!Items` reads that sequence off the heap. A step of the hunts
changes nothing of it; the step that ends a hunt is the abstract step.

The steps of the builder are operators on the sequence of items (`WithChar`,
`Alternated`, `Closed`, `Repeated`, `Lazy`), and `Compile` applies them to a whole
pattern. `CompileRefines` shows that the code does the same with its heap, so
`RegexPrint` and `CTokens` compile by them.

### RegexFragment

The characters are bytes, and `text` is what stands in the pattern from the
fragment on; `PeekChar` gives a byte its sign. A class is read one turn of the
code's loop at a time (`ClassEscape`, `ClassDash`, `ClassRange`, `ClassChar`,
`ClassBad`), with `prev` for the variable of that name; every other fragment is one
step (`ReadShort`). A character or a class that was read is then printed, and the
print is read in its turn (`PrintAgain`). `Documented` is the reference: the
lists of `docs/REGEX.md` and the `\u{FFF}` of README.md:169 as a grammar, where a
class is whatever its body can be cut into. `Departs` names the forms in it that
the code is known to read otherwise, with the line at fault, and
`ReadsAsDocumented` has two sides: what is documented and not on that list is
read as the document says, and what is on it, alone or in a class of its own, is
not, so that a form can neither be excused for nothing nor be forgotten.

### RegexPrint

`NodePrint` turns items into fragments, as `_node_print` turns nodes into
characters. `PrintedRebuilds` compiles the result. What the print does not tell,
`Told` leaves out: a lookahead is printed as a plain group, and a lazy `??` as
`?`.

### RegexEval and RegexMatch

`Call` follows `_node_eval` case by case, for one node of a heap at one offset,
and returns an end offset, `NoMatch`, `Hang` (the quantifier's loop repeats
itself without moving) or `Abort`. What the calls nested in it return is given to
it as a table; `Calls` holds one table for every depth of nesting, each computed
from the one before, and `Eval` reads the last: without a circle no more calls
nest than the heap has nodes, and a circle would come out as `Abort`. `Ends`
is the reference, laid out in the same way: the set of all offsets at which a
match may end. `RegexMatch` applies both to the compiler's heap (`Built` fills in
the classes, `Pattern` is the node below a root); its state machine is the
compiler's, so the properties are about every pattern it accepts.

### Xgrep

The compiler's steps, then the loop of `parse_file`; `CountLine` is the end of a
line's search. One call of `regexx_match`
is one step, computed from the table of outcomes of the current line. A call
that hangs never returns: `SearchLine` is then not enabled.

### RegexLex and CLexer

What a pattern does at an offset is an arbitrary table (`outcome`), so nothing
depends on which patterns there are. `Call`, `TryPattern` and `Return` are one
`regexx_lex_token`: its start, one turn of the loop, its end. `CLexer` adds
`clex_next` around `Return`, the stack of saved positions that `regexx.c` can
reach (`next`), and the caller's suspended files (`files`). `entered` is a history
variable: where in its text the present file was last turned to, by a push or a
pop, and the line number at that moment.

### CTokens

The macros and patterns of `c-lex.c` are written down as fragments, macros in place of
their names, become items by `PatternBuilder!Compile`, and those are laid out as a heap
of their own for each entry (`Put`). One step is one token: `LexEnds` is what each
pattern matches, `Winner` the first with the longest match, which is what `LexLongest`
proves of `regexx_lex_token`. `KindOf` is the reference, which knows nothing of
patterns: it says of a word whether it is a token of C, and which. Of the keywords and
operators, a few stand for all; the vertical tab, which TLA+ strings have no sign for,
is left out.

### Hashmap

`buckets` maps bucket numbers to chains. `HashOf` is the caller's hash after
`_hash_from_key` has stirred it, an arbitrary function that agrees on equal keys;
two pointers may be equal keys. `AddEntry` may fail, and so may the growth of the
table. `Moved` is the loop that moves the entries, seen from one new bucket:
those of the old chain that belong there are put in front, one after the
other, so that their order is reversed. `hashmapForEach` takes one step per
callback; the callback may remove the entry it is given.

### MacroTable and CPreproc

The recursion of `preproc_phase3_tokenize`, `_process_IFDEF` and `_process_SKIP`
is the stack `frames`: a frame holds the arguments of a call and the place it
returns to, which for `_process_IFDEF` is the first or the second of its two
calls. `pc = "return"` with `value` is a call that returns; -1 goes through every
caller unchanged and is `pc = "failed"` at once. `rest` is what `clex_next` has
not returned of the current line. A step reads a whole directive line, or, in
text, one token: `preproc_add_token` may read on through the arguments of a
macro, and past the end of the line. `out` is the token that a step adds to
`pp->tokens`, which nothing reads back.

`tokenlist_normalize` goes beyond its array when a comment stands next to a blank
inside of a body: `pc = "undefined"`, and nothing is claimed behind that.
Elsewhere the macro table is an ideal map, as `MapCalls` justifies.

`LiveText` reads neither tokens nor calls. Each line of the run says what it
means (`means`), and `LiveText!After` turns a stack of sections and the macros
defined so far into the next ones. A macro defined again must be of the same
kind and have the same parameters (`SameHead`); that its body should be the same,
too, as `c-preproc-macros.c` 129-132 has it, is left out by name, because the code
never looks at it. `CPreprocLive` keeps both side by side; `text` is a
history variable and restrains nothing. What a meaning has to do with the line's
tokens is said by `MeansAssumption`, one formula for each directive: an `#ifdef` is
well formed if a name follows it, which is the name it is about; a definition, if
a name and a list of parameters follow that can be read, and it defines a macro
of that kind, with those parameters and that body; a line whose first solid token
is no `#` is text. What `macros_are_equal` answers is no part of it. Nor is what a
macro does to the lines: where one with parameters has read the newline behind
it, `continued` records that the next line goes on with the text of the one
before, and `Means` takes it for text, whatever stands in it. The assumption also
leaves out lines that have a second `#` right behind the
operand of an `#ifdef` or behind an `#else`, which the code would take for another
directive.

## 3. Runs

| Run | Question | States, bounds |
|---|---|---|
| `CompileCalls` | Do calls return, free what they should, leave accepted patterns alone? | two patterns of two fragments, two macros, one uses the other; 95 thousand |
| `CompileRefines` | Does the surgery build the tree? | four fragments of nine kinds, and again after each failure, eight nodes; 628 thousand |
| `CompileBrace` | *violated*: does `{2,3}` quantify? | three fragments |
| `MatchPatterns` | Is a match a match, is it found, and is a printed pattern the same pattern? | all patterns of five out of ten fragments, texts up to three characters; 510 thousand |
| `MatchOptional` | *violated*: does `a?` match nothing? | five fragments |
| `GrepLines` | Is every line searched to its end and counted once? | three fragments, two lines of up to two characters; 35 thousand |
| `LexTokens` | Longest, first, tiling, lines, progress | two patterns with any outcome on texts up to length two or three; 145 thousand |
| `FragmentTexts` | Is a fragment read as documented, and its print as the fragment? | three characters out of twelve or four out of eight in brackets, three pieces out of fifteen or two out of twenty-five, all escapes of up to three characters; 111 thousand |
| `TokenTable` | Does each kind of C token get its words? | texts of four, five or six characters over six alphabets; 321 thousand |
| `ClexFiles` | Is every character returned once, across files? | one pattern, one included file; 94 thousand |
| `PreprocFiles` | Is what is kept the live text, and is the right thing refused? | files of up to six lines of 27 kinds; 57 thousand |
| `MapCalls` | Is the table a map? | three names, four keys, one to four buckets; 47 thousand |

Deadlock is not checked where the caller may simply stop calling or the program
comes to its end (all but `TokenTable`, where a token can always be had).

**Bounds.** `StringMax` is 2 instead of 56: two characters fill a node, the
third opens another. `SIZE_MAX` is 9, more than any count that a text of three
characters can reach; it only has to be recognisable as "no maximum".
`MaxNodes` cuts the heap off: in `CompileCalls` and the matcher's runs it is
never reached, which matters for `Returns`; in `CompileRefines`, where patterns go
on after any number of failures, it is what ends them. Four or five fragments
are enough for each ordered pair of surgeries on one level, for one group around
or behind the other, and for a failure in between. Texts of three characters let
a quantifier take too much, too little, and stop at the end. Two patterns are
enough for the lexer because its loop keeps only the best of those before; the
theorems drop the bound. Hash values agree completely, in the last bit, or not,
which are the three ways in which a doubling table can treat two entries.
Four characters in brackets hold a range with a character on either side, or an
escape and a range, in every order; three pieces hold two runs around a third.
Bytes above 127 are there because `char` is signed, control characters because
the print has a form of its own for them. `SIZE_MAX` is 63 in `FragmentTexts`, so
that two digits overflow it. `0x1p+1`, `u8""` and `//\` with a newline, more and a
newline behind it are among the longest things that the table of `c-lex.c` tells
apart, and the texts of `TokenTable` are long enough for them.
Six lines hold two sections, one inside of the other, with an `#else` and text
or a definition in either; the kinds of lines are one for each directive that
the code tells apart, well formed and not, and for each path through the
parameters of a macro.

**Violated properties** state what a comment or document says; each
counterexample is reported under "findings" in `PROJECT.json`:

- `BraceQuantifies`: the case for `{2,3}` falls through into the one for `|`
  (`regexx.c` 953-957), so its operand is dropped and nothing is repeated.
- `OptionalMatches`: the end offset 0 is taken for "no match" (`regexx.c` 1348).

Modelling showed other things that no run is spent on: a pattern with an open
group is accepted, and evaluating it aborts (`ClosedNeverAborts` holds for the
others); a group is never asked to give characters back, so `(a?)a` misses
matches; `regexx_free` does not release accepted patterns (`FreesUnfinished` says
what it does release); a loop over tokens stalls on an empty match
(`GetsThrough` holds without), and so does xgrep's search of a line (`SureEnds`);
`regexx_lex_push` drops the copy it makes (`regexx.c` 148), so that a pop restores
nothing; a newline is counted once for every candidate that improves on the ones
before, not once for the token (`regexx.c` 1432), so that lines run ahead
(`LinesNeverLost`) unless no two patterns match at one place (`PositionsExact`).
In the preprocessor, a macro that occurs in text is not replaced by its contents,
as `c-preproc-macros.h` 26-27 promises, but dropped (`c-preproc.c` 716); one with
parameters takes with it what `_process_PARMS` reads behind it, up to the first
token that has no place in a list of parameters, which with arguments in
parentheses is the parenthesis in front of them, and whose error is dropped
(`c-preproc.c` 753 and 756). `OnlyMacrosDropped` says just how much is lost. If the
token is the newline, the next line is taken for text, a directive included;
skipped text may hold neither `#elif` nor `#undef`, which
`RefusesOnlyBad` has to except, although the comment at `c-preproc.c` 401 allows
them; tokens behind the name of a live `#ifdef` are kept as text
(`OnlyLiveText`); a section still open at the end of the file is accepted; a macro
defined again with another body is accepted, and the first body is kept, since
`macros_are_equal` never looks at it (`c-preproc-macros.c` 59, although the comments
at 129-132 and in `c-preproc-macros.h` 19-20 say otherwise; `SectionsAgree` shows the
first body to stay); and the hash of a macro's name reads the structure that holds it as a string, so on
a little-endian machine names of one length share a chain.

Of fragments, `docs/REGEX.md` and the code differ in what `Departs` lists, and
`FragmentTexts` checks that they do: `\cA` is the character 0, not 1, and so on; a
`\0` that no octal digit follows takes the next character for the one that is
meant; `\uFFFF`, `\u{FFF}` and `\xuFFFF` are always refused or read as something
else, as the `u` is looked at and not passed (`regexx.c` 1067), although README.md:169
of the repository counts `\uFFFF` as supported; `{2,}` has the bounds 2 and 0; the
byte 255 reads as the end of the pattern; a range from a byte below 128 to one
above it counts through four billion values and holds every byte, and the other
way round it holds none; a range with an escape for an end is none; and `[` before
`:` in a class begins a name, each of which is refused, as the name that is compared
is its first colon (`regexx.c` 571). Of what the document does not describe, `{2}` has
the bounds 2 and "no maximum". The
print of the characters 0 and 26 in a class, and of 0 and 255 outside, does not
read back (`Writable`).

Of the table of `c-lex.c`, `Apart` names three slips: the class of a character
constant, `[^'\\n]` once C has read the string, leaves out the letter n and lets a
newline in; the `+` of `{SPLICE}+` repeats the macro's last class alone, so that
spliced white space takes in the empty lines behind it; a `//` comment needs a
newline behind it. Besides, `^` and `^=` are anchors there, so that `a^b` holds a bad
character; a string takes in the newline that ends its line; and `{1,3}`, which does
not repeat, becomes an empty alternative, by which an octal escape is read all the
same.

**Fairness.** `Work` in `RegexCompile` is what a call does by itself, `SearchLine`
and `CountLine` what `parse_file` does between two reads, `ClexNext` the steps of
`clex_next`, and in `RegexLex` the caller is the loop that README.md of the
repository shows. In each case one thread runs a loop that waits for nothing, so
weak fairness of that loop is what running it means; `preproc_parse` is such a
loop as a whole. Whether a caller makes
another call, adds a macro, opens another file or frees the object is never fair.

## 4. Proofs

All theorems hold for every value of the constants that satisfies the `ASSUME`s
of the module: any alphabet, any fragments, any number of nodes, patterns and
macros, any texts and any outcomes of patterns.

**Compiler** (`RegexHeapProofs`, `RegexCompileProofs`). `ChainsWellFormed` is not
inductive: that a neighbour of `tail` can be rewired says nothing without knowing
that a walk back from `tail` ends at `head`. `HeapInv(h)` therefore adds to the
four conjuncts of `ChainsWellFormed` that what was never handed out is blank
(`Fresh`) and that no link leads from the current pattern back into an accepted
one (`Region`); and `OpenChain(h, S)` says that `S` holds the nodes of the chain
under construction, closed under `prev` up to `head`. The set stands for the
path, so that no recursion is needed.
`IInv` adds the position of the hunts and, while the object is freed, that the
pending calls own disjoint parts of what is left. There is one lemma for each
surgery (`AddNodeInv`, `RemoveSelfInv`, `AdoptInv`, `SplitInv`, `CloseGroupInv`,
`EndPatternInv`, `FreeNodeInv`), one step lemma for the fragments, the hunts and
the control state, and from them `Inductive`. `TypeCorrect`, `WellFormed`,
`NeverNull` and `NeverFreed` follow; `Frozen` is an action property from the same
invariant.

**Unfinished patterns** (`RegexCompileProofs`, second half). `FreesUnfinished` says that
`regexx_free` returns every node handed out since the last accepted pattern. That
is about reachability, which is a matter of paths, and a path would need
recursion over the heap. Closed sets take their place: `Closed(h, T)` says that
`T` is closed under `next` and `child`, and `Reached(h)` that every closed set
with `head` in it holds all the nodes of the current pattern. Each surgery keeps
that, by a lemma of its own, because a set closed after it can be turned into
one closed before it; while the object is freed the pending calls take the place
of `head` (`Pending`). All of it is under the condition of the property that no
fragment has a brace, since `{2,3}` does leave nodes behind.

**Lexer** (`RegexLexProofs`). `IInv` relates the loop to the part of the patterns
it has seen: no pattern before `i` ends later than `longest`, the first that
ends there is the result, the lines counted are at least those up to
`longest`, and exactly those if no two patterns match at one offset. It rests on
two lemmas about stretches of text: newlines and columns of neighbouring
stretches add up. `LexLongest`, `LexLinesKept`, `LexPositionsExact` and `LexTiles`
follow.

**C lexer** (`CLexerProofs`). What the lexer's invariant says of a finished call is
not true here: the caller may have turned to another file, or `clex_next` may
have stepped over a character that is no token. `ClexInv` therefore keeps the
lexer's loop invariant only while a call is under way (`ScanInv`), and adds that
every suspended file is one that can be gone on with (`SuspendedInv`), that
`regexx_lex_pop` has no saved position within its reach (`NothingSaved`), and that
the line number counts the newlines since the last push or pop, from the line
number of that moment (`LineInv`). `EveryCharacterOnce` and `LinesOfEntered`, of any
pushes and pops in any order, follow; the latter under its own condition that no
two patterns match at one place and every newline is in a token of one. So does
`PopRestoresNothing`: line and column behind a `clex_pop` are those of the included
file, not those of the file that is gone back to, which `regexx.h` 128 promises to
restore. `regexx_lex_push` drops the copy that it makes, and `NothingSaved` is the
invariant that says so.

**Hash map** (`HashmapProofs`). `MapInv` has four parts. `Table`: every entry is in
the chain its hash selects, a key is in it once, and the entry's hash is the
key's; without the last, growing the table could not be shown to leave an entry
where `hashmapGet` looks for it. `Counts`: `size` is the number of entries, which
`hashmapRemove` and `addEntry` keep apart from the chains. `NotFreed`: no call
is under way on a map that does not exist. `CursorInv`: during `hashmapForEach` the
entries still ahead of the cursor are just those not called back yet, and the
next one is alive, whatever the callback removes. From it `EveryEntryFound`,
`CursorAlive` and `EachVisitedOnce` follow. `ImplementsMap` shows each step to be a
step of `AbstractMap` or a stutter, under the mapping that takes the chains to a
function from keys to values; it is there that a failed `calloc` must leave
everything as it was.
`Moved` is a recursive function, and what it yields for chains of every length is
an induction over data. The library states induction with an operator as
parameter, which the installed provers cannot instantiate; `InductionLemmas`
states it with a set of naturals in that place, and builds recursive functions
from a least counterexample, which is enough for functions over `0 .. N`.

**Preprocessor** (`CPreprocProofs`). `ElseAnswered` says that
`C_NORM_ELSE` only ever goes back to the first of the two calls in
`_process_IFDEF`, which answers it by reading or skipping the other half; elsewhere
it would be an error. That is a matter of who called whom, so `FramesInv` adds
the shape of the stack (`Calls`): the call for the file is at the bottom and
nowhere else, above it are halves of `_process_IFDEF`, and a `_process_SKIP` by
itself stands just where something skips already.
The other properties compare the calls with the meaning of the lines read so far.
`SectionsAgree` speaks of the beginning of a line only, while a directive is acted
upon before its line has been read to the end, and a call returns before its
caller has made the next one. `LiveInv` says what holds in between: the calls
that there will be once a return has been answered (`Answered`) and the macro
table agree either with the text before the line, if its meaning is still to come
(`Ahead`), or with the text behind it, if it was a directive whose rest is still
to be read (`Past`) or is being read as text (`Within`). The table's part of it,
`MacrosAgree`, is that each macro is what the first line to define it means, kind,
parameters and body, so that `macros_are_equal` refuses a repetition just if kind
or parameters are others (`DefineStep`). A lemma for each
action, under `MeansAssumption`, makes `LiveInv` inductive; a stack that reads has
no skipping call in it (`AllRead`), which is how what is read is live. From it
`SectionsAgree`, `AcceptsOnlyGood`, `RefusesOnlyBad`, `OnlyLiveText` and
`OnlyMacrosDropped` follow, of the text behind a macro that has read a newline, too:
`ContinuedInv` says that this happens in the midst of text only. For the last of
them `ReadsOver` and `StopsBehind` say what `_process_PARMS` has passed on its way.
`NeverReadsBefore` needs none of this but `RestInv`, that a line ends in its
newline however many tokens `_process_PARMS` has taken, and what `Trim` and
`Stripped` do to the first token of a body. That `_process_PARMS` stays in the line
is an induction over its turns, by `InductionLemmas`.

**Matcher and xgrep** (`RegexMatchProofs`). Calls nest, so each of these results is
an induction over the depth of nesting, one lemma for a single call given what the
nested ones do (`CallForward`, `CallSound`, `CallStays`, `CallBreaks`,
`CallComplete`) and one for all of them (`CallsForward`, ...). A quantifier's two
loops are an induction in themselves: `Leads` says that the child leads from one
offset to another in so many matches, and `QuantifierFinds` that the loops come to
what is behind such a place (`Finds`), or to a call that does not return
(`Breaks`). No call ends before it started (`Forward`), which bounds the turns of a
quantifier without a maximum.

- `Sound` (`MatchSound`): by `Agrees`, an outcome is one of the reference's. It takes
  no more than the types of the heap's fields, but for a negated lookahead, where
  the agreement would have to go the other way.
- `Terminates` (`HangNeedsNullable`): a call that ends where it started is one from a
  nullable node (`Stays`). That needs an invariant of the compiler, that no string
  node is empty (`Filled`).
- `NeverAborts` (`ClosedNeverAborts`): as many calls as there are nodes are enough if
  no call comes back to a node. The ids do not show that, since a quantifier is
  younger than its operand and an alternation than its left side. So `Ordered(h)` says
  that there is *some* numbering in which every link goes forward, and each surgery
  is shown to leave one: appended nodes come last, adopted ones are moved in behind
  their owner (`Inserted`). `Whole(h)` adds that each node has got its type and each
  branch its child, `AllBefore(h)` excepts the open `tail` during a hunt, and
  `BuildInv` says when which holds and that a later call leaves the roots of accepted
  patterns alone (`RootsKept`). The theorem assumes `~ReuseAfterError`: behind a
  failed call an unfinished node stays on the chain, and the next call may accept a
  pattern with it in the middle.
- `FlatFinds` (`FlatComplete`), under the same assumption: where the reference has an
  end, `_node_eval` finds one. A flat pattern's quantifier repeats a node that takes
  characters or fails (`Springs`), followed by the `T_TRUE` that `_parse_next_node`
  gave it, so that the child has one match or none at each offset (`Stepping`). From
  that the reference's places are a path (`StepsLead`), and the second loop walks
  along it until it has found something (`Ahead`). `longest` = 0 stands for nothing
  found, which is why an end at 0 is left out. At the end of the text `_node_eval`
  gives up on an alternation and on a root, which costs nothing because they stand
  only where a pattern begins: `Placed(h)`, kept by every surgery (`PlaceInv`), says
  that nothing else goes on to one.
- `LinesCounted` (`CountedRight`), about the steps that go back for the next line:
  xgrep's invariant says that as long as nothing was
  found the search has not left the start of the line, and that the call at the
  start finds the earliest place (`MatchFinds`), if there is one. `GrepCompiles` shows
  xgrep's specification to imply the compiler's, so that all of the above holds of
  the patterns that xgrep searches with.

**Model-checked only.** The liveness properties (`Returns`, `SureEnds`,
`GetsThrough`, `ReachesEnd`, `Stops`), which are beyond the prover. `BuildsTrees` and
`PrintedRebuilds` rest on the mapping of `CompileRefines` from a heap to trees of
items, a recursive operator, which the prover's backends do not handle; what the
proofs say of the trees instead is in `Ordered`, `Whole` and `Placed`.
`LongestLexeme` compares two fixed tables, of patterns and of C's tokens, on given texts: there is
nothing in it to generalise. `ReadsAsDocumented` and
`PrintedReadsBack` of `RegexFragment` compare a reading of numbers digit by
digit with a print of the same kind, and build on functions written with `@@`,
which the prover cannot expand.

## 5. Not modelled

- Case-insensitive matching and `T_DOT_NONEWLINE`, which no code sets.
- Names in brackets, `[:alpha:]`, beyond their being refused.
- Failing allocations in `regexx.c`: it does not check most of them.
- A macro whose value uses itself: the recursion is unbounded, as README.md of the
  repository says.
- Opening and reading files, command lines, wording of errors.
- The hash map's lock (nothing takes it), its collision statistics, and callbacks of
  `hashmapMemoize` that change the map, of whose bucket array it holds a pointer
  (`util-hashmap.c` 300): nothing calls it.
- Files of the preprocessor beyond one: `#include` is not implemented. `preproc_create`
  and `preproc_free` around the parse, and failing allocations in the macro table.
- SipHash: any function that agrees on equal keys will do.

## 6. Plan

Every safety property and every action property that no recursive operator stands
in the way of is proved, but for those of `RegexFragment`. What is left is
`BuildsTrees`: a mapping from the heap to items that is a recursive function, by
depth of nesting as in `RegexEval`, would bring the refinement of
`PatternBuilder` within the prover's reach, with `Ordered` for its induction.
