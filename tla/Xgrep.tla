------------------------------- MODULE Xgrep -------------------------------
(***************************************************************************)
(* src/examples/xgrep.c: compile the pattern of the command line, then     *)
(* search every line of the input for all its matches, then free the       *)
(* pattern.  The compiler's steps are those of RegexCompile, a call of     *)
(* regexx_match is one step.                                               *)
(***************************************************************************)
EXTENDS RegexMatch

CONSTANT MaxLines   (* Bound: lines of the input.                          *)

ASSUME LineAssumption == MaxLines \in Nat

VARIABLES
  stage,  (* What main does.                                               *)
  line,   (* The line parse_file is at,                                    *)
  ends,   (* what the matcher makes of it (a function of re and the line), *)
  at,     (* its `offset`                                                  *)
  hit,    (* and its is_found.                                             *)
  found,  (* found_count.                                                  *)
  lines   (* Lines read so far.                                            *)

grep == <<stage, line, ends, at, hit, found, lines>>

GrepInit ==
  /\ Init
  /\ stage = "compile"
  /\ line = <<>>
  /\ ends = <<>>
  /\ at = 0
  /\ hit = FALSE
  /\ found = 0
  /\ lines = 0

Compile ==
  /\ stage = "compile"
  /\ patterns = <<>>
  /\ \/ BeginPattern
     \/ \E f \in Fragments : Parse(f)
     \/ Hunt
     \/ EndPattern
  /\ UNCHANGED grep

(* "Malformed input regexp", or everything was read: regexx_free.          *)
Release ==
  /\ (stage = "compile" /\ pc = "error") \/ stage = "read"
  /\ BeginFree
  /\ stage' = "release"
  /\ UNCHANGED <<line, ends, at, hit, found, lines>>

Free ==
  /\ stage = "release"
  /\ FreeNode \/ EndFree
  /\ UNCHANGED grep

ReadLineKeepsHit ==   (* mutant: is_found is the last line's               *)
  /\ stage = "read" \/ (stage = "compile" /\ pc = "idle" /\ patterns # <<>>)
  /\ lines < MaxLines
  /\ \E text \in Texts : line' = text /\ ends' = Outcomes(text)
  /\ lines' = lines + 1
  /\ at' = 0
  /\ stage' = "search"
  /\ UNCHANGED <<vars, found, hit>>

ReadLine ==
  /\ stage = "read" \/ (stage = "compile" /\ pc = "idle" /\ patterns # <<>>)
  /\ lines < MaxLines
  /\ \E text \in Texts : line' = text /\ ends' = Outcomes(text)
  /\ lines' = lines + 1
  /\ at' = 0
  /\ hit' = FALSE
  /\ stage' = "search"
  /\ UNCHANGED <<vars, found>>

ResumeAtMatch(m) == m.offset   (* mutant: the length is not added          *)
(* Where the search goes on after a match.                                 *)
Resume(m) == m.end

(* One call of regexx_match.  A call that hangs never gets here.           *)
SearchLine ==
  /\ stage = "search"
  /\ at < Len(line)
  /\ LET m == Match(ends, at)
     IN  \/ /\ m = NotFound
            /\ stage' = "count"
            /\ UNCHANGED <<at, hit>>
         \/ /\ Matched(m.end)
            /\ at' = Resume(m)
            /\ hit' = TRUE
            /\ UNCHANGED stage
         \/ /\ m.end = Abort
            /\ stage' = "abort"
            /\ UNCHANGED <<at, hit>>
  /\ UNCHANGED <<vars, line, ends, found, lines>>

CountLine ==
  /\ stage = "count" \/ (stage = "search" /\ at >= Len(line))
  /\ found' = IF hit THEN found + 1 ELSE found
  /\ stage' = "read"
  /\ UNCHANGED <<vars, line, ends, at, hit, lines>>

GrepNext ==
  \/ Compile
  \/ Release
  \/ Free
  \/ ReadLine
  \/ SearchLine
  \/ CountLine

GrepSpec == GrepInit /\ [][GrepNext]_<<vars, grep>>

(* parse_file waits for nothing but its next line.                         *)
FairGrepSpec == GrepSpec /\ WF_<<vars, grep>>(SearchLine \/ CountLine)

-----------------------------------------------------------------------------
(* A line is done with at some point unless the matcher hangs on it or     *)
(* finds an empty match in it.                                             *)
Sure == \A t \in DOMAIN ends : ends[t] \notin {Hang, t[2]}

SureEnds == stage = "search" /\ Sure ~> stage # "search"

(* Going back for the next line, found_count has gone up by one exactly    *)
(* when there is a match in this one, whether the search gave up or came   *)
(* to the end of the line, and wherever the matches before it left off;    *)
(* at no other time does it change.                                        *)
Counted == IF Match(ends, 0) # NotFound THEN found + 1 ELSE found
CountedRight ==
  [][found' = IF stage' = "read" THEN Counted ELSE found]_<<vars, grep>>

=============================================================================
