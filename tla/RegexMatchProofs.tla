-------------------------- MODULE RegexMatchProofs --------------------------
(***************************************************************************)
(* What the matcher does with every pattern that the compiler accepts.     *)
(***************************************************************************)
EXTENDS Xgrep, RegexCompileProofs, InductionLemmas

Outcome(text) == {NoMatch, Hang, Abort} \cup Offsets(text)
Function(text) == [Offsets(text) -> Outcome(text)]
Table(h, text) == [Pointer(h) -> Function(text)]

(* What of a heap's fields the matcher relies on.                          *)
NodeShape(h, n) ==
  /\ h.next[n] \in Pointer(h) /\ h.child[n] \in Pointer(h)
  /\ h.type[n] = "T_STRING" => h.data[n].str \in Seq(Char)
  /\ h.type[n] = "T_GROUP" => h.data[n].look \in BOOLEAN /\ h.data[n].inv \in BOOLEAN
  /\ h.type[n] = "T_QUANTIFIER" =>
       /\ h.data[n].min \in Nat /\ h.data[n].max \in Nat
       /\ h.data[n].lazy \in BOOLEAN
Shape(h) == h.size \in Nat /\ \A n \in Pointer(h) \ {0} : NodeShape(h, n)

(* The first loop of a quantifier goes from match to match of its child.   *)
Repeats(inner, o, count, after) ==
  /\ after[0] = o
  /\ \A c \in 1 .. count :
       after[c] = IF Matched(after[c - 1]) THEN inner[after[c - 1]] ELSE after[c - 1]

LEMMA AtLeastUnfold ==
  ASSUME NEW text, Len(text) \in Nat, NEW inner \in Function(text),
         NEW o \in Offsets(text), NEW count \in Nat
  PROVE  \E after \in [0 .. count -> Outcome(text)] :
           AtLeast(inner, o, count) = after[count] /\ Repeats(inner, o, count, after)
  <1> DEFINE S == Outcome(text)
             Next1(e) == IF Matched(e) THEN inner[e] ELSE e
             Raw(f) == f = [c \in 0 .. count |-> IF c = 0 THEN o ELSE Next1(f[c - 1])]
             after == CHOOSE f : Raw(f)
             step == [c \in 1 .. count |-> [e \in S |-> Next1(e)]]
  <1>1. AtLeast(inner, o, count) = after[count]
    BY DEF AtLeast
  <1>2. ASSUME NEW e \in S PROVE Next1(e) \in S
    BY DEF Outcome, Function, Matched, NoMatch, Hang, Abort
  <1>3. o \in S
    BY DEF Outcome
  <1> HIDE DEF S, Next1
  <1>4. step \in [1 .. count -> [S -> S]]
    BY <1>2
  <1>5. PICK f \in [0 .. count -> S] : f[0] = o /\ \A n \in 1 .. count : f[n] = step[n][f[n - 1]]
    <2> DEFINE N == count
               first == o
    <2>1. first \in S /\ step \in [1 .. N -> [S -> S]] /\ N \in Nat
      BY <1>3, <1>4
    <2> HIDE DEF step, N, first
    <2>2. \E f \in [0 .. N -> S] : f[0] = first /\ \A n \in 1 .. N : f[n] = step[n][f[n - 1]]
      BY <2>1, Recursion DEF Recursive
    <2> QED BY <2>2 DEF N, first
  <1>6. Raw(f)
    <2>1. ASSUME NEW c \in 0 .. count PROVE f[c] = IF c = 0 THEN o ELSE Next1(f[c - 1])
      <3>1. c # 0 => c \in 1 .. count /\ f[c - 1] \in S
        BY <1>5
      <3> QED BY <1>5, <3>1
    <2> QED BY <1>5, <2>1
  <1>7. Raw(after)
    <2> HIDE DEF Raw
    <2> QED BY <1>6
  <1>8. after[0] = o /\ \A c \in 1 .. count : after[c] = Next1(after[c - 1])
    BY <1>7
  <1>9. \A c \in 0 .. count : after[c] \in S
    <2> DEFINE P == {c \in 0 .. count : after[c] \in S}
    <2>1. 0 \in P
      BY <1>3, <1>8
    <2>2. ASSUME NEW c \in P, c < count PROVE c + 1 \in P
      <3>1. after[c + 1] = Next1(after[c]) /\ after[c] \in S /\ c + 1 \in 0 .. count
        BY <1>8, <2>2
      <3> QED BY <1>2, <3>1
    <2>3. P = 0 .. count
      <3>1. P \in SUBSET (0 .. count)
        OBVIOUS
      <3> HIDE DEF P
      <3> QED BY <2>1, <2>2, <3>1, BoundedInduction
    <2> QED BY <2>3
  <1>10. after \in [0 .. count -> S]
    BY <1>7, <1>9
  <1> HIDE DEF after
  <1> QED BY <1>1, <1>8, <1>10 DEF S, Next1, Repeats

(* The second loop, and what it leaves in `longest`.                       *)
Lap(text) == [offset: Offsets(text), longest: Outcome(text), on: BOOLEAN]
Started(from, first) ==
  [offset |-> from, longest |-> IF Matched(first) THEN first ELSE 0, on |-> TRUE]
QuantifierData(d) == d.min \in Nat /\ d.max \in Nat /\ d.lazy \in BOOLEAN

LEMMA TurnType ==
  ASSUME NEW text, Len(text) \in Nat, NEW inner \in Function(text), NEW rest \in Function(text),
         NEW d, NEW s \in Lap(text)
  PROVE  Turn(d, inner, rest, s) \in Lap(text)
  <1> DEFINE e == inner[s.offset]
             x == rest[e]
  <1>1. s.offset \in Offsets(text) /\ s.longest \in Outcome(text) /\ s.on \in BOOLEAN
    BY DEF Lap
  <1>2. e \in Outcome(text)
    BY <1>1 DEF Function
  <1>3. Returned(e) /\ e # NoMatch => e \in Offsets(text) /\ x \in Outcome(text)
    BY <1>2 DEF Function, Outcome, Returned, NoMatch, Hang, Abort
  <1>4. Hang \in Outcome(text)
    BY DEF Outcome
  <1> HIDE DEF e, x
  <1>5. Turn(d, inner, rest, s) =
          IF ~s.on THEN s
          ELSE IF e = NoMatch THEN [offset |-> s.offset, longest |-> s.longest, on |-> FALSE]
          ELSE IF ~Returned(e) THEN [offset |-> s.offset, longest |-> e, on |-> FALSE]
          ELSE IF ~Returned(x) \/ (Matched(x) /\ d.lazy)
            THEN [offset |-> s.offset, longest |-> x, on |-> FALSE]
          ELSE IF e = s.offset /\ d.max = SIZE_MAX
            THEN [offset |-> s.offset, longest |-> Hang, on |-> FALSE]
          ELSE [offset |-> e, longest |-> IF Matched(x) THEN x ELSE s.longest, on |-> TRUE]
    BY DEF Turn, e, x
  <1> QED BY <1>1, <1>2, <1>3, <1>4, <1>5 DEF Lap

LEMMA FurtherUnfold ==
  ASSUME NEW text, Len(text) \in Nat, NEW inner \in Function(text), NEW rest \in Function(text),
         NEW d, QuantifierData(d), NEW from \in Offsets(text), NEW first \in Outcome(text)
  PROVE  /\ Turns(d, text) \in Nat
         /\ \E loop \in [0 .. Turns(d, text) -> Lap(text)] :
              /\ Further(d, inner, rest, text, from, first) = loop[Turns(d, text)].longest
              /\ loop[0] = Started(from, first)
              /\ \A c \in 1 .. Turns(d, text) : loop[c] = Turn(d, inner, rest, loop[c - 1])
  <1> DEFINE S == Lap(text)
             N == Turns(d, text)
             start == Started(from, first)
             Next1(s) == Turn(d, inner, rest, s)
             Raw(f) == f = [c \in 0 .. N |-> IF c = 0 THEN start ELSE Next1(f[c - 1])]
             loop == CHOOSE f : Raw(f)
             step == [c \in 1 .. N |-> [s \in S |-> Next1(s)]]
  <1>1. Further(d, inner, rest, text, from, first) = loop[N].longest
    BY DEF Further, Started
  <1>2. ASSUME NEW s \in S PROVE Next1(s) \in S
    BY TurnType
  <1>3. start \in S
    BY DEF Lap, Started, Outcome, Offsets, Matched
  <1>4. N \in Nat
    BY DEF Turns, QuantifierData
  <1> HIDE DEF S, Next1, N, start
  <1>5. step \in [1 .. N -> [S -> S]]
    BY <1>2
  <1>6. PICK f \in [0 .. N -> S] : f[0] = start /\ \A n \in 1 .. N : f[n] = step[n][f[n - 1]]
    <2> HIDE DEF step
    <2>1. Recursive(S, start, N, step)
      BY <1>3, <1>4, <1>5, Recursion
    <2> QED BY <2>1 DEF Recursive
  <1>7. Raw(f)
    <2>1. ASSUME NEW c \in 0 .. N PROVE f[c] = IF c = 0 THEN start ELSE Next1(f[c - 1])
      <3>1. c # 0 => c \in 1 .. N /\ f[c - 1] \in S
        BY <1>4, <1>6
      <3> QED BY <1>6, <3>1
    <2> QED BY <1>6, <2>1
  <1>8. Raw(loop)
    <2> HIDE DEF Raw
    <2> QED BY <1>7
  <1>9. loop[0] = start /\ \A c \in 1 .. N : loop[c] = Next1(loop[c - 1])
    BY <1>4, <1>8
  <1>10. \A c \in 0 .. N : loop[c] \in S
    <2> DEFINE P == {c \in 0 .. N : loop[c] \in S}
    <2>1. 0 \in P
      BY <1>3, <1>4, <1>9
    <2>2. ASSUME NEW c \in P, c < N PROVE c + 1 \in P
      <3>1. loop[c + 1] = Next1(loop[c]) /\ loop[c] \in S /\ c + 1 \in 0 .. N
        BY <1>4, <1>9, <2>2
      <3> QED BY <1>2, <3>1
    <2>3. P = 0 .. N
      <3>1. P \in SUBSET (0 .. N)
        OBVIOUS
      <3> HIDE DEF P
      <3> QED BY <1>4, <2>1, <2>2, <3>1, BoundedInduction
    <2> QED BY <2>3
  <1>11. loop \in [0 .. N -> S]
    BY <1>8, <1>10
  <1> HIDE DEF loop
  <1> QED BY <1>1, <1>4, <1>9, <1>11 DEF S, N, start, Next1

-----------------------------------------------------------------------------
(* A node that takes characters leaves the offset in the text.             *)
LEMMA SingleFits ==
  ASSUME NEW h, NEW text, Len(text) \in Nat, NEW n, NodeShape(h, n), NEW o \in Offsets(text),
         h.type[n] \in Single, o < Len(text), Matches(h, n, text, o)
  PROVE  o + Width(h, n) \in Offsets(text) /\ Width(h, n) \in Nat
  <1>1. CASE h.type[n] = "T_STRING"
    <2> DEFINE w == Len(h.data[n].str)
               L == Len(text)
    <2>1. w \in Nat /\ w <= L - o /\ Width(h, n) = w
      <3>1. w \in Nat
        BY <1>1 DEF NodeShape
      <3> QED BY <1>1, <3>1 DEF Matches, Width
    <2>2. o \in 0 .. L /\ L \in Nat
      BY DEF Offsets
    <2> HIDE DEF w, L
    <2>3. o + w \in 0 .. L
      BY <2>1, <2>2
    <2> QED BY <2>1, <2>3 DEF Offsets, L
  <1>2. CASE h.type[n] # "T_STRING"
    <2>1. Width(h, n) = 1
      BY <1>2 DEF Width
    <2> QED BY <2>1 DEF Offsets
  <1> QED BY <1>1, <1>2

LEMMA QuantifierType ==
  ASSUME NEW text, Len(text) \in Nat, NEW inner \in Function(text), NEW rest \in Function(text),
         NEW d, QuantifierData(d), NEW o \in Offsets(text)
  PROVE  EvalQuantifier(d, inner, rest, text, o) \in Outcome(text)
  <1> DEFINE from == AtLeast(inner, o, d.min)
             first == rest[from]
             longest == Further(d, inner, rest, text, from, first)
  <1>1. from \in Outcome(text)
    <2> DEFINE count == d.min
    <2>1. count \in Nat
      BY DEF QuantifierData
    <2> HIDE DEF count
    <2>2. PICK after \in [0 .. count -> Outcome(text)] : AtLeast(inner, o, count) = after[count]
      BY <2>1, AtLeastUnfold
    <2>3. after[count] \in Outcome(text)
      BY <2>1
    <2> QED BY <2>2, <2>3 DEF count
  <1>2. Matched(from) => from \in Offsets(text)
    BY <1>1 DEF Outcome, Matched, NoMatch, Hang, Abort
  <1>3. Matched(from) => first \in Outcome(text)
    BY <1>2 DEF Function
  <1>4. ASSUME Matched(from) PROVE longest \in Outcome(text)
    <2> HIDE DEF from, first
    <2>1. from \in Offsets(text) /\ first \in Outcome(text)
      BY <1>2, <1>3, <1>4
    <2>2. PICK loop \in [0 .. Turns(d, text) -> Lap(text)] :
            longest = loop[Turns(d, text)].longest
      BY <2>1, FurtherUnfold
    <2>3. Turns(d, text) \in 0 .. Turns(d, text)
      BY <2>1, FurtherUnfold
    <2> HIDE DEF longest
    <2> QED BY <2>2, <2>3 DEF Lap
  <1>5. NoMatch \in Outcome(text)
    BY DEF Outcome
  <1>6. EvalQuantifier(d, inner, rest, text, o) =
          IF ~Matched(from) THEN from
          ELSE IF ~Returned(first) \/ (Matched(first) /\ d.lazy) THEN first
          ELSE IF longest = 0 THEN NoMatch ELSE longest
    BY DEF EvalQuantifier
  <1> HIDE DEF from, first, longest
  <1> QED BY <1>1, <1>3, <1>4, <1>5, <1>6

LEMMA CallType ==
  ASSUME NEW h, NEW text, Len(text) \in Nat, Shape(h), NEW calls \in Table(h, text),
         NEW n \in Pointer(h), NEW o \in Offsets(text)
  PROVE  Call(h, text, calls, n, o) \in Outcome(text)
  <1> DEFINE inner == calls[h.child[n]]
             rest  == calls[h.next[n]]
  <1>1. NoMatch \in Outcome(text) /\ Abort \in Outcome(text) /\ o \in Outcome(text)
    BY DEF Outcome
  <1>2. SUFFICES ASSUME n # 0, ~PastEnd(h, n, text, o)
                 PROVE  Call(h, text, calls, n, o) \in Outcome(text)
    BY <1>1 DEF Call
  <1>3. NodeShape(h, n)
    BY <1>2 DEF Shape
  <1>4. inner \in Function(text) /\ rest \in Function(text)
    BY <1>3 DEF NodeShape, Table
  <1>5. inner[o] \in Outcome(text) /\ rest[o] \in Outcome(text)
    BY <1>4 DEF Function
  <1>6. CASE h.type[n] \in Single
    <2>1. Call(h, text, calls, n, o) =
            IF Matches(h, n, text, o) THEN rest[o + Width(h, n)] ELSE NoMatch
      BY <1>2, <1>6 DEF Call
    <2>2. o < Len(text)
      BY <1>2, <1>6 DEF PastEnd, Single, Offsets
    <2>3. Matches(h, n, text, o) => o + Width(h, n) \in Offsets(text)
      BY <1>3, <1>6, <2>2, SingleFits
    <2> HIDE DEF rest
    <2> QED BY <1>1, <1>4, <2>1, <2>3 DEF Function
  <1>7. CASE h.type[n] = "T_ALTERNATION"
    <2>1. Call(h, text, calls, n, o) = EvalAlternation(inner, rest, o)
      BY <1>2, <1>7 DEF Call, Single
    <2> HIDE DEF inner, rest
    <2> QED BY <1>5, <2>1 DEF EvalAlternation
  <1>8. CASE h.type[n] = "T_GROUP"
    <2>1. Call(h, text, calls, n, o) = EvalGroup(h.data[n], inner, rest, o)
      BY <1>2, <1>8 DEF Call, Single
    <2> HIDE DEF inner, rest
    <2>2. Matched(inner[o]) => inner[o] \in Offsets(text) /\ rest[inner[o]] \in Outcome(text)
      BY <1>4, <1>5 DEF Outcome, Matched, NoMatch, Hang, Abort, Function
    <2> QED BY <1>1, <1>5, <2>1, <2>2 DEF EvalGroup
  <1>9. CASE h.type[n] = "T_QUANTIFIER"
    <2>1. Call(h, text, calls, n, o) = EvalQuantifier(h.data[n], inner, rest, text, o)
      BY <1>2, <1>9 DEF Call, Single
    <2>2. QuantifierData(h.data[n])
      BY <1>3, <1>9 DEF NodeShape, QuantifierData
    <2> HIDE DEF inner, rest
    <2> QED BY <1>4, <2>1, <2>2, QuantifierType
  <1>10. CASE h.type[n] \notin Single \cup {"T_ALTERNATION", "T_GROUP", "T_QUANTIFIER"}
    BY <1>1, <1>2, <1>5, <1>10 DEF Call
  <1> QED BY <1>6, <1>7, <1>8, <1>9, <1>10

(* The recursion over the depth of calls.                                  *)
LEMMA CallsUnfold ==
  ASSUME NEW h, NEW text, Len(text) \in Nat, Shape(h)
  PROVE  /\ Calls(h, text) \in [0 .. h.size -> Table(h, text)]
         /\ \A n \in Pointer(h), o \in Offsets(text) : Calls(h, text)[0][n][o] = Abort
         /\ \A k \in 1 .. h.size : \A n \in Pointer(h), o \in Offsets(text) :
              Calls(h, text)[k][n][o] = Call(h, text, Calls(h, text)[k - 1], n, o)
  <1> DEFINE S == Table(h, text)
             N == h.size
             P == Pointer(h)
             O == Offsets(text)
             Next1(s) == [n \in P |-> [o \in O |-> Call(h, text, s, n, o)]]
             start == [n \in P |-> [o \in O |-> Abort]]
             Raw(f) == f = [k \in 0 .. N |-> [n \in P |-> [o \in O |->
                              IF k = 0 THEN Abort ELSE Call(h, text, f[k - 1], n, o)]]]
             table == CHOOSE f : Raw(f)
             step == [c \in 1 .. N |-> [s \in S |-> Next1(s)]]
  <1>1. Calls(h, text) = table
    BY DEF Calls
  <1>2. ASSUME NEW s \in S PROVE Next1(s) \in S
    <2>1. ASSUME NEW n \in P, NEW o \in O PROVE Call(h, text, s, n, o) \in Outcome(text)
      BY CallType
    <2> QED BY <2>1 DEF Table, Function
  <1>3. start \in S
    BY DEF Table, Function, Outcome
  <1>4. N \in Nat
    BY DEF Shape
  <1>5. \A f : Raw(f) <=> f = [k \in 0 .. N |-> IF k = 0 THEN start ELSE Next1(f[k - 1])]
    <2> SUFFICES ASSUME NEW f
                 PROVE  [k \in 0 .. N |-> [n \in P |-> [o \in O |->
                           IF k = 0 THEN Abort ELSE Call(h, text, f[k - 1], n, o)]]]
                        = [k \in 0 .. N |-> IF k = 0 THEN start ELSE Next1(f[k - 1])]
      OBVIOUS
    <2>1. ASSUME NEW k \in 0 .. N
          PROVE  [n \in P |-> [o \in O |-> IF k = 0 THEN Abort ELSE Call(h, text, f[k - 1], n, o)]]
                 = IF k = 0 THEN start ELSE Next1(f[k - 1])
      <3>1. CASE k = 0
        BY <3>1
      <3>2. CASE k # 0
        BY <3>2
      <3> QED BY <3>1, <3>2
    <2> QED BY <2>1
  <1> HIDE DEF S, Next1, N, start, Raw
  <1>6. step \in [1 .. N -> [S -> S]]
    BY <1>2
  <1>7. PICK f \in [0 .. N -> S] : f[0] = start /\ \A n \in 1 .. N : f[n] = step[n][f[n - 1]]
    <2> HIDE DEF step
    <2>1. Recursive(S, start, N, step)
      BY <1>3, <1>4, <1>6, Recursion
    <2> QED BY <2>1 DEF Recursive
  <1>8. Raw(f)
    <2>1. ASSUME NEW c \in 0 .. N PROVE f[c] = IF c = 0 THEN start ELSE Next1(f[c - 1])
      <3>1. c # 0 => c \in 1 .. N /\ f[c - 1] \in S
        BY <1>4, <1>7
      <3> QED BY <1>7, <3>1
    <2>2. f = [k \in 0 .. N |-> IF k = 0 THEN start ELSE Next1(f[k - 1])]
      BY <1>7, <2>1
    <2> QED BY <1>5, <2>2
  <1>9. Raw(table)
    BY <1>8
  <1> HIDE DEF table
  <1>10. table = [k \in 0 .. N |-> IF k = 0 THEN start ELSE Next1(table[k - 1])]
    BY <1>5, <1>9
  <1>11. table[0] = start /\ \A c \in 1 .. N : table[c] = Next1(table[c - 1])
    BY <1>4, <1>10
  <1>12. \A c \in 0 .. N : table[c] \in S
    <2> DEFINE Q == {c \in 0 .. N : table[c] \in S}
    <2>1. 0 \in Q
      BY <1>3, <1>4, <1>11
    <2>2. ASSUME NEW c \in Q, c < N PROVE c + 1 \in Q
      <3>1. table[c + 1] = Next1(table[c]) /\ table[c] \in S /\ c + 1 \in 0 .. N
        BY <1>4, <1>11, <2>2
      <3> QED BY <1>2, <3>1
    <2>3. Q = 0 .. N
      <3>1. Q \in SUBSET (0 .. N)
        OBVIOUS
      <3> HIDE DEF Q
      <3> QED BY <1>4, <2>1, <2>2, <3>1, BoundedInduction
    <2> QED BY <2>3
  <1>13. table \in [0 .. N -> S]
    BY <1>10, <1>12
  <1>14. \A n \in P, o \in O : table[0][n][o] = Abort
    <2>1. table[0] = [n \in P |-> [o \in O |-> Abort]]
      BY <1>11 DEF start
    <2> QED BY <2>1
  <1>15. ASSUME NEW k \in 1 .. N, NEW n \in P, NEW o \in O
         PROVE  table[k][n][o] = Call(h, text, table[k - 1], n, o)
    <2>1. table[k] = [m \in P |-> [p \in O |-> Call(h, text, table[k - 1], m, p)]]
      BY <1>11 DEF Next1
    <2> QED BY <2>1
  <1> QED BY <1>1, <1>13, <1>14, <1>15 DEF S, N

(* What holds at first, and after each step that starts where it holds.    *)
LEMMA Always ==
  ASSUME NEW N, N \in Nat, NEW S, NEW f, f[0] \in S,
         \A c \in 1 .. N : f[c - 1] \in S => f[c] \in S
  PROVE  \A c \in 0 .. N : f[c] \in S
  <1> DEFINE P == {c \in 0 .. N : f[c] \in S}
  <1>1. 0 \in P
    OBVIOUS
  <1>2. ASSUME NEW c \in P, c < N PROVE c + 1 \in P
    <2>1. c + 1 \in 1 .. N /\ (c + 1) - 1 = c /\ f[c] \in S
      BY <1>2
    <2> QED BY <2>1
  <1>3. P \in SUBSET (0 .. N)
    OBVIOUS
  <1>4. P = 0 .. N
    <2> HIDE DEF P
    <2> QED BY <1>1, <1>2, <1>3, BoundedInduction
  <1> QED BY <1>4

Ended(text) == [Offsets(text) -> SUBSET Offsets(text)]
EndsOf(h, text) == [Pointer(h) -> Ended(text)]

(* Steps of the reference, one at a time.                                  *)
LEMMA StepsUnfold ==
  ASSUME NEW text, Len(text) \in Nat, NEW inner \in Ended(text), NEW o \in Offsets(text)
  PROVE  /\ Steps(inner, o, 0) = {o}
         /\ \A count \in Nat : Steps(inner, o, count) \in SUBSET Offsets(text)
         /\ \A count \in Nat : Steps(inner, o, count + 1) = Behind(inner, Steps(inner, o, count))
  <1> DEFINE S == SUBSET Offsets(text)
             Raw(f, N) == f = [c \in 0 .. N |-> IF c = 0 THEN {o} ELSE Behind(inner, f[c - 1])]
             after(N) == CHOOSE f : Raw(f, N)
  <1>1. \A N : Steps(inner, o, N) = after(N)[N]
    BY DEF Steps
  <1>2. ASSUME NEW e \in S PROVE Behind(inner, e) \in S
    BY DEF Behind, Ended
  <1>3. {o} \in S
    OBVIOUS
  <1>4. ASSUME NEW N, N \in Nat
        PROVE  /\ after(N)[0] = {o} /\ \A c \in 1 .. N : after(N)[c] = Behind(inner, after(N)[c - 1])
               /\ \A c \in 0 .. N : after(N)[c] \in S
    <2> DEFINE step == [c \in 1 .. N |-> [e \in S |-> Behind(inner, e)]]
               M == N
               first == {o}
    <2> HIDE DEF S
    <2>1. first \in S /\ step \in [1 .. M -> [S -> S]] /\ M \in Nat
      BY <1>2, <1>3, <1>4
    <2>2. \E f \in [0 .. M -> S] : f[0] = first /\ \A n \in 1 .. M : f[n] = step[n][f[n - 1]]
      <3> HIDE DEF step, M, first
      <3>1. Recursive(S, first, M, step)
        BY <2>1, Recursion
      <3> QED BY <3>1 DEF Recursive
    <2>3. PICK f \in [0 .. N -> S] : f[0] = {o} /\ \A n \in 1 .. N : f[n] = step[n][f[n - 1]]
      BY <2>2
    <2>4. Raw(f, N)
      <3>1. ASSUME NEW c \in 0 .. N PROVE f[c] = IF c = 0 THEN {o} ELSE Behind(inner, f[c - 1])
        <4>1. c # 0 => c \in 1 .. N /\ f[c - 1] \in S
          BY <1>4, <2>3
        <4> QED BY <1>4, <2>3, <4>1
      <3> QED BY <1>4, <2>3, <3>1
    <2>5. Raw(after(N), N)
      <3> HIDE DEF Raw
      <3> QED BY <2>4
    <2> DEFINE a == after(N)
    <2>6. a = [c \in 0 .. N |-> IF c = 0 THEN {o} ELSE Behind(inner, a[c - 1])]
      BY <2>5
    <2> HIDE DEF a
    <2>7. a[0] = {o} /\ \A c \in 1 .. N : a[c] = Behind(inner, a[c - 1])
      <3>1. 0 \in 0 .. N /\ \A c \in 1 .. N : c \in 0 .. N /\ c # 0
        BY <1>4
      <3>2. a[0] = {o}
        BY <2>6, <3>1
      <3>3. \A c \in 1 .. N : a[c] = Behind(inner, a[c - 1])
        BY <2>6, <3>1
      <3> QED BY <3>2, <3>3
    <2>8. \A c \in 0 .. N : a[c] \in S
      BY <1>2, <1>3, <1>4, <2>7, Always
    <2> QED BY <2>7, <2>8 DEF a
  <1> HIDE DEF after
  <1>5. ASSUME NEW N, NEW M, N \in Nat, M \in Nat, M <= N PROVE \A c \in 0 .. M : after(M)[c] = after(N)[c]
    <2> DEFINE a == after(M)
               b == after(N)
               P == {c \in 0 .. M : a[c] = b[c]}
    <2>1. a[0] = {o} /\ \A c \in 1 .. M : a[c] = Behind(inner, a[c - 1])
      BY <1>4, <1>5
    <2>2. b[0] = {o} /\ \A c \in 1 .. N : b[c] = Behind(inner, b[c - 1])
      BY <1>4, <1>5
    <2> HIDE DEF a, b
    <2>3. 0 \in P
      <3>1. a[0] = b[0]
        BY <2>1, <2>2
      <3>2. 0 \in 0 .. M
        BY <1>5
      <3> QED BY <3>1, <3>2
    <2>4. ASSUME NEW c \in P, c < M PROVE c + 1 \in P
      <3>1. c + 1 \in 1 .. M /\ c + 1 \in 1 .. N /\ (c + 1) - 1 = c
        BY <1>5, <2>4
      <3> QED BY <2>1, <2>2, <3>1
    <2>5. P = 0 .. M
      <3>1. P \in SUBSET (0 .. M)
        OBVIOUS
      <3> HIDE DEF P
      <3> QED BY <1>5, <2>3, <2>4, <3>1, BoundedInduction
    <2> QED BY <2>5 DEF a, b
  <1>6. ASSUME NEW N \in Nat
        PROVE  after(N)[N] \in S /\ after(N + 1)[N + 1] = Behind(inner, after(N)[N])
    <2>1. N \in 0 .. N /\ N + 1 \in 1 .. N + 1 /\ N + 1 \in Nat /\ (N + 1) - 1 = N /\ N <= N + 1
      OBVIOUS
    <2>2. after(N + 1)[N + 1] = Behind(inner, after(N + 1)[N])
      BY <1>4, <2>1
    <2>3. after(N)[N] = after(N + 1)[N]
      BY <1>5, <2>1
    <2> QED BY <1>4, <2>1, <2>2, <2>3
  <1>7. after(0)[0] = {o}
    BY <1>4
  <1> QED BY <1>1, <1>6, <1>7

LEMMA NodeEndsType ==
  ASSUME NEW h, NEW text, Len(text) \in Nat, Shape(h), NEW table \in EndsOf(h, text),
         NEW n \in Pointer(h), NEW o \in Offsets(text)
  PROVE  NodeEnds(h, text, table, n, o) \in SUBSET Offsets(text)
  <1> DEFINE inner == table[h.child[n]]
             rest  == table[h.next[n]]
  <1>1. SUFFICES ASSUME n # 0 PROVE NodeEnds(h, text, table, n, o) \in SUBSET Offsets(text)
    BY DEF NodeEnds
  <1>2. NodeShape(h, n)
    BY <1>1 DEF Shape
  <1>3. inner \in Ended(text) /\ rest \in Ended(text)
    BY <1>2 DEF NodeShape, EndsOf
  <1>4. inner[o] \in SUBSET Offsets(text) /\ rest[o] \in SUBSET Offsets(text)
    BY <1>3 DEF Ended
  <1>5. ASSUME NEW froms \in SUBSET Offsets(text) PROVE Behind(rest, froms) \in SUBSET Offsets(text)
    <2> HIDE DEF rest
    <2> QED BY <1>3 DEF Behind, Ended
  <1>6. CASE h.type[n] \in Single
    <2>1. NodeEnds(h, text, table, n, o) =
            IF o < Len(text) /\ Matches(h, n, text, o) THEN rest[o + Width(h, n)] ELSE {}
      BY <1>1, <1>6 DEF NodeEnds
    <2>2. o < Len(text) /\ Matches(h, n, text, o) => o + Width(h, n) \in Offsets(text)
      BY <1>2, <1>6, SingleFits
    <2> HIDE DEF rest
    <2> QED BY <1>3, <2>1, <2>2 DEF Ended
  <1>7. CASE h.type[n] = "T_ALTERNATION"
    <2>1. NodeEnds(h, text, table, n, o) = inner[o] \cup rest[o]
      BY <1>1, <1>7 DEF NodeEnds, Single
    <2> HIDE DEF inner, rest
    <2> QED BY <1>4, <2>1
  <1>8. CASE h.type[n] = "T_GROUP"
    <2>1. NodeEnds(h, text, table, n, o) =
            IF (inner[o] # {}) = h.data[n].inv THEN {}
            ELSE Behind(rest, IF h.data[n].look THEN {o} ELSE inner[o])
      BY <1>1, <1>8 DEF NodeEnds, Single
    <2>2. (IF h.data[n].look THEN {o} ELSE inner[o]) \in SUBSET Offsets(text)
      BY <1>4
    <2> HIDE DEF inner, rest
    <2> QED BY <1>5, <2>1, <2>2
  <1>9. CASE h.type[n] = "T_QUANTIFIER"
    <2> DEFINE froms == UNION {Steps(inner, o, c) : c \in Counts(h.data[n], text)}
    <2>1. NodeEnds(h, text, table, n, o) = Behind(rest, froms)
      BY <1>1, <1>9 DEF NodeEnds, Single
    <2>2. Counts(h.data[n], text) \subseteq Nat
      BY <1>2, <1>9 DEF NodeShape, Counts
    <2>3. \A c \in Nat : Steps(inner, o, c) \in SUBSET Offsets(text)
      <3> HIDE DEF inner
      <3> QED BY <1>3, StepsUnfold
    <2>4. froms \in SUBSET Offsets(text)
      <3> HIDE DEF inner
      <3> QED BY <2>2, <2>3
    <2> HIDE DEF froms, inner, rest
    <2> QED BY <1>5, <2>1, <2>4
  <1>10. CASE h.type[n] \notin Single \cup {"T_ALTERNATION", "T_GROUP", "T_QUANTIFIER"}
    <2>1. NodeEnds(h, text, table, n, o) \in {{}, {o}, rest[o]}
      BY <1>1, <1>10 DEF NodeEnds
    <2> HIDE DEF rest
    <2> QED BY <1>4, <2>1
  <1> QED BY <1>6, <1>7, <1>8, <1>9, <1>10

(* The recursions of the reference over the depth of calls.               *)
LEMMA EndsUnfold ==
  ASSUME NEW h, NEW text, Len(text) \in Nat, Shape(h)
  PROVE  /\ EndsTable(h, text) \in [0 .. h.size -> EndsOf(h, text)]
         /\ \A n \in Pointer(h), o \in Offsets(text) : EndsTable(h, text)[0][n][o] = {}
         /\ \A k \in 1 .. h.size : \A n \in Pointer(h), o \in Offsets(text) :
              EndsTable(h, text)[k][n][o] = NodeEnds(h, text, EndsTable(h, text)[k - 1], n, o)
  <1> DEFINE S == EndsOf(h, text)
             N == h.size
             Next1(s) == [n \in Pointer(h) |-> [o \in Offsets(text) |-> NodeEnds(h, text, s, n, o)]]
             start == [n \in Pointer(h) |-> [o \in Offsets(text) |-> {}]]
             Raw(f) == f = [k \in 0 .. N |-> [n \in Pointer(h) |-> [o \in Offsets(text) |->
                          IF k = 0 THEN {} ELSE NodeEnds(h, text, f[k - 1], n, o)]]]
             table == CHOOSE f : Raw(f)
             step == [c \in 1 .. N |-> [s \in S |-> Next1(s)]]
  <1>1. EndsTable(h, text) = table
    BY DEF EndsTable
  <1>2. ASSUME NEW s \in S PROVE Next1(s) \in S
    <2>1. ASSUME NEW n \in Pointer(h), NEW o \in Offsets(text)
          PROVE  NodeEnds(h, text, s, n, o) \in SUBSET Offsets(text)
      BY NodeEndsType
    <2> QED BY <2>1 DEF EndsOf, Ended
  <1>3. start \in S
    BY DEF EndsOf, Ended
  <1>4. N \in Nat
    BY DEF Shape
  <1>5. \A f : Raw(f) <=> f = [k \in 0 .. N |-> IF k = 0 THEN start ELSE Next1(f[k - 1])]
    <2> SUFFICES ASSUME NEW f
                 PROVE  [k \in 0 .. N |-> [n \in Pointer(h) |-> [o \in Offsets(text) |->
                          IF k = 0 THEN {} ELSE NodeEnds(h, text, f[k - 1], n, o)]]]
                        = [k \in 0 .. N |-> IF k = 0 THEN start ELSE Next1(f[k - 1])]
      OBVIOUS
    <2>1. ASSUME NEW k \in 0 .. N
          PROVE  [n \in Pointer(h) |-> [o \in Offsets(text) |->
                          IF k = 0 THEN {} ELSE NodeEnds(h, text, f[k - 1], n, o)]]
                 = IF k = 0 THEN start ELSE Next1(f[k - 1])
      <3>1. CASE k = 0
        BY <3>1
      <3>2. CASE k # 0
        BY <3>2
      <3> QED BY <3>1, <3>2
    <2> QED BY <2>1
  <1> HIDE DEF S, Next1, N, start, Raw
  <1>6. step \in [1 .. N -> [S -> S]]
    BY <1>2
  <1>7. PICK f \in [0 .. N -> S] : f[0] = start /\ \A n \in 1 .. N : f[n] = step[n][f[n - 1]]
    <2> HIDE DEF step
    <2>1. Recursive(S, start, N, step)
      BY <1>3, <1>4, <1>6, Recursion
    <2> QED BY <2>1 DEF Recursive
  <1>8. Raw(f)
    <2>1. ASSUME NEW c \in 0 .. N PROVE f[c] = IF c = 0 THEN start ELSE Next1(f[c - 1])
      <3>1. c # 0 => c \in 1 .. N /\ f[c - 1] \in S
        BY <1>4, <1>7
      <3> QED BY <1>7, <3>1
    <2>2. f = [k \in 0 .. N |-> IF k = 0 THEN start ELSE Next1(f[k - 1])]
      BY <1>7, <2>1
    <2> QED BY <1>5, <2>2
  <1>9. Raw(table)
    BY <1>8
  <1> HIDE DEF table
  <1>10. table = [k \in 0 .. N |-> IF k = 0 THEN start ELSE Next1(table[k - 1])]
    BY <1>5, <1>9
  <1>11. table[0] = start /\ \A c \in 1 .. N : table[c] = Next1(table[c - 1])
    BY <1>4, <1>10
  <1>12. \A c \in 0 .. N : table[c] \in S
    BY <1>2, <1>3, <1>4, <1>11, Always
  <1>13. table \in [0 .. N -> S]
    BY <1>10, <1>12
  <1>14. \A n \in Pointer(h), o \in Offsets(text) : table[0][n][o] = {}
    <2>1. table[0] = [n \in Pointer(h) |-> [o \in Offsets(text) |-> {}]]
      BY <1>11 DEF start
    <2> QED BY <2>1
  <1>15. \A k \in 1 .. N : \A n \in Pointer(h), o \in Offsets(text) : table[k][n][o] = NodeEnds(h, text, table[k - 1], n, o)
    <2> SUFFICES ASSUME NEW k \in 1 .. N
                 PROVE  \A n \in Pointer(h), o \in Offsets(text) : table[k][n][o] = NodeEnds(h, text, table[k - 1], n, o)
      OBVIOUS
    <2>1. table[k] = [n \in Pointer(h) |-> [o \in Offsets(text) |-> NodeEnds(h, text, table[k - 1], n, o)]]
      BY <1>11 DEF Next1
    <2> QED BY <2>1
  <1> QED BY <1>1, <1>13, <1>14, <1>15 DEF S, N

(* ... of Nullable,                                                        *)
LEMMA NullableUnfold ==
  ASSUME NEW h, Shape(h)
  PROVE  /\ NullableTable(h) \in [0 .. h.size -> [Pointer(h) -> BOOLEAN]]
         /\ \A n \in Pointer(h) : NullableTable(h)[0][n] = FALSE
         /\ \A k \in 1 .. h.size : \A n \in Pointer(h) :
              NullableTable(h)[k][n] = NodeNullable(h, NullableTable(h)[k - 1], n)
  <1> DEFINE S == [Pointer(h) -> BOOLEAN]
             N == h.size
             Next1(s) == [n \in Pointer(h) |-> NodeNullable(h, s, n)]
             start == [n \in Pointer(h) |-> FALSE]
             Raw(f) == f = [k \in 0 .. N |-> [n \in Pointer(h) |-> k # 0 /\ NodeNullable(h, f[k - 1], n)]]
             table == CHOOSE f : Raw(f)
             step == [c \in 1 .. N |-> [s \in S |-> Next1(s)]]
  <1>1. NullableTable(h) = table
    BY DEF NullableTable
  <1>2. ASSUME NEW s \in S PROVE Next1(s) \in S
    <2>1. ASSUME NEW n \in Pointer(h) PROVE NodeNullable(h, s, n) \in BOOLEAN
      <3>1. CASE n # 0
        <4>1. NodeShape(h, n)
          BY <3>1 DEF Shape
        <4>2. s[h.child[n]] \in BOOLEAN /\ s[h.next[n]] \in BOOLEAN
          BY <4>1 DEF NodeShape
        <4> QED BY <4>1, <4>2 DEF NodeNullable, NodeShape, Single
      <3>2. CASE n = 0
        BY <3>2 DEF NodeNullable
      <3> QED BY <3>1, <3>2
    <2> QED BY <2>1
  <1>3. start \in S
    BY DEF Shape
  <1>4. N \in Nat
    BY DEF Shape
  <1>5. \A f : Raw(f) <=> f = [k \in 0 .. N |-> IF k = 0 THEN start ELSE Next1(f[k - 1])]
    <2> SUFFICES ASSUME NEW f
                 PROVE  [k \in 0 .. N |-> [n \in Pointer(h) |-> k # 0 /\ NodeNullable(h, f[k - 1], n)]]
                        = [k \in 0 .. N |-> IF k = 0 THEN start ELSE Next1(f[k - 1])]
      OBVIOUS
    <2>1. ASSUME NEW k \in 0 .. N
          PROVE  [n \in Pointer(h) |-> k # 0 /\ NodeNullable(h, f[k - 1], n)]
                 = IF k = 0 THEN start ELSE Next1(f[k - 1])
      <3>1. CASE k = 0
        BY <3>1
      <3>2. CASE k # 0
        <4>1. ASSUME NEW n \in Pointer(h)
              PROVE  (k # 0 /\ NodeNullable(h, f[k - 1], n)) = NodeNullable(h, f[k - 1], n)
          <5>1. NodeNullable(h, f[k - 1], n) \in BOOLEAN
            BY DEF NodeNullable
          <5> QED BY <3>2, <5>1
        <4> QED BY <3>2, <4>1
      <3> QED BY <3>1, <3>2
    <2> QED BY <2>1
  <1> HIDE DEF S, Next1, N, start, Raw
  <1>6. step \in [1 .. N -> [S -> S]]
    BY <1>2
  <1>7. PICK f \in [0 .. N -> S] : f[0] = start /\ \A n \in 1 .. N : f[n] = step[n][f[n - 1]]
    <2> HIDE DEF step
    <2>1. Recursive(S, start, N, step)
      BY <1>3, <1>4, <1>6, Recursion
    <2> QED BY <2>1 DEF Recursive
  <1>8. Raw(f)
    <2>1. ASSUME NEW c \in 0 .. N PROVE f[c] = IF c = 0 THEN start ELSE Next1(f[c - 1])
      <3>1. c # 0 => c \in 1 .. N /\ f[c - 1] \in S
        BY <1>4, <1>7
      <3> QED BY <1>7, <3>1
    <2>2. f = [k \in 0 .. N |-> IF k = 0 THEN start ELSE Next1(f[k - 1])]
      BY <1>7, <2>1
    <2> QED BY <1>5, <2>2
  <1>9. Raw(table)
    BY <1>8
  <1> HIDE DEF table
  <1>10. table = [k \in 0 .. N |-> IF k = 0 THEN start ELSE Next1(table[k - 1])]
    BY <1>5, <1>9
  <1>11. table[0] = start /\ \A c \in 1 .. N : table[c] = Next1(table[c - 1])
    BY <1>4, <1>10
  <1>12. \A c \in 0 .. N : table[c] \in S
    BY <1>2, <1>3, <1>4, <1>11, Always
  <1>13. table \in [0 .. N -> S]
    BY <1>10, <1>12
  <1>14. \A n \in Pointer(h) : table[0][n] = FALSE
    <2>1. table[0] = [n \in Pointer(h) |-> FALSE]
      BY <1>11 DEF start
    <2> QED BY <2>1
  <1>15. \A k \in 1 .. N : \A n \in Pointer(h) : table[k][n] = NodeNullable(h, table[k - 1], n)
    <2> SUFFICES ASSUME NEW k \in 1 .. N
                 PROVE  \A n \in Pointer(h) : table[k][n] = NodeNullable(h, table[k - 1], n)
      OBVIOUS
    <2>1. table[k] = [n \in Pointer(h) |-> NodeNullable(h, table[k - 1], n)]
      BY <1>11 DEF Next1
    <2> QED BY <2>1
  <1> QED BY <1>1, <1>13, <1>14, <1>15 DEF S, N

(* ... and of Nodes.                                                       *)
LEMMA NodesUnfold ==
  ASSUME NEW h, Shape(h)
  PROVE  /\ NodesTable(h) \in [0 .. h.size -> [Pointer(h) -> SUBSET (Pointer(h) \ {0})]]
         /\ \A n \in Pointer(h) : NodesTable(h)[0][n] = {}
         /\ \A k \in 1 .. h.size : \A n \in Pointer(h) :
              NodesTable(h)[k][n] = (IF n = 0 THEN {}
                    ELSE {n} \cup NodesTable(h)[k - 1][h.next[n]]
                         \cup (IF h.type[n] \in Branching THEN NodesTable(h)[k - 1][h.child[n]] ELSE {}))
  <1> DEFINE S == [Pointer(h) -> SUBSET (Pointer(h) \ {0})]
             N == h.size
             Next1(s) == [n \in Pointer(h) |-> IF n = 0 THEN {}
                    ELSE {n} \cup s[h.next[n]]
                         \cup (IF h.type[n] \in Branching THEN s[h.child[n]] ELSE {})]
             start == [n \in Pointer(h) |-> {}]
             Raw(f) == f = [k \in 0 .. N |-> [n \in Pointer(h) |-> IF k = 0 \/ n = 0 THEN {}
                    ELSE {n} \cup f[k - 1][h.next[n]]
                         \cup (IF h.type[n] \in Branching THEN f[k - 1][h.child[n]] ELSE {})]]
             table == CHOOSE f : Raw(f)
             step == [c \in 1 .. N |-> [s \in S |-> Next1(s)]]
  <1>1. NodesTable(h) = table
    BY DEF NodesTable
  <1>2. ASSUME NEW s \in S PROVE Next1(s) \in S
    <2>1. ASSUME NEW n \in Pointer(h), n # 0
          PROVE  s[h.next[n]] \in SUBSET (Pointer(h) \ {0}) /\ s[h.child[n]] \in SUBSET (Pointer(h) \ {0})
      <3>1. NodeShape(h, n)
        BY <2>1 DEF Shape
      <3> QED BY <3>1 DEF NodeShape
    <2> QED BY <2>1
  <1>3. start \in S
    BY DEF Shape
  <1>4. N \in Nat
    BY DEF Shape
  <1>5. \A f : Raw(f) <=> f = [k \in 0 .. N |-> IF k = 0 THEN start ELSE Next1(f[k - 1])]
    <2> SUFFICES ASSUME NEW f
                 PROVE  [k \in 0 .. N |-> [n \in Pointer(h) |-> IF k = 0 \/ n = 0 THEN {}
                    ELSE {n} \cup f[k - 1][h.next[n]]
                         \cup (IF h.type[n] \in Branching THEN f[k - 1][h.child[n]] ELSE {})]]
                        = [k \in 0 .. N |-> IF k = 0 THEN start ELSE Next1(f[k - 1])]
      OBVIOUS
    <2>1. ASSUME NEW k \in 0 .. N
          PROVE  [n \in Pointer(h) |-> IF k = 0 \/ n = 0 THEN {}
                    ELSE {n} \cup f[k - 1][h.next[n]]
                         \cup (IF h.type[n] \in Branching THEN f[k - 1][h.child[n]] ELSE {})]
                 = IF k = 0 THEN start ELSE Next1(f[k - 1])
      <3>1. CASE k = 0
        BY <3>1
      <3>2. CASE k # 0
        BY <3>2
      <3> QED BY <3>1, <3>2
    <2> QED BY <2>1
  <1> HIDE DEF S, Next1, N, start, Raw
  <1>6. step \in [1 .. N -> [S -> S]]
    BY <1>2
  <1>7. PICK f \in [0 .. N -> S] : f[0] = start /\ \A n \in 1 .. N : f[n] = step[n][f[n - 1]]
    <2> HIDE DEF step
    <2>1. Recursive(S, start, N, step)
      BY <1>3, <1>4, <1>6, Recursion
    <2> QED BY <2>1 DEF Recursive
  <1>8. Raw(f)
    <2>1. ASSUME NEW c \in 0 .. N PROVE f[c] = IF c = 0 THEN start ELSE Next1(f[c - 1])
      <3>1. c # 0 => c \in 1 .. N /\ f[c - 1] \in S
        BY <1>4, <1>7
      <3> QED BY <1>7, <3>1
    <2>2. f = [k \in 0 .. N |-> IF k = 0 THEN start ELSE Next1(f[k - 1])]
      BY <1>7, <2>1
    <2> QED BY <1>5, <2>2
  <1>9. Raw(table)
    BY <1>8
  <1> HIDE DEF table
  <1>10. table = [k \in 0 .. N |-> IF k = 0 THEN start ELSE Next1(table[k - 1])]
    BY <1>5, <1>9
  <1>11. table[0] = start /\ \A c \in 1 .. N : table[c] = Next1(table[c - 1])
    BY <1>4, <1>10
  <1>12. \A c \in 0 .. N : table[c] \in S
    BY <1>2, <1>3, <1>4, <1>11, Always
  <1>13. table \in [0 .. N -> S]
    BY <1>10, <1>12
  <1>14. \A n \in Pointer(h) : table[0][n] = {}
    <2>1. table[0] = [n \in Pointer(h) |-> {}]
      BY <1>11 DEF start
    <2> QED BY <2>1
  <1>15. \A k \in 1 .. N : \A n \in Pointer(h) : table[k][n] = (IF n = 0 THEN {}
                    ELSE {n} \cup table[k - 1][h.next[n]]
                         \cup (IF h.type[n] \in Branching THEN table[k - 1][h.child[n]] ELSE {}))
    <2> SUFFICES ASSUME NEW k \in 1 .. N
                 PROVE  \A n \in Pointer(h) : table[k][n] = (IF n = 0 THEN {}
                    ELSE {n} \cup table[k - 1][h.next[n]]
                         \cup (IF h.type[n] \in Branching THEN table[k - 1][h.child[n]] ELSE {}))
      OBVIOUS
    <2>1. table[k] = [n \in Pointer(h) |-> IF n = 0 THEN {}
                    ELSE {n} \cup table[k - 1][h.next[n]]
                         \cup (IF h.type[n] \in Branching THEN table[k - 1][h.child[n]] ELSE {})]
      BY <1>11 DEF Next1
    <2> QED BY <2>1
  <1> QED BY <1>1, <1>13, <1>14, <1>15 DEF S, N

-----------------------------------------------------------------------------
(***************************************************************************)
(* What a quantifier's two loops may come to.  The child leads from o to e *)
(* in c matches:                                                           *)
(***************************************************************************)
Leads(inner, text, o, e, c) ==
  \E p \in [0 .. c -> Offsets(text)] :
    p[0] = o /\ p[c] = e /\ \A i \in 1 .. c : p[i] = inner[p[i - 1]]

(* No match ends before it starts.                                         *)
Forward(f, text) == \A o \in Offsets(text) : Matched(f[o]) => f[o] >= o

LEMMA LeadsNowhere ==
  ASSUME NEW text, NEW inner, NEW o \in Offsets(text)
  PROVE  Leads(inner, text, o, o, 0)
  <1> DEFINE p == [i \in 0 .. 0 |-> o]
  <1>1. p \in [0 .. 0 -> Offsets(text)] /\ p[0] = o
    OBVIOUS
  <1>2. \A i \in 1 .. 0 : FALSE
    OBVIOUS
  <1> HIDE DEF p
  <1> QED BY <1>1, <1>2 DEF Leads

LEMMA LeadsOn ==
  ASSUME NEW text, Len(text) \in Nat, NEW inner, NEW o, NEW e, NEW c, c \in Nat,
         Leads(inner, text, o, e, c), inner[e] \in Offsets(text)
  PROVE  Leads(inner, text, o, inner[e], c + 1)
  <1>1. PICK p \in [0 .. c -> Offsets(text)] :
          p[0] = o /\ p[c] = e /\ \A i \in 1 .. c : p[i] = inner[p[i - 1]]
    BY DEF Leads
  <1> DEFINE q == [i \in 0 .. c + 1 |-> IF i = c + 1 THEN inner[e] ELSE p[i]]
  <1>2. q \in [0 .. c + 1 -> Offsets(text)]
    OBVIOUS
  <1>3. q[0] = o /\ q[c + 1] = inner[e]
    BY <1>1
  <1>4. ASSUME NEW i \in 1 .. c + 1 PROVE q[i] = inner[q[i - 1]]
    <2>1. CASE i = c + 1
      <3>1. i - 1 = c /\ c \in 0 .. c + 1 /\ c # c + 1
        BY <2>1
      <3> QED BY <1>1, <2>1, <3>1
    <2>2. CASE i # c + 1
      <3>1. i \in 1 .. c /\ i - 1 \in 0 .. c + 1 /\ i - 1 # c + 1
        BY <2>2
      <3> QED BY <1>1, <2>2, <3>1
    <2> QED BY <2>1, <2>2
  <1> HIDE DEF q
  <1> QED BY <1>2, <1>3, <1>4 DEF Leads

(* What is true of o, and of inner[e] with every e, is true wherever the   *)
(* child leads.                                                            *)
LEMMA LeadsWithin ==
  ASSUME NEW text, NEW inner, NEW o, NEW e, NEW c, c \in Nat, Leads(inner, text, o, e, c),
         NEW T, o \in T[0],
         \A i \in 0 .. c - 1 : \A x \in T[i] \cap Offsets(text) :
           inner[x] \in Offsets(text) => inner[x] \in T[i + 1]
  PROVE  e \in T[c]
  <1>1. PICK p \in [0 .. c -> Offsets(text)] :
          p[0] = o /\ p[c] = e /\ \A i \in 1 .. c : p[i] = inner[p[i - 1]]
    BY DEF Leads
  <1> DEFINE P == {i \in 0 .. c : p[i] \in T[i]}
  <1>2. 0 \in P
    BY <1>1
  <1>3. ASSUME NEW i \in P, i < c PROVE i + 1 \in P
    <2>1. i \in 0 .. c - 1 /\ i + 1 \in 1 .. c /\ (i + 1) - 1 = i /\ i + 1 \in 0 .. c
      BY <1>3
    <2>2. p[i + 1] = inner[p[i]] /\ p[i] \in T[i] \cap Offsets(text) /\ p[i + 1] \in Offsets(text)
      BY <1>1, <2>1
    <2> QED BY <2>1, <2>2
  <1>4. P \in SUBSET (0 .. c)
    OBVIOUS
  <1>5. P = 0 .. c
    <2> HIDE DEF P
    <2> QED BY <1>2, <1>3, <1>4, BoundedInduction
  <1> QED BY <1>1, <1>5

(* It leads forward, and where it stays, the child matches nothing at all. *)
LEMMA LeadsForward ==
  ASSUME NEW text, Len(text) \in Nat, NEW inner, Forward(inner, text),
         NEW o \in Offsets(text), NEW e, NEW c, c \in Nat, Leads(inner, text, o, e, c)
  PROVE  e \in Offsets(text) /\ e >= o /\ (e = o /\ c # 0 => inner[o] = o)
  <1>1. e \in Offsets(text)
    BY DEF Leads
  <1> DEFINE still(x, i) == x = o /\ i # 0 => inner[o] = o
             T == [i \in 0 .. c |-> {x \in Offsets(text) : x >= o /\ still(x, i)}]
  <1>2. o \in T[0]
    BY DEF Offsets
  <1>3. ASSUME NEW i \in 0 .. c - 1, NEW x \in T[i] \cap Offsets(text), inner[x] \in Offsets(text)
        PROVE  inner[x] \in T[i + 1]
    <2>1. inner[x] >= x /\ x >= o
      BY <1>3 DEF Forward, Matched, Offsets
    <2>2. inner[x] >= o /\ (inner[x] = o => x = o)
      BY <1>3, <2>1 DEF Offsets
    <2>3. i + 1 \in 0 .. c
      OBVIOUS
    <2> QED BY <1>3, <2>2, <2>3
  <1>4. e \in T[c]
    <2> HIDE DEF T
    <2> QED BY <1>2, <1>3, LeadsWithin
  <1> QED BY <1>1, <1>4

(* An outcome that is one of the child's, and no match.                    *)
Failed(inner, text, r) == ~Matched(r) /\ \E e \in Offsets(text) : r = inner[e]

LEMMA OffsetsMatch ==
  ASSUME NEW text, Len(text) \in Nat, NEW r \in Outcome(text)
  PROVE  /\ Matched(r) <=> r \in Offsets(text)
         /\ Returned(r) <=> r \in Offsets(text) \/ r = NoMatch
  <1> DEFINE L == Len(text)
  <1>1. L \in Nat
    OBVIOUS
  <1> HIDE DEF L
  <1>2. r \in {-1, -2, -3} \cup 0 .. L
    BY DEF Outcome, NoMatch, Hang, Abort, Offsets, L
  <1> QED BY <1>1, <1>2 DEF Matched, Returned, NoMatch, Offsets, L

LEMMA AtLeastLeads ==
  ASSUME NEW text, Len(text) \in Nat, NEW inner \in Function(text),
         NEW o \in Offsets(text), NEW count, count \in Nat
  PROVE  LET from == AtLeast(inner, o, count)
         IN  \/ from \in Offsets(text) /\ Leads(inner, text, o, from, count)
             \/ Failed(inner, text, from)
  <1>1. PICK after \in [0 .. count -> Outcome(text)] :
           AtLeast(inner, o, count) = after[count] /\ Repeats(inner, o, count, after)
    BY AtLeastUnfold
  <1> DEFINE S(c) == after[c] \in Offsets(text) /\ Leads(inner, text, o, after[c], c)
             P == {c \in 0 .. count : S(c) \/ Failed(inner, text, after[c])}
  <1>2. 0 \in P
    BY <1>1, LeadsNowhere DEF Repeats
  <1>3. ASSUME NEW c \in P, c < count PROVE c + 1 \in P
    <2> DEFINE e == after[c]
    <2>1. c + 1 \in 1 .. count /\ (c + 1) - 1 = c /\ c \in Nat /\ c + 1 \in 0 .. count
      BY <1>3
    <2>2. after[c + 1] = IF Matched(e) THEN inner[e] ELSE e
      BY <1>1, <2>1 DEF Repeats
    <2>3. after[c + 1] \in Outcome(text)
      BY <2>1
    <2>4. S(c) \/ Failed(inner, text, e)
      OBVIOUS
    <2>5. CASE S(c)
      <3>1. Matched(e)
        BY <2>5 DEF Offsets, Matched
      <3>2. after[c + 1] = inner[e]
        BY <2>2, <3>1
      <3>3. CASE Matched(after[c + 1])
        <4>1. after[c + 1] \in Offsets(text)
          BY <2>3, <3>3, OffsetsMatch
        <4>2. Leads(inner, text, o, inner[e], c + 1)
          <5> HIDE DEF e
          <5> QED BY <2>1, <2>5, <3>2, <4>1, LeadsOn DEF e
        <4> QED BY <2>1, <3>2, <4>1, <4>2
      <3>4. CASE ~Matched(after[c + 1])
        BY <2>1, <2>5, <3>2, <3>4 DEF Failed
      <3> QED BY <3>3, <3>4
    <2>6. CASE Failed(inner, text, e)
      BY <2>1, <2>2, <2>6 DEF Failed
    <2> QED BY <2>4, <2>5, <2>6
  <1>4. P \in SUBSET (0 .. count)
    OBVIOUS
  <1>5. P = 0 .. count
    <2> HIDE DEF P
    <2> QED BY <1>2, <1>3, <1>4, BoundedInduction
  <1>6. count \in P
    <2> HIDE DEF P
    <2> QED BY <1>5
  <1> QED BY <1>1, <1>6

(* What a quantifier finds: the rest of the pattern behind a number of     *)
(* matches of its child that its counts allow; or that one of them fails,  *)
(* or that the child goes round on the spot.                               *)
Finds(d, inner, rest, text, o, r) ==
  Matched(r) /\ \E c \in Counts(d, text), e \in Offsets(text) :
                    Leads(inner, text, o, e, c) /\ r = rest[e]
Breaks(d, inner, rest, text, r) ==
  ~Returned(r) /\ \E e \in Offsets(text) :
    r = inner[e] \/ r = rest[e] \/ (r = Hang /\ d.max = SIZE_MAX /\ inner[e] = e)

LEMMA TurnUnfold ==
  ASSUME NEW text, NEW inner, NEW rest, NEW d, NEW s, NEW e, e = inner[s.offset],
         NEW x, x = rest[e]
  PROVE  Turn(d, inner, rest, s) =
           IF ~s.on THEN s
           ELSE IF e = NoMatch THEN [offset |-> s.offset, longest |-> s.longest, on |-> FALSE]
           ELSE IF ~Returned(e) THEN [offset |-> s.offset, longest |-> e, on |-> FALSE]
           ELSE IF ~Returned(x) \/ (Matched(x) /\ d.lazy)
             THEN [offset |-> s.offset, longest |-> x, on |-> FALSE]
           ELSE IF e = s.offset /\ d.max = SIZE_MAX
             THEN [offset |-> s.offset, longest |-> Hang, on |-> FALSE]
           ELSE [offset |-> e, longest |-> IF Matched(x) THEN x ELSE s.longest, on |-> TRUE]
  BY DEF Turn

(* The second loop's invariant after j turns.                              *)
OnTheWay(d, inner, text, o, s, j) ==
  s.on => /\ s.offset \in Offsets(text) /\ Leads(inner, text, o, s.offset, d.min + j)
          /\ d.max = SIZE_MAX => s.offset >= j
Found(d, inner, rest, text, o, s) ==
  s.longest = 0 \/ Finds(d, inner, rest, text, o, s.longest)
    \/ Breaks(d, inner, rest, text, s.longest)

LEMMA TurnFinds ==
  ASSUME NEW text, Len(text) \in Nat, NEW inner \in Function(text), NEW rest \in Function(text),
         Forward(inner, text), NEW d, QuantifierData(d), NEW o \in Offsets(text),
         NEW s \in Lap(text), NEW j, j \in 0 .. Turns(d, text) - 1,
         OnTheWay(d, inner, text, o, s, j), Found(d, inner, rest, text, o, s),
         NEW t, t = Turn(d, inner, rest, s)
  PROVE  OnTheWay(d, inner, text, o, t, j + 1) /\ Found(d, inner, rest, text, o, t)
  <1> DEFINE e == inner[s.offset]
             x == rest[e]
             c == d.min + j
  <1>1. CASE ~s.on
    <2>1. t = s
      BY <1>1, TurnUnfold
    <2> QED BY <1>1, <2>1 DEF OnTheWay, Found
  <1>2. CASE s.on
    <2>1. s.offset \in Offsets(text) /\ Leads(inner, text, o, s.offset, c)
      BY <1>2 DEF OnTheWay
    <2>2. e \in Outcome(text)
      BY <2>1 DEF Function
    <2>3. c \in Nat /\ j \in Nat /\ c + 1 = d.min + (j + 1)
      <3>1. d.min \in Nat /\ Turns(d, text) \in Nat
        BY DEF QuantifierData, Turns
      <3> QED BY <3>1
    <2>4. CASE e = NoMatch
      <3>1. t = [offset |-> s.offset, longest |-> s.longest, on |-> FALSE]
        BY <1>2, <2>4, TurnUnfold
      <3> QED BY <3>1 DEF OnTheWay, Found
    <2>5. CASE ~Returned(e)
      <3>1. t = [offset |-> s.offset, longest |-> e, on |-> FALSE]
        BY <1>2, <2>5, TurnUnfold DEF Returned, NoMatch
      <3>2. Breaks(d, inner, rest, text, e)
        BY <2>1, <2>5 DEF Breaks
      <3> QED BY <3>1, <3>2 DEF OnTheWay, Found
    <2>6. CASE Returned(e) /\ e # NoMatch
      <3>1. e \in Offsets(text)
        BY <2>2, <2>6, OffsetsMatch
      <3>2. x \in Outcome(text)
        <4> HIDE DEF e
        <4> QED BY <3>1 DEF Function
      <3>3. Leads(inner, text, o, e, c + 1)
        BY <2>1, <2>3, <3>1, LeadsOn
      <3>4. e >= s.offset
        BY <2>1, <3>1, OffsetsMatch DEF Forward, Outcome
      <3>5. \E b \in Counts(d, text) : Leads(inner, text, o, e, b)
        <4> DEFINE L == Len(text)
        <4>1. CASE d.max # SIZE_MAX
          <5>1. j + 1 <= d.max - d.min /\ d.max > d.min
            BY <2>3, <4>1 DEF Turns, QuantifierData
          <5>2. c + 1 \in Counts(d, text)
            BY <2>3, <4>1, <5>1 DEF Counts, QuantifierData
          <5> QED BY <3>3, <5>2
        <4>2. CASE d.max = SIZE_MAX /\ j + 1 <= L
          <5>1. c + 1 \in Counts(d, text)
            BY <2>3, <4>2 DEF Counts, QuantifierData
          <5> QED BY <3>3, <5>1
        <4>3. CASE d.max = SIZE_MAX /\ j + 1 > L
          <5>0. j <= L
            BY <2>3, <4>3 DEF Turns
          <5>1. L \in Nat /\ j = L
            BY <2>3, <4>3, <5>0
          <5>2. s.offset >= j
            BY <1>2, <4>3 DEF OnTheWay
          <5>3. s.offset \in 0 .. L /\ e \in 0 .. L
            BY <2>1, <3>1 DEF Offsets
          <5> HIDE DEF e, L
          <5>4. e = s.offset
            BY <3>4, <5>1, <5>2, <5>3
          <5>5. c \in Counts(d, text)
            BY <2>3, <4>3, <5>1 DEF Counts, QuantifierData, L
          <5> QED BY <2>1, <5>4, <5>5
        <4>4. j + 1 <= L \/ j + 1 > L
          BY <2>3
        <4> QED BY <4>1, <4>2, <4>3, <4>4
      <3>6. Matched(x) => Finds(d, inner, rest, text, o, x)
        <4> HIDE DEF e
        <4> QED BY <3>1, <3>5 DEF Finds
      <3>7. ~Returned(x) => Breaks(d, inner, rest, text, x)
        <4> HIDE DEF e
        <4> QED BY <3>1 DEF Breaks
      <3>8. CASE ~Returned(x) \/ (Matched(x) /\ d.lazy)
        <4>1. t = [offset |-> s.offset, longest |-> x, on |-> FALSE]
          BY <1>2, <2>6, <3>8, TurnUnfold
        <4> QED BY <3>6, <3>7, <3>8, <4>1 DEF OnTheWay, Found
      <3>9. CASE ~(~Returned(x) \/ (Matched(x) /\ d.lazy)) /\ e = s.offset /\ d.max = SIZE_MAX
        <4>1. t = [offset |-> s.offset, longest |-> Hang, on |-> FALSE]
          BY <1>2, <2>6, <3>9, TurnUnfold
        <4>2. Breaks(d, inner, rest, text, Hang)
          BY <2>1, <3>9 DEF Breaks, Returned, Hang, NoMatch
        <4> QED BY <4>1, <4>2 DEF OnTheWay, Found
      <3>10. CASE ~(~Returned(x) \/ (Matched(x) /\ d.lazy)) /\ ~(e = s.offset /\ d.max = SIZE_MAX)
        <4>1. t = [offset |-> e, longest |-> IF Matched(x) THEN x ELSE s.longest, on |-> TRUE]
          BY <1>2, <2>6, <3>10, TurnUnfold
        <4>2. Found(d, inner, rest, text, o, t)
          BY <3>6, <4>1 DEF Found
        <4>3. d.max = SIZE_MAX => e >= j + 1
          <5>1. d.max = SIZE_MAX => s.offset >= j /\ e # s.offset
            BY <1>2, <3>10 DEF OnTheWay
          <5>2. s.offset \in Nat /\ e \in Nat
            BY <2>1, <3>1 DEF Offsets
          <5> HIDE DEF e
          <5> QED BY <2>3, <3>4, <5>1, <5>2
        <4>4. OnTheWay(d, inner, text, o, t, j + 1)
          <5> HIDE DEF e
          <5> QED BY <2>3, <3>1, <3>3, <4>1, <4>3 DEF OnTheWay
        <4> QED BY <4>2, <4>4
      <3> QED BY <3>8, <3>9, <3>10
    <2> QED BY <2>4, <2>5, <2>6
  <1> QED BY <1>1, <1>2 DEF Lap

LEMMA FurtherFinds ==
  ASSUME NEW text, Len(text) \in Nat, NEW inner \in Function(text), NEW rest \in Function(text),
         Forward(inner, text), NEW d, QuantifierData(d), NEW o \in Offsets(text),
         NEW from \in Offsets(text), Leads(inner, text, o, from, d.min),
         NEW first, first = rest[from], Returned(first)
  PROVE  LET r == Further(d, inner, rest, text, from, first)
         IN  r = 0 \/ Finds(d, inner, rest, text, o, r) \/ Breaks(d, inner, rest, text, r)
  <1>1. first \in Outcome(text)
    BY DEF Function
  <1> DEFINE N == Turns(d, text)
  <1>2. N \in Nat
    BY <1>1, FurtherUnfold
  <1>3. PICK loop \in [0 .. N -> Lap(text)] :
          /\ Further(d, inner, rest, text, from, first) = loop[N].longest
          /\ loop[0] = Started(from, first)
          /\ \A c \in 1 .. N : loop[c] = Turn(d, inner, rest, loop[c - 1])
    BY <1>1, FurtherUnfold
  <1> DEFINE Good(s, j) == OnTheWay(d, inner, text, o, s, j) /\ Found(d, inner, rest, text, o, s)
             P == {j \in 0 .. N : Good(loop[j], j)}
  <1> HIDE DEF N
  <1>4. 0 \in P
    <2> DEFINE s == loop[0]
    <2>1. s.offset = from /\ s.longest = IF Matched(first) THEN first ELSE 0
      BY <1>3 DEF Started
    <2>2. d.min \in Counts(d, text) /\ d.min + 0 = d.min
      BY DEF Counts, QuantifierData
    <2>3. OnTheWay(d, inner, text, o, s, 0)
      BY <2>1, <2>2 DEF OnTheWay, Offsets
    <2>4. Found(d, inner, rest, text, o, s)
      BY <2>1, <2>2 DEF Found, Finds
    <2> QED BY <1>2, <2>3, <2>4
  <1>5. ASSUME NEW j \in P, j < N PROVE j + 1 \in P
    <2>1. j + 1 \in 1 .. N /\ (j + 1) - 1 = j /\ j + 1 \in 0 .. N /\ j \in 0 .. N - 1
      BY <1>2, <1>5
    <2>2. loop[j + 1] = Turn(d, inner, rest, loop[j]) /\ loop[j] \in Lap(text)
      BY <1>3, <2>1
    <2>3. Good(loop[j + 1], j + 1)
      BY <2>1, <2>2, TurnFinds DEF N
    <2> QED BY <2>1, <2>3
  <1>6. P \in SUBSET (0 .. N)
    OBVIOUS
  <1>7. P = 0 .. N
    <2> HIDE DEF P
    <2> QED BY <1>2, <1>4, <1>5, <1>6, BoundedInduction
  <1>8. Good(loop[N], N)
    BY <1>2, <1>7
  <1> QED BY <1>3, <1>8 DEF Found

LEMMA QuantifierFinds ==
  ASSUME NEW text, Len(text) \in Nat, NEW inner \in Function(text), NEW rest \in Function(text),
         Forward(inner, text), NEW d, QuantifierData(d), NEW o \in Offsets(text),
         NEW r, r = EvalQuantifier(d, inner, rest, text, o)
  PROVE  r = NoMatch \/ Finds(d, inner, rest, text, o, r) \/ Breaks(d, inner, rest, text, r)
  <1> DEFINE from == AtLeast(inner, o, d.min)
             first == rest[from]
             longest == Further(d, inner, rest, text, from, first)
  <1>1. \/ from \in Offsets(text) /\ Leads(inner, text, o, from, d.min)
        \/ Failed(inner, text, from)
    BY AtLeastLeads DEF QuantifierData
  <1>2. r = IF ~Matched(from) THEN from
            ELSE IF ~Returned(first) \/ (Matched(first) /\ d.lazy) THEN first
            ELSE IF longest = 0 THEN NoMatch ELSE longest
    BY DEF EvalQuantifier
  <1> HIDE DEF longest
  <1>3. CASE Failed(inner, text, from)
    <2>1. PICK e \in Offsets(text) : from = inner[e]
      BY <1>3 DEF Failed
    <2>2. r = inner[e] /\ ~Matched(r) /\ r \in Outcome(text)
      <3> HIDE DEF from
      <3> QED BY <1>2, <1>3, <2>1 DEF Failed, Function
    <2>3. r = NoMatch \/ ~Returned(r)
      BY <2>2, OffsetsMatch
    <2> QED BY <2>2, <2>3 DEF Breaks
  <1>4. CASE from \in Offsets(text) /\ Leads(inner, text, o, from, d.min)
    <2> HIDE DEF from
    <2>1. Matched(from) /\ first \in Outcome(text)
      BY <1>4, OffsetsMatch DEF Function, Outcome
    <2>2. d.min \in Counts(d, text)
      BY DEF Counts, QuantifierData
    <2>3. Matched(first) => Finds(d, inner, rest, text, o, first)
      BY <1>4, <2>2 DEF Finds
    <2>4. ~Returned(first) => Breaks(d, inner, rest, text, first)
      BY <1>4 DEF Breaks
    <2>5. Returned(first) => longest = 0 \/ Finds(d, inner, rest, text, o, longest)
                              \/ Breaks(d, inner, rest, text, longest)
      BY <1>4, FurtherFinds DEF longest
    <2> QED BY <1>2, <2>1, <2>3, <2>4, <2>5
  <1> QED BY <1>1, <1>3, <1>4

(* Every call goes forward.                                                *)
LEMMA CallForward ==
  ASSUME NEW h, NEW text, Len(text) \in Nat, Shape(h), NEW calls \in Table(h, text),
         \A m \in Pointer(h) : Forward(calls[m], text),
         NEW n \in Pointer(h), NEW o \in Offsets(text),
         NEW r, r = Call(h, text, calls, n, o), Matched(r)
  PROVE  r >= o
  <1> DEFINE inner == calls[h.child[n]]
             rest  == calls[h.next[n]]
  <1>1. n # 0 /\ ~PastEnd(h, n, text, o)
    BY DEF Call, Matched, Abort, NoMatch
  <1>2. NodeShape(h, n)
    BY <1>1 DEF Shape
  <1>3. inner \in Function(text) /\ rest \in Function(text)
          /\ Forward(inner, text) /\ Forward(rest, text)
    BY <1>2 DEF NodeShape, Table
  <1>4. inner[o] \in Outcome(text) /\ rest[o] \in Outcome(text)
    BY <1>3 DEF Function
  <1>5. ASSUME NEW f, NEW e, Forward(f, text), e \in Offsets(text), r = f[e], e >= o PROVE r >= o
    <2>1. r >= e
      BY <1>5 DEF Forward
    <2>2. r \in Nat \/ r \in Int
      BY CallType DEF Outcome, NoMatch, Hang, Abort, Offsets
    <2> QED BY <1>5, <2>1, <2>2 DEF Offsets
  <1>6. o >= o /\ o \in Int
    BY DEF Offsets
  <1>12. r \in Outcome(text) /\ r \in Offsets(text) /\ Returned(r) /\ r # NoMatch
    <2>1. r \in Outcome(text)
      BY CallType
    <2>2. r # NoMatch
      BY DEF Matched, NoMatch
    <2> QED BY <2>1, <2>2, OffsetsMatch
  <1>7. CASE h.type[n] \in Single
    <2>1. r = IF Matches(h, n, text, o) THEN rest[o + Width(h, n)] ELSE NoMatch
      BY <1>1, <1>7 DEF Call
    <2>2. o < Len(text)
      BY <1>1, <1>7 DEF PastEnd, Single, Offsets
    <2>3. Matches(h, n, text, o)
      BY <2>1 DEF Matched, NoMatch
    <2>4. o + Width(h, n) \in Offsets(text) /\ o + Width(h, n) >= o
      <3>1. o + Width(h, n) \in Offsets(text) /\ Width(h, n) \in Nat
        BY <1>2, <1>7, <2>2, <2>3, SingleFits
      <3> QED BY <1>6, <3>1
    <2> HIDE DEF rest
    <2> QED BY <1>3, <1>5, <2>1, <2>3, <2>4
  <1>8. CASE h.type[n] = "T_ALTERNATION"
    <2>1. r = EvalAlternation(inner, rest, o)
      BY <1>1, <1>8 DEF Call, Single
    <2>2. r = inner[o] \/ r = rest[o]
      BY <2>1 DEF EvalAlternation
    <2> HIDE DEF inner, rest
    <2> QED BY <1>3, <1>5, <1>6, <2>2
  <1>9. CASE h.type[n] = "T_GROUP"
    <2>1. r = EvalGroup(h.data[n], inner, rest, o)
      BY <1>1, <1>9 DEF Call, Single
    <2> HIDE DEF inner, rest
    <2> DEFINE e == inner[o]
    <2>2. r = rest[IF h.data[n].look \/ ~Matched(e) THEN o ELSE e]
      <3>1. e \in Outcome(text)
        BY <1>4
      <3>2. Returned(e) /\ r # NoMatch
        <4>1. ~Returned(e) => r = e
          BY <2>1 DEF EvalGroup
        <4> HIDE DEF e
        <4> QED BY <1>12, <3>1, <4>1, OffsetsMatch
      <3> QED BY <2>1, <3>2 DEF EvalGroup
    <2>3. Matched(e) => e \in Offsets(text) /\ e >= o
      BY <1>3, <1>4, OffsetsMatch DEF Forward
    <2> HIDE DEF e
    <2> QED BY <1>3, <1>5, <1>6, <2>2, <2>3
  <1>10. CASE h.type[n] = "T_QUANTIFIER"
    <2>1. r = EvalQuantifier(h.data[n], inner, rest, text, o)
      BY <1>1, <1>10 DEF Call, Single
    <2> DEFINE d == h.data[n]
    <2>2. QuantifierData(d)
      BY <1>2, <1>10 DEF NodeShape, QuantifierData
    <2> HIDE DEF inner, rest, d
    <2>3. Finds(d, inner, rest, text, o, r)
      <3>1. r = NoMatch \/ Finds(d, inner, rest, text, o, r) \/ Breaks(d, inner, rest, text, r)
        BY <1>3, <2>1, <2>2, QuantifierFinds DEF d
      <3> QED BY <1>12, <3>1 DEF Breaks
    <2>4. PICK c \in Counts(d, text), e \in Offsets(text) : Leads(inner, text, o, e, c) /\ r = rest[e]
      BY <2>3 DEF Finds
    <2>5. c \in Nat
      BY <2>2 DEF QuantifierData, Counts
    <2>6. e >= o
      BY <1>3, <2>4, <2>5, LeadsForward
    <2> QED BY <1>3, <1>5, <2>4, <2>6
  <1>11. CASE h.type[n] \notin Single \cup {"T_ALTERNATION", "T_GROUP", "T_QUANTIFIER"}
    <2>1. r \in {o, rest[o], NoMatch, Abort}
      BY <1>1, <1>11 DEF Call
    <2> HIDE DEF rest
    <2> QED BY <1>3, <1>5, <1>6, <2>1 DEF Matched, NoMatch, Abort
  <1> QED BY <1>7, <1>8, <1>9, <1>10, <1>11

LEMMA CallsForward ==
  ASSUME NEW h, NEW text, Len(text) \in Nat, Shape(h), NEW k, k \in 0 .. h.size,
         NEW n \in Pointer(h)
  PROVE  Forward(Calls(h, text)[k][n], text)
  <1> DEFINE C == Calls(h, text)
             N == h.size
             P == {i \in 0 .. N : \A m \in Pointer(h) : Forward(C[i][m], text)}
  <1>1. /\ C \in [0 .. N -> Table(h, text)]
        /\ \A m \in Pointer(h), o \in Offsets(text) : C[0][m][o] = Abort
        /\ \A i \in 1 .. N : \A m \in Pointer(h), o \in Offsets(text) :
              C[i][m][o] = Call(h, text, C[i - 1], m, o)
    BY CallsUnfold
  <1>2. N \in Nat
    BY DEF Shape
  <1> HIDE DEF C, N
  <1>3. 0 \in P
    BY <1>1, <1>2 DEF Forward, Matched, Abort
  <1>4. ASSUME NEW i \in P, i < N PROVE i + 1 \in P
    <2>1. i + 1 \in 1 .. N /\ (i + 1) - 1 = i /\ i + 1 \in 0 .. N
      BY <1>2, <1>4
    <2>2. C[i] \in Table(h, text) /\ \A m \in Pointer(h) : Forward(C[i][m], text)
      BY <1>1
    <2>3. ASSUME NEW m \in Pointer(h), NEW o \in Offsets(text), Matched(C[i + 1][m][o])
          PROVE  C[i + 1][m][o] >= o
      <3>1. C[i + 1][m][o] = Call(h, text, C[i], m, o)
        BY <1>1, <2>1
      <3> QED BY <2>2, <2>3, <3>1, CallForward
    <2> QED BY <2>1, <2>3 DEF Forward
  <1>5. P = 0 .. N
    <2>1. P \in SUBSET (0 .. N)
      OBVIOUS
    <2> HIDE DEF P
    <2> QED BY <1>2, <1>3, <1>4, <2>1, BoundedInduction
  <1> QED BY <1>5 DEF C, N

-----------------------------------------------------------------------------
(* What is matched is one of the reference's matches.                      *)
Agrees(f, reached, text) == \A o \in Offsets(text) : Matched(f[o]) => f[o] \in reached[o]

LEMMA LeadsSteps ==
  ASSUME NEW text, Len(text) \in Nat, NEW inner \in Function(text), NEW reached \in Ended(text),
         Agrees(inner, reached, text), NEW o \in Offsets(text), NEW e, NEW c, c \in Nat,
         Leads(inner, text, o, e, c)
  PROVE  e \in Steps(reached, o, c)
  <1> DEFINE T == [i \in 0 .. c |-> Steps(reached, o, i)]
  <1>1. o \in T[0]
    BY StepsUnfold
  <1>2. ASSUME NEW i \in 0 .. c - 1, NEW x \in T[i] \cap Offsets(text), inner[x] \in Offsets(text)
        PROVE  inner[x] \in T[i + 1]
    <2>1. inner[x] \in reached[x]
      BY <1>2 DEF Agrees, Matched, Offsets
    <2>2. i \in 0 .. c /\ i + 1 \in 0 .. c /\ i \in Nat
      OBVIOUS
    <2>3. Steps(reached, o, i + 1) = Behind(reached, Steps(reached, o, i))
      BY <2>2, StepsUnfold
    <2>4. x \in Steps(reached, o, i)
      BY <2>2
    <2>5. inner[x] \in Behind(reached, Steps(reached, o, i))
      BY <2>1, <2>4 DEF Behind
    <2> QED BY <2>2, <2>3, <2>5
  <1>3. e \in T[c]
    <2> HIDE DEF T
    <2> QED BY <1>1, <1>2, LeadsWithin
  <1> QED BY <1>3

LEMMA CallSound ==
  ASSUME NEW h, NEW text, Len(text) \in Nat, Shape(h),
         NEW calls \in Table(h, text), NEW table \in EndsOf(h, text),
         NEW n \in Pointer(h), n # 0, NEW o \in Offsets(text),
         Agrees(calls[h.next[n]], table[h.next[n]], text),
         h.type[n] \in Branching =>
           Agrees(calls[h.child[n]], table[h.child[n]], text) /\ Forward(calls[h.child[n]], text),
         h.type[n] = "T_GROUP" => ~h.data[n].inv,
         NEW r, r = Call(h, text, calls, n, o), Matched(r)
  PROVE  r \in NodeEnds(h, text, table, n, o)
  <1> DEFINE inner == calls[h.child[n]]
             rest  == calls[h.next[n]]
             ie    == table[h.child[n]]
             be    == table[h.next[n]]
  <1>1. ~PastEnd(h, n, text, o)
    BY DEF Call, Matched, NoMatch
  <1>2. NodeShape(h, n)
    BY DEF Shape
  <1>3. inner \in Function(text) /\ rest \in Function(text) /\ ie \in Ended(text) /\ be \in Ended(text)
    BY <1>2 DEF NodeShape, Table, EndsOf
  <1>4. inner[o] \in Outcome(text) /\ rest[o] \in Outcome(text)
    BY <1>3 DEF Function
  <1>5. r \in Outcome(text) /\ r \in Offsets(text) /\ Returned(r) /\ r # NoMatch
    <2>1. r \in Outcome(text)
      BY CallType
    <2>2. r # NoMatch
      BY DEF Matched, NoMatch
    <2> QED BY <2>1, <2>2, OffsetsMatch
  <1>6. ASSUME NEW e \in Offsets(text), r = rest[e] PROVE r \in be[e]
    BY <1>6 DEF Agrees
  <1>7. CASE h.type[n] \in Single
    <2>1. r = IF Matches(h, n, text, o) THEN rest[o + Width(h, n)] ELSE NoMatch
      BY <1>1, <1>7 DEF Call
    <2>2. o < Len(text)
      BY <1>1, <1>7 DEF PastEnd, Single, Offsets
    <2>3. Matches(h, n, text, o)
      BY <1>5, <2>1
    <2>4. o + Width(h, n) \in Offsets(text)
      BY <1>2, <1>7, <2>2, <2>3, SingleFits
    <2>5. NodeEnds(h, text, table, n, o) = be[o + Width(h, n)]
      BY <1>7, <2>2, <2>3 DEF NodeEnds
    <2> HIDE DEF rest, be
    <2> QED BY <1>6, <2>1, <2>3, <2>4, <2>5
  <1>8. CASE h.type[n] = "T_ALTERNATION"
    <2>1. r = EvalAlternation(inner, rest, o)
      BY <1>1, <1>8 DEF Call, Single
    <2>2. r = inner[o] \/ r = rest[o]
      BY <2>1 DEF EvalAlternation
    <2>3. NodeEnds(h, text, table, n, o) = ie[o] \cup be[o]
      BY <1>8 DEF NodeEnds, Single
    <2>4. r = inner[o] => r \in ie[o]
      BY <1>8 DEF Agrees, Branching
    <2> HIDE DEF inner, rest, ie, be
    <2> QED BY <1>6, <2>2, <2>3, <2>4
  <1>9. CASE h.type[n] = "T_GROUP"
    <2> DEFINE e == inner[o]
               d == h.data[n]
    <2>1. r = EvalGroup(d, inner, rest, o)
      BY <1>1, <1>9 DEF Call, Single
    <2>2. NodeEnds(h, text, table, n, o) =
            IF (ie[o] # {}) = d.inv THEN {} ELSE Behind(be, IF d.look THEN {o} ELSE ie[o])
      BY <1>9 DEF NodeEnds, Single
    <2>3. d.inv = FALSE
      BY <1>2, <1>9 DEF NodeShape
    <2>4. Matched(e) => e \in Offsets(text) /\ e \in ie[o]
      BY <1>4, <1>9, OffsetsMatch DEF Agrees, Branching
    <2> HIDE DEF d
    <2>5. Matched(e) /\ r = rest[IF d.look THEN o ELSE e]
      <3>1. Matched(e) \in BOOLEAN
        BY DEF Matched
      <3>2. ~Returned(e) => r = e
        BY <2>1 DEF EvalGroup
      <3>3. Returned(e)
        <4> HIDE DEF e
        <4> QED BY <1>5, <3>2
      <3>4. Matched(e)
        BY <1>5, <2>1, <2>3, <3>1, <3>3 DEF EvalGroup
      <3> QED BY <2>1, <2>3, <3>3, <3>4 DEF EvalGroup
    <2> DEFINE from == IF d.look THEN o ELSE e
    <2>6. from \in Offsets(text) /\ from \in IF d.look THEN {o} ELSE ie[o]
      BY <2>4, <2>5
    <2>7. r \in be[from]
      <3> HIDE DEF from, rest, be
      <3> QED BY <1>6, <2>5, <2>6 DEF from
    <2>8. ie[o] # {}
      BY <2>4, <2>5
    <2> HIDE DEF from, ie, be
    <2> QED BY <2>2, <2>3, <2>6, <2>7, <2>8 DEF Behind
  <1>10. CASE h.type[n] = "T_QUANTIFIER"
    <2> DEFINE d == h.data[n]
               froms == UNION {Steps(ie, o, c) : c \in Counts(d, text)}
    <2>1. r = EvalQuantifier(d, inner, rest, text, o)
      BY <1>1, <1>10 DEF Call, Single
    <2>2. QuantifierData(d)
      BY <1>2, <1>10 DEF NodeShape, QuantifierData
    <2>3. NodeEnds(h, text, table, n, o) = Behind(be, froms)
      BY <1>10 DEF NodeEnds, Single
    <2>4. Forward(inner, text) /\ Agrees(inner, ie, text)
      BY <1>10 DEF Branching
    <2> HIDE DEF inner, rest, ie, be, d
    <2>5. Finds(d, inner, rest, text, o, r)
      <3>1. r = NoMatch \/ Finds(d, inner, rest, text, o, r) \/ Breaks(d, inner, rest, text, r)
        BY <1>3, <2>1, <2>2, <2>4, QuantifierFinds
      <3> QED BY <1>5, <3>1 DEF Breaks
    <2>6. PICK c \in Counts(d, text), e \in Offsets(text) : Leads(inner, text, o, e, c) /\ r = rest[e]
      BY <2>5 DEF Finds
    <2>7. c \in Nat
      BY <2>2 DEF QuantifierData, Counts
    <2>8. e \in Steps(ie, o, c)
      BY <1>3, <2>4, <2>6, <2>7, LeadsSteps
    <2>9. e \in froms
      BY <2>8
    <2>10. r \in be[e]
      BY <1>6, <2>6
    <2> HIDE DEF froms
    <2> QED BY <2>3, <2>9, <2>10 DEF Behind
  <1>11. CASE h.type[n] = "T_TRUE"
    <2>1. r = o
      BY <1>1, <1>11 DEF Call, Single
    <2> QED BY <1>11, <2>1 DEF NodeEnds, Single
  <1>12. CASE h.type[n] \in {"T_ROOT", "T_ANCHOR_BEGIN", "T_ANCHOR_END"}
    <2>1. r = rest[o] /\ (h.type[n] = "T_ANCHOR_BEGIN" => o = 0)
            /\ (h.type[n] = "T_ANCHOR_END" => o = Len(text))
      BY <1>1, <1>5, <1>12 DEF Call, Single
    <2>2. NodeEnds(h, text, table, n, o) = be[o]
      BY <1>12, <2>1 DEF NodeEnds, Single
    <2> HIDE DEF rest, be
    <2> QED BY <1>6, <2>1, <2>2
  <1>13. CASE h.type[n] \notin Single \cup Branching \cup {"T_TRUE", "T_ROOT", "T_ANCHOR_BEGIN", "T_ANCHOR_END"}
    BY <1>1, <1>13 DEF Call, Branching, Matched, Abort
  <1> QED BY <1>7, <1>8, <1>9, <1>10, <1>11, <1>12, <1>13 DEF Branching

(* The calls that can be nested in one stay among the nodes behind it.     *)
LEMMA NodesBelow ==
  ASSUME NEW h, Shape(h), NEW k, k \in 1 .. h.size, NEW n \in Pointer(h), n # 0
  PROVE  /\ h.next[n] \in Pointer(h) /\ h.child[n] \in Pointer(h)
         /\ n \in NodesTable(h)[k][n]
         /\ NodesTable(h)[k - 1][h.next[n]] \subseteq NodesTable(h)[k][n]
         /\ h.type[n] \in Branching => NodesTable(h)[k - 1][h.child[n]] \subseteq NodesTable(h)[k][n]
  <1> DEFINE T == NodesTable(h)
             N == h.size
  <1>1. \A i \in 1 .. N : \A m \in Pointer(h) :
          T[i][m] = (IF m = 0 THEN {}
                     ELSE {m} \cup T[i - 1][h.next[m]]
                          \cup (IF h.type[m] \in Branching THEN T[i - 1][h.child[m]] ELSE {}))
    BY NodesUnfold
  <1> HIDE DEF T, N
  <1>2. T[k][n] = {n} \cup T[k - 1][h.next[n]]
          \cup (IF h.type[n] \in Branching THEN T[k - 1][h.child[n]] ELSE {})
    BY <1>1 DEF N
  <1>3. h.next[n] \in Pointer(h) /\ h.child[n] \in Pointer(h)
    BY DEF Shape, NodeShape
  <1> QED BY <1>2, <1>3 DEF T

LEMMA CallsSound ==
  ASSUME NEW h, NEW text, Len(text) \in Nat, Shape(h), NEW k, k \in 0 .. h.size,
         NEW n \in Pointer(h), \A m \in NodesTable(h)[k][n] : h.type[m] = "T_GROUP" => ~h.data[m].inv
  PROVE  Agrees(Calls(h, text)[k][n], EndsTable(h, text)[k][n], text)
  <1> DEFINE C == Calls(h, text)
             E == EndsTable(h, text)
             T == NodesTable(h)
             N == h.size
             Plain(i, m) == \A x \in T[i][m] : h.type[x] = "T_GROUP" => ~h.data[x].inv
             P == {i \in 0 .. N : \A m \in Pointer(h) : Plain(i, m) => Agrees(C[i][m], E[i][m], text)}
  <1>1. /\ C \in [0 .. N -> Table(h, text)]
        /\ \A m \in Pointer(h), o \in Offsets(text) : C[0][m][o] = Abort
        /\ \A i \in 1 .. N : \A m \in Pointer(h), o \in Offsets(text) :
              C[i][m][o] = Call(h, text, C[i - 1], m, o)
    BY CallsUnfold
  <1>2. /\ E \in [0 .. N -> EndsOf(h, text)]
        /\ \A i \in 1 .. N : \A m \in Pointer(h), o \in Offsets(text) :
              E[i][m][o] = NodeEnds(h, text, E[i - 1], m, o)
    BY EndsUnfold
  <1>3. N \in Nat
    BY DEF Shape
  <1>4. \A i \in 0 .. N : \A m \in Pointer(h) : Forward(C[i][m], text)
    BY CallsForward
  <1>5. \A i \in 1 .. N, m \in Pointer(h) \ {0} :
          /\ h.next[m] \in Pointer(h) /\ h.child[m] \in Pointer(h) /\ m \in T[i][m]
          /\ T[i - 1][h.next[m]] \subseteq T[i][m]
          /\ h.type[m] \in Branching => T[i - 1][h.child[m]] \subseteq T[i][m]
    BY NodesBelow
  <1> HIDE DEF C, E, T, N
  <1>6. 0 \in P
    BY <1>1, <1>3 DEF Agrees, Matched, Abort
  <1>7. ASSUME NEW i \in P, i < N PROVE i + 1 \in P
    <2>1. i + 1 \in 1 .. N /\ (i + 1) - 1 = i /\ i + 1 \in 0 .. N /\ i \in 0 .. N
      BY <1>3, <1>7
    <2>2. ASSUME NEW m \in Pointer(h), Plain(i + 1, m), NEW o \in Offsets(text), Matched(C[i + 1][m][o])
          PROVE  C[i + 1][m][o] \in E[i + 1][m][o]
      <3>1. C[i + 1][m][o] = Call(h, text, C[i], m, o) /\ E[i + 1][m][o] = NodeEnds(h, text, E[i], m, o)
        BY <1>1, <1>2, <2>1
      <3>2. m # 0
        BY <2>2, <3>1 DEF Call, Matched, Abort
      <3>3. /\ h.next[m] \in Pointer(h) /\ h.child[m] \in Pointer(h) /\ m \in T[i + 1][m]
            /\ T[i][h.next[m]] \subseteq T[i + 1][m]
            /\ h.type[m] \in Branching => T[i][h.child[m]] \subseteq T[i + 1][m]
        BY <1>5, <2>1, <3>2
      <3>4. Plain(i, h.next[m]) /\ (h.type[m] \in Branching => Plain(i, h.child[m]))
        BY <2>2, <3>3
      <3>5. /\ Agrees(C[i][h.next[m]], E[i][h.next[m]], text)
            /\ h.type[m] \in Branching => Agrees(C[i][h.child[m]], E[i][h.child[m]], text)
        <4> HIDE DEF Plain
        <4> QED BY <3>3, <3>4
      <3>6. C[i] \in Table(h, text) /\ E[i] \in EndsOf(h, text) /\ Forward(C[i][h.child[m]], text)
        BY <1>1, <1>2, <1>4, <2>1, <3>3
      <3>7. h.type[m] = "T_GROUP" => ~h.data[m].inv
        BY <2>2, <3>3
      <3> QED BY <2>2, <3>1, <3>2, <3>5, <3>6, <3>7, CallSound
    <2> HIDE DEF Plain
    <2> QED BY <2>1, <2>2 DEF Agrees
  <1>8. P = 0 .. N
    <2>1. P \in SUBSET (0 .. N)
      OBVIOUS
    <2> HIDE DEF P
    <2> QED BY <1>3, <1>6, <1>7, <2>1, BoundedInduction
  <1> QED BY <1>8 DEF C, E, T, N

-----------------------------------------------------------------------------
(* What the compiler builds has the shape that the matcher relies on.      *)
LEMMA BuiltShape ==
  ASSUME TypeOK
  PROVE  /\ Shape(Built) /\ Pointer(Built) = 0 .. MaxNodes
         /\ Built.size = re.size /\ Built.type = re.type
         /\ Built.next = re.next /\ Built.child = re.child
         /\ \A n \in Node : re.type[n] # "T_CHARCLASS" => Built.data[n] = re.data[n]
         /\ Compiled \subseteq 0 .. MaxNodes
         /\ \A text \in Texts : Len(text) \in Nat
  <1> DEFINE data == [n \in Node |-> IF re.type[n] = "T_CHARCLASS" THEN [set |-> Class] ELSE re.data[n]]
  <1>1. /\ re \in HeapType /\ re.size \in 1 .. MaxNodes /\ re.type \in [Node -> NodeType]
        /\ re.next \in [Node -> Node \cup {0}] /\ re.child \in [Node -> Node \cup {0}]
        /\ re.data \in [Node -> DataType] /\ MaxNodes \in Nat \ {0}
    BY BoundAssumption DEF TypeOK, HeapType, NULL
  <1>2. /\ Built.size = re.size /\ Built.type = re.type
        /\ Built.next = re.next /\ Built.child = re.child /\ Built.data = data
    BY <1>1 DEF Built, HeapType
  <1> HIDE DEF data
  <1>3. Pointer(Built) = 0 .. MaxNodes
    <2>1. re.type \in Seq(NodeType) /\ Len(re.type) = MaxNodes
      BY <1>1 DEF Node
    <2> QED BY <1>2, <2>1 DEF Pointer
  <1>4. \A n \in Node : re.type[n] # "T_CHARCLASS" => Built.data[n] = re.data[n]
    BY <1>2 DEF data
  <1>5. Pointer(Built) \ {0} = Node /\ Node \cup {0} = Pointer(Built)
    BY <1>1, <1>3 DEF Node
  <1>6. ASSUME NEW n \in Node PROVE NodeShape(Built, n)
    <2>1. re.next[n] \in Node \cup {0} /\ re.child[n] \in Node \cup {0} /\ re.data[n] \in DataType
      BY <1>1
    <2>2. /\ re.data[n].str \in Seq(Char) /\ re.data[n].min \in Nat /\ re.data[n].max \in Nat
          /\ re.data[n].lazy \in BOOLEAN /\ re.data[n].look \in BOOLEAN /\ re.data[n].inv \in BOOLEAN
      BY <2>1 DEF DataType
    <2>3. Len(re.data[n].str) \in Nat
      BY <2>2
    <2> QED BY <1>2, <1>4, <1>5, <2>1, <2>2, <2>3 DEF NodeShape
  <1>7. Shape(Built)
    BY <1>1, <1>2, <1>5, <1>6 DEF Shape
  <1>8. Compiled \subseteq 0 .. MaxNodes
    <2>1. ASSUME NEW i \in DOMAIN patterns PROVE Pattern(i) \in 0 .. MaxNodes
      <3>1. patterns[i] \in Node
        BY DEF TypeOK, ControlType
      <3> QED BY <1>1, <1>3, <1>5, <3>1 DEF Pattern
    <2> QED BY <2>1 DEF Compiled
  <1>9. \A text \in Texts : Len(text) \in Nat
    BY TextAssumption
  <1> QED BY <1>2, <1>3, <1>4, <1>7, <1>8, <1>9

(* MatchSound: whatever pattern the compiler accepts, regexx_match reports *)
(* no match that the pattern does not have.                                *)
THEOREM Sound == Spec => []MatchSound
  <1>1. TypeOK => MatchSound
    <2> SUFFICES ASSUME TypeOK, NEW n \in Compiled, Positive(n), NEW text \in Texts,
                        NEW o \in Offsets(text), Matched(Eval(Built, text, n, o))
                 PROVE  Eval(Built, text, n, o) \in Ends(Built, text, n, o)
      BY DEF MatchSound
    <2> DEFINE h == Built
    <2>1. /\ Shape(h) /\ n \in Pointer(h) /\ Len(text) \in Nat /\ h.type = re.type
          /\ \A m \in Node : re.type[m] # "T_CHARCLASS" => h.data[m] = re.data[m]
          /\ Pointer(h) = 0 .. MaxNodes
      BY BuiltShape
    <2> HIDE DEF h
    <2>2. h.size \in 0 .. h.size
      BY <2>1 DEF Shape
    <2>3. ASSUME NEW m \in NodesTable(h)[h.size][n], h.type[m] = "T_GROUP" PROVE ~h.data[m].inv
      <3>1. ~re.data[m].inv
        BY <2>1, <2>3 DEF Positive, Nodes, h
      <3>2. m \in Node
        <4>1. NodesTable(h)[h.size] \in [Pointer(h) -> SUBSET (Pointer(h) \ {0})]
          BY <2>1, <2>2, NodesUnfold
        <4>2. m \in Pointer(h) \ {0}
          BY <2>1, <2>3, <4>1
        <4> QED BY <2>1, <4>2 DEF Node
      <3> QED BY <2>1, <2>3, <3>1, <3>2
    <2>4. Agrees(Calls(h, text)[h.size][n], EndsTable(h, text)[h.size][n], text)
      BY <2>1, <2>2, <2>3, CallsSound
    <2> QED BY <2>4 DEF Agrees, Eval, Ends, h
  <1> QED BY <1>1, TypeCorrect, PTL

-----------------------------------------------------------------------------
(* No string is empty, so that every node that takes characters takes one. *)
Strings(h) == \A n \in Pointer(h) \ {0} : h.type[n] = "T_STRING" => h.data[n].str # <<>>

(* A call that matches nothing at all is one from a nullable node.         *)
Stays(f, nullable, text) == \A o \in Offsets(text) : f[o] = o => nullable

LEMMA CallStays ==
  ASSUME NEW h, NEW text, Len(text) \in Nat, Shape(h),
         \A m \in Pointer(h) \ {0} : h.type[m] = "T_STRING" => Len(h.data[m].str) # 0,
         NEW calls \in Table(h, text), NEW nullable \in [Pointer(h) -> BOOLEAN],
         \A m \in Pointer(h) : Forward(calls[m], text) /\ Stays(calls[m], nullable[m], text),
         NEW n \in Pointer(h), NEW o \in Offsets(text), Call(h, text, calls, n, o) = o
  PROVE  NodeNullable(h, nullable, n)
  <1> DEFINE inner == calls[h.child[n]]
             rest  == calls[h.next[n]]
             ni    == nullable[h.child[n]]
             nr    == nullable[h.next[n]]
  <1>1. n # 0 /\ ~PastEnd(h, n, text, o)
    BY DEF Call, Offsets, Abort, NoMatch
  <1>2. NodeShape(h, n)
    BY <1>1 DEF Shape
  <1>3. inner \in Function(text) /\ rest \in Function(text) /\ Forward(inner, text) /\ Forward(rest, text)
          /\ Stays(inner, ni, text) /\ Stays(rest, nr, text) /\ ni \in BOOLEAN /\ nr \in BOOLEAN
    BY <1>2 DEF NodeShape, Table
  <1>4. inner[o] \in Outcome(text) /\ rest[o] \in Outcome(text) /\ o \in Outcome(text)
    BY <1>3 DEF Function, Outcome
  <1>5. Matched(o) /\ Returned(o) /\ o # NoMatch /\ o # Abort /\ o \in Int
    BY DEF Offsets, Matched, Returned, NoMatch, Abort
  <1>6. ASSUME NEW e \in Offsets(text), o = rest[e], e >= o PROVE e = o /\ nr
    <2>1. e \in Int /\ o >= e
      BY <1>3, <1>5, <1>6 DEF Forward, Offsets
    <2> QED BY <1>3, <1>5, <1>6, <2>1 DEF Stays
  <1>7. inner[o] = o => ni
    BY <1>3 DEF Stays
  <1>8. CASE h.type[n] \in Single
    <2>1. o = IF Matches(h, n, text, o) THEN rest[o + Width(h, n)] ELSE NoMatch
      BY <1>1, <1>8 DEF Call
    <2>2. o < Len(text)
      BY <1>1, <1>8 DEF PastEnd, Single, Offsets
    <2>3. Matches(h, n, text, o)
      BY <1>5, <2>1
    <2>4. o + Width(h, n) \in Offsets(text) /\ Width(h, n) \in Nat
      BY <1>2, <1>8, <2>2, <2>3, SingleFits
    <2>5. Width(h, n) # 0
      BY <1>1 DEF Width
    <2>6. o + Width(h, n) >= o
      BY <1>5, <2>4
    <2>7. o + Width(h, n) = o
      <3> HIDE DEF rest
      <3> QED BY <1>6, <2>1, <2>3, <2>4, <2>6
    <2> QED BY <1>5, <2>4, <2>5, <2>7
  <1>9. CASE h.type[n] = "T_ALTERNATION"
    <2>1. o = EvalAlternation(inner, rest, o)
      BY <1>1, <1>9 DEF Call, Single
    <2>2. o = inner[o] \/ o = rest[o]
      BY <2>1 DEF EvalAlternation
    <2>3. NodeNullable(h, nullable, n) <=> ni \/ nr
      BY <1>1, <1>9 DEF NodeNullable, Single
    <2> HIDE DEF inner, rest, ni, nr
    <2> QED BY <1>5, <1>6, <1>7, <2>2, <2>3
  <1>10. CASE h.type[n] = "T_GROUP"
    <2> DEFINE e == inner[o]
               d == h.data[n]
    <2>1. o = EvalGroup(d, inner, rest, o)
      BY <1>1, <1>10 DEF Call, Single
    <2>2. NodeNullable(h, nullable, n) <=> (d.look \/ d.inv \/ ni) /\ nr
      BY <1>1, <1>10 DEF NodeNullable, Single
    <2>3. d.inv \in BOOLEAN /\ d.look \in BOOLEAN
      BY <1>2, <1>10 DEF NodeShape
    <2> HIDE DEF inner, rest, ni, nr, d
    <2>4. Returned(e) /\ Matched(e) # d.inv /\ o = rest[IF d.look \/ ~Matched(e) THEN o ELSE e]
      BY <1>5, <2>1 DEF EvalGroup
    <2>5. Matched(e) => e \in Offsets(text) /\ e >= o
      BY <1>3, <1>4, OffsetsMatch DEF Forward
    <2>6. Matched(e) \in BOOLEAN
      BY DEF Matched
    <2> HIDE DEF e
    <2>7. CASE d.look \/ ~Matched(e)
      BY <1>5, <1>6, <2>2, <2>3, <2>4, <2>6, <2>7
    <2>8. CASE ~(d.look \/ ~Matched(e))
      <3>1. e = o /\ nr
        BY <1>6, <2>4, <2>5, <2>8
      <3> QED BY <1>7, <2>2, <3>1 DEF e
    <2> QED BY <2>7, <2>8
  <1>11. CASE h.type[n] = "T_QUANTIFIER"
    <2> DEFINE d == h.data[n]
    <2>1. o = EvalQuantifier(d, inner, rest, text, o)
      BY <1>1, <1>11 DEF Call, Single
    <2>2. QuantifierData(d)
      BY <1>2, <1>11 DEF NodeShape, QuantifierData
    <2>3. NodeNullable(h, nullable, n) <=> (d.min = 0 \/ ni) /\ nr
      BY <1>1, <1>11 DEF NodeNullable, Single
    <2> HIDE DEF inner, rest, ni, nr, d
    <2>4. Finds(d, inner, rest, text, o, o)
      <3>1. o = NoMatch \/ Finds(d, inner, rest, text, o, o) \/ Breaks(d, inner, rest, text, o)
        BY <1>3, <2>1, <2>2, QuantifierFinds
      <3> QED BY <1>5, <3>1 DEF Breaks
    <2>5. PICK c \in Counts(d, text), e \in Offsets(text) : Leads(inner, text, o, e, c) /\ o = rest[e]
      BY <2>4 DEF Finds
    <2>6. c \in Nat /\ c >= d.min
      BY <2>2 DEF QuantifierData, Counts
    <2>7. e >= o /\ (e = o /\ c # 0 => inner[o] = o)
      BY <1>3, <2>5, <2>6, LeadsForward
    <2>8. e = o /\ nr
      BY <1>6, <2>5, <2>7
    <2>9. c = 0 => d.min = 0
      BY <2>2, <2>6 DEF QuantifierData
    <2> QED BY <1>7, <2>3, <2>7, <2>8, <2>9
  <1>12. CASE h.type[n] = "T_TRUE"
    BY <1>1, <1>12 DEF NodeNullable, Single
  <1>13. CASE h.type[n] \in {"T_ROOT", "T_ANCHOR_BEGIN", "T_ANCHOR_END"}
    <2>1. o = rest[o]
      BY <1>1, <1>5, <1>13 DEF Call, Single
    <2>2. NodeNullable(h, nullable, n) <=> nr
      BY <1>1, <1>13 DEF NodeNullable, Single
    <2> HIDE DEF rest, nr
    <2> QED BY <1>5, <1>6, <2>1, <2>2
  <1>14. CASE h.type[n] \notin Single \cup Branching \cup {"T_TRUE", "T_ROOT", "T_ANCHOR_BEGIN", "T_ANCHOR_END"}
    BY <1>1, <1>5, <1>14 DEF Call, Branching
  <1> QED BY <1>8, <1>9, <1>10, <1>11, <1>12, <1>13, <1>14 DEF Branching

LEMMA CallsStay ==
  ASSUME NEW h, NEW text, Len(text) \in Nat, Shape(h), Strings(h), NEW k, k \in 0 .. h.size,
         NEW n \in Pointer(h)
  PROVE  Stays(Calls(h, text)[k][n], NullableTable(h)[k][n], text)
  <1> DEFINE C == Calls(h, text)
             B == NullableTable(h)
             N == h.size
             P == {i \in 0 .. N : \A m \in Pointer(h) : Stays(C[i][m], B[i][m], text)}
  <1>1. /\ C \in [0 .. N -> Table(h, text)]
        /\ \A m \in Pointer(h), o \in Offsets(text) : C[0][m][o] = Abort
        /\ \A i \in 1 .. N : \A m \in Pointer(h), o \in Offsets(text) :
              C[i][m][o] = Call(h, text, C[i - 1], m, o)
    BY CallsUnfold
  <1>2. /\ B \in [0 .. N -> [Pointer(h) -> BOOLEAN]]
        /\ \A i \in 1 .. N : \A m \in Pointer(h) : B[i][m] = NodeNullable(h, B[i - 1], m)
    BY NullableUnfold
  <1>3. N \in Nat
    BY DEF Shape
  <1>4. \A i \in 0 .. N : \A m \in Pointer(h) : Forward(C[i][m], text)
    BY CallsForward
  <1>5. \A m \in Pointer(h) \ {0} : h.type[m] = "T_STRING" => Len(h.data[m].str) # 0
    <2> SUFFICES ASSUME NEW m \in Pointer(h) \ {0}, h.type[m] = "T_STRING" PROVE Len(h.data[m].str) # 0
      OBVIOUS
    <2>1. h.data[m].str \in Seq(Char) /\ h.data[m].str # <<>>
      BY DEF Strings, Shape, NodeShape
    <2> QED BY <2>1, EmptySeq
  <1> HIDE DEF C, B, N
  <1>6. 0 \in P
    BY <1>1, <1>3 DEF Stays, Offsets, Abort
  <1>7. ASSUME NEW i \in P, i < N PROVE i + 1 \in P
    <2>1. i + 1 \in 1 .. N /\ (i + 1) - 1 = i /\ i + 1 \in 0 .. N /\ i \in 0 .. N
      BY <1>3, <1>7
    <2>2. C[i] \in Table(h, text) /\ B[i] \in [Pointer(h) -> BOOLEAN]
            /\ \A m \in Pointer(h) : Forward(C[i][m], text) /\ Stays(C[i][m], B[i][m], text)
      BY <1>1, <1>2, <1>4, <2>1
    <2>3. ASSUME NEW m \in Pointer(h), NEW o \in Offsets(text), C[i + 1][m][o] = o
          PROVE  B[i + 1][m]
      <3>1. Call(h, text, C[i], m, o) = o /\ B[i + 1][m] = NodeNullable(h, B[i], m)
        BY <1>1, <1>2, <2>1, <2>3
      <3> QED BY <1>5, <2>2, <3>1, CallStays
    <2> QED BY <2>1, <2>3 DEF Stays
  <1>8. P = 0 .. N
    <2>1. P \in SUBSET (0 .. N)
      OBVIOUS
    <2> HIDE DEF P
    <2> QED BY <1>3, <1>6, <1>7, <2>1, BoundedInduction
  <1> QED BY <1>8 DEF C, B, N

(* More nested calls find more nullable nodes.                             *)
LEMMA NullableGrows ==
  ASSUME NEW h, Shape(h), NEW k, k \in 0 .. h.size, NEW n \in Pointer(h), NullableTable(h)[k][n]
  PROVE  Nullable(h, n)
  <1> DEFINE B == NullableTable(h)
             N == h.size
             P == {i \in 0 .. N : i = N \/ \A m \in Pointer(h) : B[i][m] => B[i + 1][m]}
             Q == {i \in 0 .. N : i < k \/ B[i][n]}
  <1>1. /\ B \in [0 .. N -> [Pointer(h) -> BOOLEAN]]
        /\ \A m \in Pointer(h) : B[0][m] = FALSE
        /\ \A i \in 1 .. N : \A m \in Pointer(h) : B[i][m] = NodeNullable(h, B[i - 1], m)
    BY NullableUnfold
  <1>2. N \in Nat /\ k \in 0 .. N /\ B[k][n]
    BY DEF Shape
  <1> HIDE DEF B, N
  <1>3. 0 \in P
    BY <1>1, <1>2
  <1>4. ASSUME NEW i \in P, i < N PROVE i + 1 \in P
    <2>1. i + 1 \in 1 .. N /\ (i + 1) - 1 = i /\ i + 1 \in 0 .. N /\ i # N
      BY <1>2, <1>4
    <2>2. SUFFICES ASSUME i + 1 # N, NEW m \in Pointer(h), B[i + 1][m] PROVE B[(i + 1) + 1][m]
      BY <2>1
    <2>3. (i + 1) + 1 \in 1 .. N /\ ((i + 1) + 1) - 1 = i + 1
      BY <1>2, <2>1, <2>2
    <2>4. NodeNullable(h, B[i], m)
      BY <1>1, <2>1, <2>2
    <2>5. m # 0
      BY <2>4 DEF NodeNullable
    <2>6. h.child[m] \in Pointer(h) /\ h.next[m] \in Pointer(h) /\ NodeShape(h, m)
      BY <2>5 DEF Shape, NodeShape
    <2> DEFINE f == B[i]
               g == B[i + 1]
    <2>7. (f[h.child[m]] => g[h.child[m]]) /\ (f[h.next[m]] => g[h.next[m]])
      BY <2>1, <2>6
    <2>8. f \in [Pointer(h) -> BOOLEAN] /\ g \in [Pointer(h) -> BOOLEAN] /\ i + 1 \in 0 .. N
      BY <1>1, <2>1
    <2> HIDE DEF f, g
    <2>9. NodeNullable(h, g, m)
      BY <2>4, <2>6, <2>7, <2>8 DEF NodeNullable, NodeShape, f
    <2> QED BY <1>1, <2>3, <2>9 DEF g
  <1>5. P = 0 .. N
    <2>1. P \in SUBSET (0 .. N)
      OBVIOUS
    <2> HIDE DEF P
    <2> QED BY <1>2, <1>3, <1>4, <2>1, BoundedInduction
  <1>6. 0 \in Q
    BY <1>2
  <1>7. ASSUME NEW i \in Q, i < N PROVE i + 1 \in Q
    <2>1. i \in P /\ i # N /\ i + 1 \in 0 .. N
      BY <1>2, <1>5, <1>7
    <2>2. B[i][n] => B[i + 1][n]
      BY <2>1
    <2>3. i < k => i + 1 < k \/ i + 1 = k
      BY <1>2
    <2> QED BY <1>2, <2>1, <2>2, <2>3
  <1>8. Q = 0 .. N
    <2>1. Q \in SUBSET (0 .. N)
      OBVIOUS
    <2> HIDE DEF Q
    <2> QED BY <1>2, <1>6, <1>7, <2>1, BoundedInduction
  <1>9. N \in Q /\ ~(N < k)
    <2>1. N \in Q
      <3> HIDE DEF Q
      <3> QED BY <1>2, <1>8
    <2> QED BY <1>2, <2>1
  <1> QED BY <1>9 DEF Nullable, B, N

(* Why a call does not return: because one nested in it does not, because  *)
(* of a child that goes round on the spot, or because of its node.         *)
Known == Single \cup Branching \cup {"T_TRUE", "T_ROOT", "T_ANCHOR_BEGIN", "T_ANCHOR_END"}

LEMMA CallBreaks ==
  ASSUME NEW h, NEW text, Len(text) \in Nat, Shape(h), NEW calls \in Table(h, text),
         \A m \in Pointer(h) : Forward(calls[m], text),
         NEW n \in Pointer(h), NEW o \in Offsets(text),
         NEW r, r = Call(h, text, calls, n, o), ~Returned(r)
  PROVE  \/ r = Abort /\ (n = 0 \/ h.type[n] \notin Known)
         \/ /\ n # 0 /\ h.type[n] \in Known \ {"T_TRUE"}
            /\ \/ \E e \in Offsets(text) : r = calls[h.next[n]][e]
               \/ h.type[n] \in Branching /\ \E e \in Offsets(text) : r = calls[h.child[n]][e]
               \/ /\ h.type[n] = "T_QUANTIFIER" /\ h.data[n].max = SIZE_MAX /\ r = Hang
                  /\ \E e \in Offsets(text) : calls[h.child[n]][e] = e
  <1> DEFINE inner == calls[h.child[n]]
             rest  == calls[h.next[n]]
  <1>1. CASE n = 0
    BY <1>1 DEF Call
  <1>2. SUFFICES ASSUME n # 0 PROVE
         \/ r = Abort /\ h.type[n] \notin Known
         \/ /\ h.type[n] \in Known \ {"T_TRUE"}
            /\ \/ \E e \in Offsets(text) : r = rest[e]
               \/ h.type[n] \in Branching /\ \E e \in Offsets(text) : r = inner[e]
               \/ /\ h.type[n] = "T_QUANTIFIER" /\ h.data[n].max = SIZE_MAX /\ r = Hang
                  /\ \E e \in Offsets(text) : inner[e] = e
    BY <1>1
  <1>3. NodeShape(h, n)
    BY <1>2 DEF Shape
  <1>4. inner \in Function(text) /\ rest \in Function(text) /\ Forward(inner, text)
    BY <1>3 DEF NodeShape, Table
  <1>5. inner[o] \in Outcome(text) /\ rest[o] \in Outcome(text) /\ o \in Outcome(text) /\ NoMatch \in Outcome(text)
    BY <1>4 DEF Function, Outcome
  <1>6. ~PastEnd(h, n, text, o) /\ r # NoMatch /\ r # o
    <2>1. Returned(o) /\ Returned(NoMatch)
      BY <1>5, OffsetsMatch
    <2>2. r # NoMatch /\ r # o
      BY <2>1
    <2> QED BY <1>2, <2>2 DEF Call
  <1>7. CASE h.type[n] \in Single
    <2>1. r = IF Matches(h, n, text, o) THEN rest[o + Width(h, n)] ELSE NoMatch
      BY <1>2, <1>6, <1>7 DEF Call
    <2>2. o < Len(text)
      BY <1>6, <1>7 DEF PastEnd, Single, Offsets
    <2>3. Matches(h, n, text, o)
      BY <1>6, <2>1
    <2>4. o + Width(h, n) \in Offsets(text)
      BY <1>3, <1>7, <2>2, <2>3, SingleFits
    <2> HIDE DEF rest
    <2> QED BY <1>7, <2>1, <2>3, <2>4 DEF Known, Single
  <1>8. CASE h.type[n] = "T_ALTERNATION"
    <2>1. r = EvalAlternation(inner, rest, o)
      BY <1>2, <1>6, <1>8 DEF Call, Single
    <2>2. r = inner[o] \/ r = rest[o]
      BY <2>1 DEF EvalAlternation
    <2> HIDE DEF inner, rest
    <2> QED BY <1>8, <2>2 DEF Known, Branching
  <1>9. CASE h.type[n] = "T_GROUP"
    <2> DEFINE e == inner[o]
               d == h.data[n]
    <2>1. r = EvalGroup(d, inner, rest, o)
      BY <1>2, <1>6, <1>9 DEF Call, Single
    <2> HIDE DEF inner, rest
    <2>2. Matched(e) => e \in Offsets(text)
      BY <1>5, OffsetsMatch
    <2>3. r = e \/ r = rest[IF d.look \/ ~Matched(e) THEN o ELSE e]
      BY <1>6, <2>1 DEF EvalGroup
    <2>4. r = e => \E x \in Offsets(text) : r = inner[x]
      OBVIOUS
    <2> HIDE DEF e, d
    <2> QED BY <1>9, <2>2, <2>3, <2>4 DEF Known, Branching
  <1>10. CASE h.type[n] = "T_QUANTIFIER"
    <2> DEFINE d == h.data[n]
    <2>1. r = EvalQuantifier(d, inner, rest, text, o)
      BY <1>2, <1>6, <1>10 DEF Call, Single
    <2>2. QuantifierData(d)
      BY <1>3, <1>10 DEF NodeShape, QuantifierData
    <2> HIDE DEF inner, rest, d
    <2>3. Breaks(d, inner, rest, text, r)
      <3>1. r = NoMatch \/ Finds(d, inner, rest, text, o, r) \/ Breaks(d, inner, rest, text, r)
        BY <1>4, <2>1, <2>2, QuantifierFinds
      <3>2. ~Matched(r)
        <4>1. Call(h, text, calls, n, o) \in Outcome(text)
          BY CallType
        <4> QED BY <4>1, OffsetsMatch
      <3> QED BY <1>6, <3>1, <3>2 DEF Finds
    <2> QED BY <1>10, <2>3 DEF Breaks, Known, Branching, d
  <1>11. CASE h.type[n] \in {"T_TRUE", "T_ROOT", "T_ANCHOR_BEGIN", "T_ANCHOR_END"}
    <2>1. r \in {rest[o], NoMatch, o} /\ (h.type[n] = "T_TRUE" => r = o)
      BY <1>2, <1>6, <1>11 DEF Call, Single
    <2> HIDE DEF rest
    <2> QED BY <1>6, <1>11, <2>1 DEF Known
  <1>12. CASE h.type[n] \notin Known
    BY <1>2, <1>6, <1>12 DEF Call, Known, Branching
  <1> QED BY <1>7, <1>8, <1>9, <1>10, <1>11, <1>12 DEF Known, Branching

LEMMA CallsProgress ==
  ASSUME NEW h, NEW text, Len(text) \in Nat, Shape(h), Strings(h), NEW k, k \in 0 .. h.size,
         NEW n \in Pointer(h), NEW o \in Offsets(text),
         \A m \in NodesTable(h)[k][n] :
           h.type[m] = "T_QUANTIFIER" /\ h.data[m].max = SIZE_MAX => ~Nullable(h, h.child[m])
  PROVE  Calls(h, text)[k][n][o] # Hang
  <1> DEFINE C == Calls(h, text)
             B == NullableTable(h)
             T == NodesTable(h)
             N == h.size
             Fine(i, m) == \A x \in T[i][m] :
               h.type[x] = "T_QUANTIFIER" /\ h.data[x].max = SIZE_MAX => ~Nullable(h, h.child[x])
             Ends1(i, m) == \A e \in Offsets(text) : C[i][m][e] # Hang
             P == {i \in 0 .. N : \A m \in Pointer(h) : Fine(i, m) => Ends1(i, m)}
  <1>1. /\ C \in [0 .. N -> Table(h, text)]
        /\ \A m \in Pointer(h), e \in Offsets(text) : C[0][m][e] = Abort
        /\ \A i \in 1 .. N : \A m \in Pointer(h), e \in Offsets(text) :
              C[i][m][e] = Call(h, text, C[i - 1], m, e)
    BY CallsUnfold
  <1>2. \A i \in 0 .. N : \A m \in Pointer(h) : B[i][m] => Nullable(h, m)
    BY NullableGrows
  <1>3. N \in Nat
    BY DEF Shape
  <1>4. \A i \in 0 .. N : \A m \in Pointer(h) : Forward(C[i][m], text) /\ Stays(C[i][m], B[i][m], text)
    BY CallsForward, CallsStay
  <1>5. \A i \in 1 .. N, m \in Pointer(h) \ {0} :
          /\ h.next[m] \in Pointer(h) /\ h.child[m] \in Pointer(h) /\ m \in T[i][m]
          /\ T[i - 1][h.next[m]] \subseteq T[i][m]
          /\ h.type[m] \in Branching => T[i - 1][h.child[m]] \subseteq T[i][m]
    BY NodesBelow
  <1> HIDE DEF C, B, T, N
  <1>6. 0 \in P
    BY <1>1, <1>3 DEF Hang, Abort
  <1>7. ASSUME NEW i \in P, i < N PROVE i + 1 \in P
    <2>1. i + 1 \in 1 .. N /\ (i + 1) - 1 = i /\ i + 1 \in 0 .. N /\ i \in 0 .. N
      BY <1>3, <1>7
    <2>2. ASSUME NEW m \in Pointer(h), Fine(i + 1, m), NEW e \in Offsets(text), C[i + 1][m][e] = Hang
          PROVE  FALSE
      <3>1. Call(h, text, C[i], m, e) = Hang
        BY <1>1, <2>1, <2>2
      <3>2. C[i] \in Table(h, text) /\ \A x \in Pointer(h) : Forward(C[i][x], text)
        BY <1>1, <1>4, <2>1
      <3>3. ~Returned(Hang) /\ Hang # Abort
        BY DEF Returned, Hang, Abort, NoMatch
      <3>4. /\ m # 0
            /\ \/ \E x \in Offsets(text) : Hang = C[i][h.next[m]][x]
               \/ h.type[m] \in Branching /\ \E x \in Offsets(text) : Hang = C[i][h.child[m]][x]
               \/ /\ h.type[m] = "T_QUANTIFIER" /\ h.data[m].max = SIZE_MAX
                  /\ \E x \in Offsets(text) : C[i][h.child[m]][x] = x
        BY <3>1, <3>2, <3>3, CallBreaks
      <3>5. /\ h.next[m] \in Pointer(h) /\ h.child[m] \in Pointer(h) /\ m \in T[i + 1][m]
            /\ T[i][h.next[m]] \subseteq T[i + 1][m]
            /\ h.type[m] \in Branching => T[i][h.child[m]] \subseteq T[i + 1][m]
        BY <1>5, <2>1, <3>4
      <3>6. Fine(i, h.next[m]) /\ (h.type[m] \in Branching => Fine(i, h.child[m]))
        BY <2>2, <3>5
      <3>7. Ends1(i, h.next[m]) /\ (h.type[m] \in Branching => Ends1(i, h.child[m]))
        <4> HIDE DEF Fine, Ends1
        <4> QED BY <3>5, <3>6
      <3>8. \A x \in Offsets(text) : C[i][h.child[m]][x] = x => Nullable(h, h.child[m])
        BY <1>2, <1>4, <2>1, <3>5 DEF Stays
      <3>9. h.type[m] = "T_QUANTIFIER" /\ h.data[m].max = SIZE_MAX => ~Nullable(h, h.child[m])
        BY <2>2, <3>5
      <3> HIDE DEF Fine
      <3> QED BY <3>4, <3>7, <3>8, <3>9
    <2> HIDE DEF Fine
    <2> QED BY <2>1, <2>2
  <1>8. P = 0 .. N
    <2>1. P \in SUBSET (0 .. N)
      OBVIOUS
    <2> HIDE DEF P
    <2> QED BY <1>3, <1>6, <1>7, <2>1, BoundedInduction
  <1> QED BY <1>8 DEF C, T, N

-----------------------------------------------------------------------------
(* No surgery of the compiler makes an empty string.                       *)
Filled(h) == \A n \in Node : h.type[n] = "T_STRING" => h.data[n].str # <<>>

LEMMA FilledKept ==
  ASSUME NEW h, Filled(h), NEW g, g.data = h.data,
         \A n \in Node : g.type[n] = "T_STRING" => h.type[n] = "T_STRING"
  PROVE  Filled(g)
  BY DEF Filled

LEMMA AddNodeFilled ==
  ASSUME NEW h \in HeapType, Filled(h), h.size < MaxNodes
  PROVE  Filled(AddNode(h)) /\ AddNode(h) \in HeapType /\ h.size + 1 \in Node
  <1> DEFINE g == AddNode(h)
  <1>1. g.data = h.data /\ g.type = h.type /\ g \in HeapType /\ h.size + 1 \in Node
    BY AddNodeFields
  <1> HIDE DEF g
  <1>2. Filled(g)
    BY <1>1, FilledKept
  <1> QED BY <1>1, <1>2 DEF g

LEMMA LabelFilled ==
  ASSUME NEW h \in HeapType, Filled(h), NEW n \in Node,
         NEW ty \in NodeType, ty # "T_STRING", NEW d \in DataType
  PROVE  Filled(Label(h, n, ty, d)) /\ Label(h, n, ty, d) \in HeapType
  <1> DEFINE g == Label(h, n, ty, d)
  <1>1. /\ g.type = [h.type EXCEPT ![n] = ty] /\ g.data = [h.data EXCEPT ![n] = d]
        /\ g \in HeapType
    BY LabelFields
  <1>2. h.type \in [Node -> NodeType] /\ h.data \in [Node -> DataType]
    BY DEF HeapType
  <1> HIDE DEF g
  <1>3. Filled(g)
    BY <1>1, <1>2 DEF Filled
  <1> QED BY <1>1, <1>3 DEF g

LEMMA RemoveSelfFilled ==
  ASSUME NEW h \in HeapType, Filled(h), NEW n \in Node
  PROVE  Filled(RemoveSelf(h, n))
  <1>1. RemoveSelf(h, n).data = h.data /\ RemoveSelf(h, n).type = h.type
    BY DEF RemoveSelf, HeapType
  <1> QED BY <1>1, FilledKept

LEMMA AdoptFilled ==
  ASSUME NEW h \in HeapType, Filled(h), NEW n \in Node
  PROVE  Filled(Adopt(h, n))
  <1> DEFINE g == Adopt(h, n)
  <1>1. g.data = h.data /\ g.type = [h.type EXCEPT ![h.size + 1] = "T_TRUE"]
    BY DEF Adopt, Terminate, HeapType
  <1>2. h.type \in [Node -> NodeType]
    BY DEF HeapType
  <1> HIDE DEF g
  <1>3. Filled(g)
    BY <1>1, <1>2, FilledKept
  <1> QED BY <1>3 DEF g

LEMMA AddCharFilled ==
  ASSUME NEW h \in HeapType, Filled(h), NEW n \in Node, NEW c \in Char
  PROVE  Filled(AddChar(h, n, c))
  <1> DEFINE p == h.prev[n]
  <1>1. h.type \in [Node -> NodeType] /\ h.data \in [Node -> DataType] /\ h.prev \in [Node -> Node \cup {0}]
    BY FieldTypes DEF HeapType
  <1>2. CASE CanAppend(h, p)
    <2>1. p \in Node
      BY <1>1, <1>2 DEF CanAppend, NULL
    <2> DEFINE e == [h.data[p] EXCEPT !.str = Append(@, c)]
               k == [h EXCEPT !.data[p] = e]
    <2>2. h.data[p] \in DataType /\ h.data[p].str \in Seq(Char)
      BY <1>1, <2>1 DEF DataType
    <2> DEFINE b == Append(h.data[p].str, c)
    <2>3. b \in Seq(Char) /\ b # <<>>
      <3>1. b \in Seq(Char) /\ Len(b) = Len(h.data[p].str) + 1
        BY <2>2
      <3>2. Len(h.data[p].str) \in Nat /\ Len(<<>>) = 0
        BY <2>2
      <3> DEFINE l == Len(h.data[p].str)
      <3>3. l + 1 # 0
        BY <3>2
      <3> HIDE DEF b, l
      <3>4. Len(b) # Len(<<>>)
        BY <3>1, <3>2, <3>3 DEF l
      <3> QED BY <3>1, <3>4
    <2>4. e = [h.data[p] EXCEPT !.str = b]
      OBVIOUS
    <2> HIDE DEF e, b
    <2>8. e.str = b /\ e \in DataType
      BY <2>2, <2>3, <2>4 DEF DataType
    <2>9. e.str # <<>>
      BY <2>3, <2>8
    <2>5. k \in HeapType /\ k.data = [h.data EXCEPT ![p] = e] /\ k.type = h.type
      <3>1. k \in HeapType
        BY <2>1, <2>8, SetData
      <3> QED BY <3>1 DEF HeapType
    <2>6. Filled(k)
      <3> HIDE DEF k
      <3> QED BY <1>1, <2>1, <2>5, <2>9 DEF Filled
    <2>7. AddChar(h, n, c) = RemoveSelf(k, n)
      BY <1>2, <2>1, <2>4 DEF AddChar, b
    <2> HIDE DEF k
    <2> QED BY <2>5, <2>6, <2>7, RemoveSelfFilled
  <1>3. CASE ~CanAppend(h, p)
    <2> DEFINE g == AddChar(h, n, c)
               e == [Zeroed EXCEPT !.str = <<c>>]
    <2>1. g.type = [h.type EXCEPT ![n] = "T_STRING"] /\ g.data = [h.data EXCEPT ![n] = e]
      BY <1>3 DEF AddChar, HeapType
    <2>2. e.str = <<c>>
      BY DEF Zeroed
    <2>3. e.str # <<>>
      BY <2>2
    <2> HIDE DEF g, e
    <2>4. Filled(g)
      BY <1>1, <2>1, <2>3 DEF Filled
    <2> QED BY <2>4 DEF g
  <1> QED BY <1>2, <1>3

LEMMA QuantifierFilled ==
  ASSUME NEW h \in HeapType, Filled(h), h.size < MaxNodes, NEW min \in Nat, NEW max \in Nat
  PROVE  LET n == h.size + 1
             g == SetQuantifier(AddNode(h), n, min, max)
         IN  Filled(g) /\ Filled(Adopt(g, n))
  <1> DEFINE n == h.size + 1
             k == AddNode(h)
             d == [Zeroed EXCEPT !.min = min, !.max = max]
  <1>1. d \in DataType
    BY ZeroedType DEF DataType
  <1>2. Filled(k) /\ k \in HeapType /\ n \in Node
    BY AddNodeFilled
  <1> HIDE DEF k, d
  <1>3. Filled(Label(k, n, "T_QUANTIFIER", d)) /\ Label(k, n, "T_QUANTIFIER", d) \in HeapType
    BY <1>1, <1>2, LabelFilled DEF NodeType, Composite
  <1>4. SetQuantifier(AddNode(h), n, min, max) = Label(k, n, "T_QUANTIFIER", d)
    BY DEF SetQuantifier, k, d
  <1> HIDE DEF n
  <1>5. Filled(Adopt(Label(k, n, "T_QUANTIFIER", d), n))
    BY <1>2, <1>3, AdoptFilled
  <1> QED BY <1>3, <1>4, <1>5 DEF n

LEMMA ParseFilled ==
  ASSUME IInv, Filled(re), NEW f \in Fragments \cup {RBrace} \cup MacroFragments, Parse(f)
  PROVE  Filled(re')
  <1> DEFINE n == re.size + 1
             k == AddNode(re)
  <1>0. Read(f)
    BY DEF Parse, ParseAtom, ParseChar, ParseOpen, ParseQuantifier, ParseQuestion,
           ParseBrace, ParseBar, ParseClose, ParseMacro, ParseBad
  <1>1. re \in HeapType /\ re.size < MaxNodes /\ f \in AllFragments
    BY <1>0, ReadFacts DEF IInv, HeapIInv
  <1>2. Filled(k) /\ k \in HeapType /\ n \in Node
    BY <1>1, AddNodeFilled
  <1>3. \A min, max \in Nat :
          Filled(SetQuantifier(AddNode(re), n, min, max))
            /\ Filled(Adopt(SetQuantifier(AddNode(re), n, min, max), n))
    BY <1>1, QuantifierFilled
  <1>4. CASE ParseAtom(f) \/ ParseBad(f)
    <2>1. f.t \in NodeType /\ f.t # "T_STRING"
      BY <1>1, <1>4, FragmentFields DEF ParseAtom, ParseBad, NodeType, AtomType
    <2>2. re' = Label(k, n, f.t, Zeroed)
      BY <1>4 DEF ParseAtom, ParseBad
    <2> HIDE DEF k
    <2> QED BY <1>2, <2>1, <2>2, ZeroedType, LabelFilled
  <1>5. CASE ParseChar(f)
    <2>1. f.c \in Char /\ re' = AddChar(k, n, f.c)
      BY <1>1, <1>5, FragmentFields DEF ParseChar
    <2> HIDE DEF k
    <2> QED BY <1>2, <2>1, AddCharFilled
  <1>6. CASE ParseOpen(f)
    <2> DEFINE d == [Zeroed EXCEPT !.look = f.look, !.inv = f.inv]
    <2>1. d \in DataType
      <3>1. f.look \in BOOLEAN /\ f.inv \in BOOLEAN
        BY <1>1, <1>6, FragmentFields DEF ParseOpen
      <3> QED BY <3>1, ZeroedType DEF DataType
    <2>2. re' = Label(k, n, "T_GROUP_START", d)
      BY <1>6 DEF ParseOpen
    <2> HIDE DEF k, d
    <2> QED BY <1>2, <2>1, <2>2, LabelFilled DEF NodeType
  <1>7. CASE ParseQuantifier(f) \/ ParseBrace(f)
    <2>1. f.min \in Nat /\ f.max \in Nat
      BY <1>1, <1>7, FragmentFields DEF ParseQuantifier, ParseBrace
    <2>2. \/ re' = SetQuantifier(AddNode(re), n, f.min, f.max)
          \/ re' = Adopt(SetQuantifier(AddNode(re), n, f.min, f.max), n)
      BY <1>7 DEF ParseQuantifier, ParseBrace
    <2> QED BY <1>3, <2>1, <2>2
  <1>8. CASE ParseQuestion(f)
    <2> DEFINE p == k.prev[n]
               l == SetLazy(k, p)
    <2>1. \/ re' = RemoveSelf(l, n) /\ k.type[p] = "T_QUANTIFIER"
          \/ re' = SetQuantifier(AddNode(re), n, 0, 1)
          \/ re' = Adopt(SetQuantifier(AddNode(re), n, 0, 1), n)
      BY <1>8 DEF ParseQuestion
    <2>2. Filled(RemoveSelf(l, n))
      <3>1. k.type \in [Node -> NodeType] /\ k.data \in [Node -> DataType] /\ p \in Node
        <4>1. k.prev = [re.prev EXCEPT ![n] = re.tail]
          BY <1>1, AddNodeFields
        <4>2. re.tail \in Node /\ re.prev \in [Node -> Node \cup {0}]
          BY <1>1, FieldTypes
        <4> HIDE DEF k
        <4>3. k.prev[n] = re.tail
          BY <1>2, <4>1, <4>2
        <4> QED BY <1>2, <4>2, <4>3 DEF HeapType
      <3> HIDE DEF k
      <3> DEFINE e == [k.data[p] EXCEPT !.lazy = TRUE]
      <3>2. k.data[p] \in DataType
        BY <3>1
      <3>3. e \in DataType /\ e.str = k.data[p].str
        BY <3>2 DEF DataType
      <3>4. l = [k EXCEPT !.data[p] = e]
        BY DEF SetLazy
      <3> HIDE DEF e
      <3> HIDE DEF l, p
      <3>5. l \in HeapType /\ l.data = [k.data EXCEPT ![p] = e] /\ l.type = k.type
        <4>1. l \in HeapType
          BY <1>2, <3>1, <3>3, <3>4, SetData
        <4>2. k = [x \in DOMAIN k |-> k[x]] /\ {"data", "type"} \subseteq DOMAIN k
          BY <1>2 DEF HeapType
        <4>3. l.data = [k.data EXCEPT ![p] = e] /\ l.type = k.type
          BY <3>4, <4>2
        <4> QED BY <4>1, <4>3
      <3>6. Filled(l)
        BY <1>2, <3>1, <3>3, <3>5 DEF Filled
      <3> QED BY <1>2, <3>5, <3>6, RemoveSelfFilled
    <2> HIDE DEF l
    <2> QED BY <1>3, <2>1, <2>2
  <1>9. CASE ParseBar(f) \/ ParseClose(f)
    BY <1>2, <1>9 DEF ParseBar, ParseClose
  <1>10. CASE ParseMacro(f)
    <2>1. re' = RemoveSelf(k, n)
      BY <1>10 DEF ParseMacro
    <2> HIDE DEF k
    <2> QED BY <1>2, <2>1, RemoveSelfFilled
  <1> QED BY <1>4, <1>5, <1>6, <1>7, <1>8, <1>9, <1>10 DEF Parse

LEMMA StepFilled ==
  ASSUME IInv, Filled(re), [Next]_vars
  PROVE  Filled(re')
  <1>1. re \in HeapType /\ re.type \in [Node -> NodeType] /\ re.tail \in Node
    BY FieldTypes DEF IInv, HeapIInv
  <1>2. ASSUME NEW f \in Fragments \cup {RBrace} \cup MacroFragments, Parse(f) PROVE Filled(re')
    BY <1>2, ParseFilled
  <1>3. CASE BarLiteral \/ CloseLiteral
    <2>1. re' = AddChar(re, re.tail, BarChar) \/ re' = AddChar(re, re.tail, ")")
      BY <1>3 DEF BarLiteral, CloseLiteral
    <2>2. BarChar \in Char /\ ")" \in Char
      BY CharAssumption DEF BarChar
    <2> QED BY <1>1, <2>1, <2>2, AddCharFilled
  <1>4. CASE BarSplit
    <2>1. re' = Split(re, scan)
      BY <1>4 DEF BarSplit
    <2>2. /\ re'.data = re.data
          /\ re'.type = [re.type EXCEPT ![re.tail] = "T_TRUE", ![re.size + 1] = "T_ALTERNATION"]
      BY <1>1, <2>1 DEF Split, AddNode, HeapType
    <2> QED BY <1>1, <2>2, FilledKept
  <1>5. CASE CloseMatch
    <2>1. re' = CloseGroup(re, scan)
      BY <1>5 DEF CloseMatch
    <2>2. /\ re'.data = re.data
          /\ re'.type = [re.type EXCEPT ![scan] = "T_GROUP", ![re.tail] = "T_TRUE"]
      BY <1>1, <2>1 DEF CloseGroup, HeapType
    <2> QED BY <1>1, <2>2, FilledKept
  <1>6. CASE EndPattern
    <2>1. re' = AddRoot(Terminate(re, re.tail))
      BY <1>6 DEF EndPattern
    <2>2. /\ re'.data = re.data
          /\ re'.type = [re.type EXCEPT ![re.size + 1] = "T_TRUE", ![re.size + 1 + 1] = "T_ROOT"]
      BY <1>1, <2>1 DEF AddRoot, Terminate, HeapType
    <2> QED BY <1>1, <2>2, FilledKept
  <1>7. CASE FreeNode
    <2>1. re' = re \/ (re'.data = re.data /\ re'.type = re.type)
      BY <1>1, <1>7 DEF FreeNode, HeapType
    <2> QED BY <2>1, FilledKept
  <1>8. CASE re' = re
    BY <1>8
  <1> QED BY <1>2, <1>3, <1>4, <1>5, <1>6, <1>7, <1>8
          DEF Next, vars, Hunt, AddMacro, BeginPattern, BarBack, CloseBack, EndMacro, BeginFree, EndFree

LEMMA InductiveFilled == Spec => [](IInv /\ Filled(re))
  <1>1. Init => Filled(re)
    BY DEF Init, NewHeap, Filled
  <1>2. IInv /\ Filled(re) /\ [Next]_vars => Filled(re)'
    BY StepFilled
  <1> QED BY <1>1, <1>2, Inductive, PTL DEF Spec

(* HangNeedsNullable: regexx_match comes to an end for every accepted      *)
(* pattern whose unbounded quantifiers repeat what cannot be empty.        *)
THEOREM Terminates == Spec => []HangNeedsNullable
  <1>1. IInv /\ Filled(re) => HangNeedsNullable
    <2> SUFFICES ASSUME IInv, Filled(re), NEW n \in Compiled, Progressing(n), NEW text \in Texts,
                        NEW o \in Offsets(text)
                 PROVE  Eval(Built, text, n, o) # Hang
      BY DEF HangNeedsNullable
    <2> DEFINE h == Built
    <2>0. TypeOK
      BY DEF IInv, HeapIInv, TypeOK
    <2>1. /\ Shape(h) /\ n \in Pointer(h) /\ Len(text) \in Nat /\ h.type = re.type /\ h.child = re.child
          /\ \A m \in Node : re.type[m] # "T_CHARCLASS" => h.data[m] = re.data[m]
          /\ Pointer(h) = 0 .. MaxNodes
      BY <2>0, BuiltShape
    <2> HIDE DEF h
    <2>2. h.size \in 0 .. h.size
      BY <2>1 DEF Shape
    <2>3. Strings(h)
      <3>1. Pointer(h) \ {0} = Node
        BY <2>1 DEF Node
      <3> QED BY <2>1, <3>1 DEF Strings, Filled
    <2>4. ASSUME NEW m \in NodesTable(h)[h.size][n], h.type[m] = "T_QUANTIFIER", h.data[m].max = SIZE_MAX
          PROVE  ~Nullable(h, h.child[m])
      <3>1. m \in Node
        <4>1. NodesTable(h)[h.size] \in [Pointer(h) -> SUBSET (Pointer(h) \ {0})]
          BY <2>1, <2>2, NodesUnfold
        <4>2. m \in Pointer(h) \ {0}
          BY <2>1, <2>4, <4>1
        <4> QED BY <2>1, <4>2 DEF Node
      <3>2. re.data[m].max = SIZE_MAX
        BY <2>1, <2>4, <3>1
      <3>3. re.type[m] = "T_QUANTIFIER" /\ m \in Nodes(h, n)
        BY <2>1, <2>4 DEF Nodes
      <3>4. ~Nullable(h, re.child[m])
        BY <3>2, <3>3 DEF Progressing, h
      <3>5. h.child[m] = re.child[m]
        BY <2>1
      <3> QED BY <3>4, <3>5
    <2>5. Calls(h, text)[h.size][n][o] # Hang
      <3>1. \A m \in NodesTable(h)[h.size][n] :
              h.type[m] = "T_QUANTIFIER" /\ h.data[m].max = SIZE_MAX => ~Nullable(h, h.child[m])
        BY <2>4
      <3>2. Len(text) \in Nat /\ Shape(h) /\ n \in Pointer(h)
        BY <2>1
      <3> HIDE <2>1, <2>4
      <3> DEFINE k == h.size
      <3>3. k \in 0 .. h.size
        BY <2>2
      <3>4. \A m \in NodesTable(h)[k][n] :
              h.type[m] = "T_QUANTIFIER" /\ h.data[m].max = SIZE_MAX => ~Nullable(h, h.child[m])
        BY <3>1
      <3> HIDE DEF k
      <3>5. Calls(h, text)[k][n][o] # Hang
        BY <2>3, <3>2, <3>3, <3>4, CallsProgress
      <3> QED BY <3>5 DEF k
    <2> QED BY <2>5 DEF Eval, h
  <1> QED BY <1>1, InductiveFilled, PTL

-----------------------------------------------------------------------------
(* Calls that start high enough above the bottom of an ordered part of the *)
(* heap never get to where there is no node, or none that the matcher      *)
(* knows.                                                                  *)
Descent(h, S, pos) ==
  \A n \in S :
    /\ h.type[n] \in Known \cup {"T_GROUP_START"}
    /\ h.type[n] # "T_TRUE" => h.next[n] \in S /\ pos[n] < pos[h.next[n]]
    /\ h.type[n] \in Branching => h.child[n] \in S /\ pos[n] < pos[h.child[n]]

LEMMA CallsKnow ==
  ASSUME NEW h, NEW text, Len(text) \in Nat, Shape(h),
         NEW S \in SUBSET (Pointer(h) \ {0}), NEW pos \in [S -> 1 .. h.size], Descent(h, S, pos),
         NEW k, k \in 0 .. h.size, NEW n \in S, h.size < pos[n] + k, NEW o \in Offsets(text),
         \A m \in NodesTable(h)[k][n] : h.type[m] # "T_GROUP_START"
  PROVE  Calls(h, text)[k][n][o] # Abort
  <1> DEFINE C == Calls(h, text)
             T == NodesTable(h)
             N == h.size
             Fine(i, m) == N < pos[m] + i /\ \A x \in T[i][m] : h.type[x] # "T_GROUP_START"
             Ends1(i, m) == \A e \in Offsets(text) : C[i][m][e] # Abort
             P == {i \in 0 .. N : \A m \in S : Fine(i, m) => Ends1(i, m)}
  <1>1. /\ C \in [0 .. N -> Table(h, text)]
        /\ \A i \in 1 .. N : \A m \in Pointer(h), e \in Offsets(text) :
              C[i][m][e] = Call(h, text, C[i - 1], m, e)
    BY CallsUnfold
  <1>2. N \in Nat /\ S \subseteq Pointer(h) \ {0}
    BY DEF Shape
  <1>3. \A i \in 0 .. N : \A m \in Pointer(h) : Forward(C[i][m], text)
    BY CallsForward
  <1>4. \A i \in 1 .. N, m \in Pointer(h) \ {0} :
          /\ h.next[m] \in Pointer(h) /\ h.child[m] \in Pointer(h) /\ m \in T[i][m]
          /\ T[i - 1][h.next[m]] \subseteq T[i][m]
          /\ h.type[m] \in Branching => T[i - 1][h.child[m]] \subseteq T[i][m]
    BY NodesBelow
  <1>5. \A m \in S : pos[m] \in 1 .. N
    OBVIOUS
  <1> HIDE DEF C, T, N
  <1>6. 0 \in P
    BY <1>2, <1>5
  <1>7. ASSUME NEW i \in P, i < N PROVE i + 1 \in P
    <2>1. i + 1 \in 1 .. N /\ (i + 1) - 1 = i /\ i + 1 \in 0 .. N /\ i \in 0 .. N
      BY <1>2, <1>7
    <2>2. ASSUME NEW m \in S, Fine(i + 1, m), NEW e \in Offsets(text), C[i + 1][m][e] = Abort
          PROVE  FALSE
      <3>1. Call(h, text, C[i], m, e) = Abort /\ m \in Pointer(h) /\ m # 0
        BY <1>1, <1>2, <2>1, <2>2
      <3>2. C[i] \in Table(h, text) /\ \A x \in Pointer(h) : Forward(C[i][x], text)
        BY <1>1, <1>3, <2>1
      <3>3. ~Returned(Abort) /\ Hang # Abort
        BY DEF Returned, Hang, Abort, NoMatch
      <3>4. \/ h.type[m] \notin Known
            \/ /\ h.type[m] \in Known \ {"T_TRUE"}
               /\ \/ \E x \in Offsets(text) : Abort = C[i][h.next[m]][x]
                  \/ h.type[m] \in Branching /\ \E x \in Offsets(text) : Abort = C[i][h.child[m]][x]
        BY <3>1, <3>2, <3>3, CallBreaks
      <3>5. /\ m \in T[i + 1][m]
            /\ T[i][h.next[m]] \subseteq T[i + 1][m]
            /\ h.type[m] \in Branching => T[i][h.child[m]] \subseteq T[i + 1][m]
        BY <1>4, <2>1, <3>1
      <3>6. h.type[m] \in Known
        BY <2>2, <3>5 DEF Descent
      <3>7. /\ h.type[m] # "T_TRUE" => h.next[m] \in S /\ N < pos[h.next[m]] + i
            /\ h.type[m] \in Branching => h.child[m] \in S /\ N < pos[h.child[m]] + i
        <4>1. /\ h.type[m] # "T_TRUE" => h.next[m] \in S /\ pos[m] < pos[h.next[m]]
              /\ h.type[m] \in Branching => h.child[m] \in S /\ pos[m] < pos[h.child[m]]
          BY DEF Descent
        <4>2. N < pos[m] + (i + 1) /\ pos[m] \in Nat /\ i \in Nat
          BY <1>2, <1>5, <2>1, <2>2
        <4> QED BY <1>2, <1>5, <4>1, <4>2
      <3>8. /\ h.type[m] # "T_TRUE" => Fine(i, h.next[m])
            /\ h.type[m] \in Branching => Fine(i, h.child[m])
        BY <2>2, <3>5, <3>7
      <3>9. /\ h.type[m] # "T_TRUE" => Ends1(i, h.next[m])
            /\ h.type[m] \in Branching => Ends1(i, h.child[m])
        <4> HIDE DEF Fine, Ends1
        <4> QED BY <3>7, <3>8
      <3> HIDE DEF Fine
      <3> QED BY <3>4, <3>6, <3>9
    <2> HIDE DEF Fine
    <2> QED BY <2>1, <2>2
  <1>8. P = 0 .. N
    <2>1. P \in SUBSET (0 .. N)
      OBVIOUS
    <2> HIDE DEF P
    <2> QED BY <1>2, <1>6, <1>7, <2>1, BoundedInduction
  <1> QED BY <1>8 DEF C, T, N

-----------------------------------------------------------------------------
(* The nodes of the heap can be put in an order in which every link goes   *)
(* forward, one that the ids do not give: a quantifier is younger than its *)
(* operand, an alternation than its left side.                             *)
LinksTo(h, a, b) == h.next[a] = b \/ (h.type[a] \in Composite /\ h.child[a] = b)
Ascends(h, pos) == \A a \in Live(h), b \in 1 .. h.size : LinksTo(h, a, b) => pos[a] < pos[b]
Ordered(h) == \E pos \in [1 .. h.size -> 1 .. h.size] : Ascends(h, pos)

(* Taking links away keeps the order.                                      *)
LEMMA FewerLinks ==
  ASSUME NEW h, Ordered(h), NEW g, g.size = h.size, Live(g) \subseteq Live(h),
         \A a \in Live(g), b \in 1 .. h.size : LinksTo(g, a, b) => LinksTo(h, a, b)
  PROVE  Ordered(g)
  BY DEF Ordered, Ascends

(* A new node behind all of the others.                                    *)
LEMMA LinksAppended ==
  ASSUME NEW h, h.size \in Nat, Ordered(h), NEW g, g.size = h.size + 1,
         NEW new, new = h.size + 1,
         \A a \in Live(g), b \in 1 .. new : LinksTo(g, a, b) =>
           \/ a \in Live(h) /\ b \in 1 .. h.size /\ LinksTo(h, a, b)
           \/ a \in 1 .. h.size /\ b = new
  PROVE  Ordered(g)
  <1>1. PICK pos \in [1 .. h.size -> 1 .. h.size] : Ascends(h, pos)
    BY DEF Ordered
  <1> DEFINE q == [m \in 1 .. new |-> IF m = new THEN new ELSE pos[m]]
             N == h.size
  <1>2. N \in Nat /\ new = N + 1 /\ Live(h) \subseteq 1 .. N
    BY DEF Live
  <1>3. \A m \in 1 .. N : pos[m] \in 1 .. N /\ q[m] = pos[m] /\ m \in 1 .. new
    BY <1>1, <1>2
  <1>4. q[new] = new
    BY <1>2
  <1>5. q \in [1 .. new -> 1 .. new]
    <2>1. \A m \in 1 .. new : m = new \/ m \in 1 .. N
      BY <1>2
    <2>2. \A m \in 1 .. N : pos[m] \in 1 .. new
      BY <1>2, <1>3
    <2> QED BY <1>2, <2>1, <2>2
  <1> HIDE DEF q
  <1>6. ASSUME NEW a \in Live(g), NEW b \in 1 .. new, LinksTo(g, a, b) PROVE q[a] < q[b]
    <2>1. CASE a \in Live(h) /\ b \in 1 .. h.size /\ LinksTo(h, a, b)
      <3>1. pos[a] < pos[b]
        BY <1>1, <2>1 DEF Ascends
      <3> QED BY <1>2, <1>3, <2>1, <3>1
    <2>2. CASE a \in 1 .. h.size /\ b = new
      BY <1>2, <1>3, <1>4, <2>2
    <2> QED BY <1>6, <2>1, <2>2
  <1> QED BY <1>5, <1>6 DEF Ordered, Ascends

(* A node n comes between c and what led to c, and c may lead to a new     *)
(* node behind all of the others, if it led somewhere before.              *)
Inserted(h, g, n, c, new) ==
  \A a \in Live(g), b \in 1 .. new : LinksTo(g, a, b) =>
    \/ a \in Live(h) \ {n} /\ b \in (1 .. h.size) \ {n} /\ LinksTo(h, a, b)
    \/ a = n /\ b = c
    \/ a \in Live(h) \ {n} /\ b = n /\ LinksTo(h, a, c)
    \/ /\ a = c /\ b = new /\ n # new
       /\ c \in Live(h) /\ \E d \in 1 .. h.size : LinksTo(h, c, d)

LEMMA LinksInserted ==
  ASSUME NEW h, h.size \in Nat, Ordered(h), NEW g, g.size = h.size + 1,
         NEW new, new = h.size + 1, NEW n \in 1 .. new, NEW c \in 1 .. h.size, c # n,
         Inserted(h, g, n, c, new)
  PROVE  Ordered(g)
  <1>1. PICK pos \in [1 .. h.size -> 1 .. h.size] : Ascends(h, pos)
    BY DEF Ordered
  <1> DEFINE N == h.size
             later(x) == IF x >= pos[c] THEN x + 1 ELSE x
             place(m) == IF m = n THEN pos[c] ELSE IF m = new THEN new ELSE later(pos[m])
             q == [m \in 1 .. new |-> place(m)]
  <1>2. N \in Nat /\ new = N + 1 /\ Live(h) \subseteq 1 .. N
    BY DEF Live
  <1>3. pos[c] \in 1 .. N /\ \A m \in 1 .. N : pos[m] \in 1 .. N /\ m \in 1 .. new /\ m # new
    BY <1>1, <1>2
  <1>4. /\ \A x \in 1 .. N : later(x) \in 1 .. new
        /\ \A x, y \in 1 .. N : x < y => later(x) < later(y)
        /\ later(pos[c]) = pos[c] + 1
        /\ \A x \in 1 .. N : x < pos[c] => later(x) = x
    <2> DEFINE z == pos[c]
    <2>1. z \in 1 .. N
      BY <1>3
    <2> HIDE DEF z
    <2>2. \A x \in 1 .. N : (IF x >= z THEN x + 1 ELSE x) \in 1 .. new
      BY <1>2, <2>1
    <2>3. \A x, y \in 1 .. N :
            x < y => (IF x >= z THEN x + 1 ELSE x) < (IF y >= z THEN y + 1 ELSE y)
      BY <1>2, <2>1
    <2>4. /\ (IF z >= z THEN z + 1 ELSE z) = z + 1
          /\ \A x \in 1 .. N : x < z => (IF x >= z THEN x + 1 ELSE x) = x
      BY <1>2, <2>1
    <2> QED BY <2>2, <2>3, <2>4 DEF z
  <1> HIDE DEF later
  <1>5. /\ \A m \in (1 .. N) \ {n} : q[m] = later(pos[m])
        /\ q[n] = pos[c]
        /\ n # new => q[new] = new
    BY <1>2, <1>3
  <1>6. q \in [1 .. new -> 1 .. new]
    <2>1. ASSUME NEW m \in 1 .. new PROVE place(m) \in 1 .. new
      <3>1. m = new \/ m \in 1 .. N
        BY <1>2
      <3>2. pos[c] \in 1 .. new /\ new \in 1 .. new
        BY <1>2, <1>3
      <3>3. m \in 1 .. N => later(pos[m]) \in 1 .. new
        BY <1>3, <1>4
      <3> QED BY <3>1, <3>2, <3>3
    <2> HIDE DEF place
    <2> QED BY <2>1
  <1> HIDE DEF q, N
  <1>7. ASSUME NEW a \in Live(g), NEW b \in 1 .. new, LinksTo(g, a, b) PROVE q[a] < q[b]
    <2>1. CASE a \in Live(h) \ {n} /\ b \in (1 .. h.size) \ {n} /\ LinksTo(h, a, b)
      <3>1. pos[a] < pos[b]
        BY <1>1, <2>1 DEF Ascends
      <3>2. a \in (1 .. N) \ {n} /\ b \in (1 .. N) \ {n}
        BY <1>2, <2>1 DEF N
      <3>3. q[a] = later(pos[a]) /\ q[b] = later(pos[b]) /\ pos[a] \in 1 .. N /\ pos[b] \in 1 .. N
        BY <1>3, <1>5, <3>2
      <3> QED BY <1>4, <3>1, <3>3
    <2>2. CASE a = n /\ b = c
      <3>1. q[a] = pos[c] /\ q[b] = pos[c] + 1
        BY <1>4, <1>5, <2>2 DEF N
      <3> QED BY <1>2, <1>3, <3>1
    <2>3. CASE a \in Live(h) \ {n} /\ b = n /\ LinksTo(h, a, c)
      <3>1. pos[a] < pos[c]
        BY <1>1, <2>3 DEF Ascends
      <3>2. q[a] = pos[a] /\ q[b] = pos[c]
        <4>1. a \in (1 .. N) \ {n}
          BY <1>2, <2>3
        <4>2. q[a] = later(pos[a]) /\ pos[a] \in 1 .. N
          BY <1>3, <1>5, <4>1
        <4> QED BY <1>4, <1>5, <2>3, <3>1, <4>2
      <3> QED BY <3>1, <3>2
    <2>4. CASE /\ a = c /\ b = new /\ n # new
               /\ c \in Live(h) /\ \E d \in 1 .. h.size : LinksTo(h, c, d)
      <3>1. PICK d \in 1 .. N : pos[c] < pos[d]
        BY <1>1, <2>4 DEF Ascends, N
      <3>2. q[a] = pos[c] + 1 /\ q[b] = new
        BY <1>4, <1>5, <2>4 DEF N
      <3>3. pos[d] \in 1 .. N
        BY <1>3
      <3> QED BY <1>2, <1>3, <3>1, <3>2, <3>3
    <2> QED BY <1>7, <2>1, <2>2, <2>3, <2>4 DEF Inserted
  <1> QED BY <1>6, <1>7 DEF Ordered, Ascends

-----------------------------------------------------------------------------
(* A node with a type, and with a child where there has to be one.         *)
Complete(h, n) == h.type[n] # "T_UNKNOWN" /\ (h.type[n] \in Composite => h.child[n] # 0)
AllBefore(h) == Ordered(h) /\ \A n \in Live(h) \ {h.tail} : Complete(h, n)
Whole(h) == Ordered(h) /\ \A n \in Live(h) : Complete(h, n)

(* What is needed of the heap to reason about the end of its open chain.   *)
LEMMA TailFacts ==
  ASSUME NEW h, Chained(h)
  PROVE  /\ h \in HeapType /\ h.size \in Nat /\ Live(h) \subseteq Node
         /\ Live(h) \subseteq 1 .. h.size /\ Node \subseteq Nat \ {0}
         /\ h.tail \in Live(h) /\ h.tail \in Node /\ h.next[h.tail] = 0
         /\ h.tail # h.head => /\ h.prev[h.tail] \in Live(h) /\ h.prev[h.tail] \in Node
                               /\ h.prev[h.tail] # h.tail
                               /\ h.next[h.prev[h.tail]] = h.tail
  <1>1. h \in HeapType /\ HeapInv(h)
    BY DEF Chained, HeapInv
  <1>2. h.size \in Nat /\ Live(h) \subseteq Node /\ Live(h) \subseteq 1 .. h.size /\ Node \subseteq Nat \ {0}
    BY <1>1, FieldTypes DEF Live
  <1>3. h.tail \in Live(h) /\ h.next[h.tail] = 0
    BY <1>1 DEF HeapInv, EndsValid, NULL
  <1>4. ASSUME h.tail # h.head
        PROVE  /\ h.prev[h.tail] \in Live(h) /\ h.prev[h.tail] # h.tail
               /\ h.next[h.prev[h.tail]] = h.tail
    <2>1. PICK S : OpenChain(h, S)
      BY DEF Chained
    <2>2. h.prev[h.tail] \in Live(h) /\ h.prev[h.tail] # 0
      BY <1>2, <1>4, <2>1 DEF OpenChain
    <2>3. h.next[h.prev[h.tail]] = h.tail
      BY <1>1, <1>3, <2>2 DEF HeapInv, LinksAgree, NULL
    <2> QED BY <1>2, <1>3, <2>2, <2>3
  <1> QED BY <1>1, <1>2, <1>3, <1>4

(* A new node is the only one that a fragment has not yet filled.         *)
LEMMA AddNodeWhole ==
  ASSUME NEW h, Chained(h), Whole(h), h.size < MaxNodes
  PROVE  AllBefore(AddNode(h))
  <1> DEFINE g == AddNode(h)
             n == h.size + 1
  <1>1. /\ h \in HeapType /\ h.size \in Nat /\ Live(h) \subseteq Node
        /\ Live(h) \subseteq 1 .. h.size /\ h.tail \in Live(h) /\ h.tail \in Node
    BY TailFacts
  <1>2. /\ n \in Node /\ g.size = n /\ g.freed = h.freed /\ g.tail = n
        /\ g.type = h.type /\ g.child = h.child
        /\ g.next = [h.next EXCEPT ![h.tail] = n]
    BY <1>1, AddNodeFields
  <1>3. h.next \in [Node -> Node \cup {0}] /\ Fresh(h)
    BY <1>1, FieldTypes DEF Chained, HeapInv
  <1> HIDE DEF g
  <1>4. Live(g) \subseteq Live(h) \cup {n}
    BY <1>1, <1>2 DEF Live
  <1>5. ASSUME NEW a \in Live(g), NEW b \in 1 .. n, LinksTo(g, a, b)
        PROVE  \/ a \in Live(h) /\ b \in 1 .. h.size /\ LinksTo(h, a, b)
               \/ a \in 1 .. h.size /\ b = n
    <2>1. CASE a = n
      <3>1. g.next[n] = 0 /\ g.type[n] = "T_UNKNOWN"
        BY <1>1, <1>2, <1>3 DEF Fresh, NULL
      <3> QED BY <1>1, <1>5, <2>1, <3>1 DEF LinksTo, Composite
    <2>2. CASE a # n
      <3>1. a \in Live(h) /\ a \in Node
        BY <1>1, <1>4, <2>2
      <3>2. LinksTo(h, a, b) \/ b = n
        BY <1>2, <1>3, <1>5, <3>1 DEF LinksTo
      <3> QED BY <1>1, <3>1, <3>2
    <2> QED BY <2>1, <2>2
  <1>6. Ordered(g)
    <2> HIDE DEF n
    <2> QED BY <1>1, <1>2, <1>5, LinksAppended DEF Whole, n
  <1>7. ASSUME NEW m \in Live(g) \ {g.tail} PROVE Complete(g, m)
    BY <1>2, <1>4 DEF Whole, Complete
  <1> QED BY <1>6, <1>7 DEF AllBefore, g

(* The last node gets a type, and nothing hangs below it.                  *)
LEMMA LabelWhole ==
  ASSUME NEW h, Chained(h), AllBefore(h), NEW n, n = h.tail, h.child[n] = 0,
         NEW ty \in NodeType, NEW d \in DataType, NEW g, g = Label(h, n, ty, d)
  PROVE  AllBefore(g) /\ (ty \notin Composite \cup {"T_UNKNOWN"} => Whole(g))
  <1>1. /\ h \in HeapType /\ h.size \in Nat /\ Live(h) \subseteq Node
        /\ Live(h) \subseteq 1 .. h.size /\ n \in Live(h) /\ n \in Node
    BY TailFacts
  <1>2. /\ g.size = h.size /\ g.freed = h.freed /\ g.tail = h.tail
        /\ g.next = h.next /\ g.child = h.child
        /\ g.type = [h.type EXCEPT ![n] = ty]
    <2>1. /\ g.size = h.size /\ g.freed = h.freed
          /\ g.next = h.next /\ g.prev = h.prev /\ g.child = h.child
          /\ g.type = [h.type EXCEPT ![n] = ty]
      BY <1>1 DEF Label, HeapType
    <2>2. g.tail = h.tail
      BY <1>1 DEF Label, HeapType
    <2> QED BY <2>1, <2>2
  <1>3. h.type \in [Node -> NodeType] /\ Live(g) = Live(h)
    BY <1>1, <1>2, FieldTypes DEF Live
  <1>4. g.type[n] = ty /\ \A m \in Node : m # n => g.type[m] = h.type[m]
    BY <1>1, <1>2, <1>3
  <1>5. ASSUME NEW a \in Live(g), NEW b \in 1 .. h.size, LinksTo(g, a, b) PROVE LinksTo(h, a, b)
    BY <1>1, <1>2, <1>3, <1>4, <1>5 DEF LinksTo
  <1>6. Ordered(g)
    BY <1>2, <1>3, <1>5, FewerLinks DEF AllBefore
  <1>7. \A m \in Live(g) \ {n} : Complete(g, m)
    BY <1>1, <1>2, <1>3, <1>4 DEF AllBefore, Complete
  <1>8. ty \notin Composite \cup {"T_UNKNOWN"} => Complete(g, n)
    BY <1>4 DEF Complete
  <1> QED BY <1>2, <1>6, <1>7, <1>8 DEF AllBefore, Whole

(* The last node goes away; the others have kept their links.              *)
LEMMA RemoveSelfWhole ==
  ASSUME NEW h, Chained(h), AllBefore(h), NEW n, n = h.tail, n # h.head,
         NEW k, k \in HeapType, k.size = h.size, k.freed = h.freed, k.head = h.head,
         k.tail = h.tail, k.next = h.next, k.prev = h.prev, k.child = h.child, k.type = h.type
  PROVE  Whole(RemoveSelf(k, n))
  <1> DEFINE g == RemoveSelf(k, n)
             p == h.prev[n]
  <1>1. /\ h \in HeapType /\ h.size \in Nat /\ Live(h) \subseteq Node /\ 0 \notin Node
        /\ Live(h) \subseteq 1 .. h.size /\ n \in Live(h) /\ n \in Node
        /\ p \in Live(h) /\ p \in Node
    BY TailFacts
  <1>2. /\ g.size = h.size /\ g.freed = h.freed \cup {n} /\ g.tail = p
        /\ g.type = h.type /\ g.child = h.child
        /\ g.next = [h.next EXCEPT ![p] = 0]
    BY <1>1, RemoveSelfFields
  <1>3. h.next \in [Node -> Node \cup {0}]
    BY <1>1, FieldTypes
  <1> HIDE DEF g
  <1>4. Live(g) = Live(h) \ {n}
    BY <1>2 DEF Live
  <1>5. ASSUME NEW a \in Live(g), NEW b \in 1 .. h.size, LinksTo(g, a, b) PROVE LinksTo(h, a, b)
    <2>1. a \in Node /\ b # 0
      BY <1>1, <1>4
    <2>2. g.next[a] = b => h.next[a] = b
      BY <1>1, <1>2, <1>3, <2>1
    <2> QED BY <1>2, <1>5, <2>2 DEF LinksTo
  <1>6. Ordered(g)
    BY <1>2, <1>4, <1>5, FewerLinks DEF AllBefore
  <1>7. \A m \in Live(g) : Complete(g, m)
    BY <1>2, <1>4 DEF AllBefore, Complete
  <1> QED BY <1>6, <1>7 DEF Whole, g

(* A character joins the string before it or gets a node of its own.       *)
LEMMA AddCharWhole ==
  ASSUME NEW h, Chained(h), AllBefore(h), NEW n, n = h.tail, n # h.head,
         NEW c \in Char, NEW g, g = AddChar(h, n, c)
  PROVE  Whole(g)
  <1> DEFINE p == h.prev[n]
  <1>1. /\ h \in HeapType /\ h.size \in Nat /\ Live(h) \subseteq Node /\ 0 \notin Node
        /\ Live(h) \subseteq 1 .. h.size /\ n \in Live(h) /\ n \in Node
        /\ p \in Live(h) /\ p \in Node
    BY TailFacts
  <1>2. CASE CanAppend(h, p)
    <2> DEFINE e == [h.data[p] EXCEPT !.str = Append(@, c)]
               k == [h EXCEPT !.data[p] = e]
    <2>1. e \in DataType
      <3>1. h.data[p] \in DataType
        BY <1>1 DEF HeapType
      <3>2. Append(h.data[p].str, c) \in Seq(Char)
        BY <3>1 DEF DataType
      <3> QED BY <3>1, <3>2 DEF DataType
    <2>2. g = RemoveSelf(k, n)
      BY <1>1, <1>2 DEF AddChar, HeapType
    <2> HIDE DEF e
    <2>3. k \in HeapType
      BY <1>1, <2>1, SetData
    <2>4. /\ k.size = h.size /\ k.freed = h.freed /\ k.head = h.head /\ k.tail = h.tail
          /\ k.next = h.next /\ k.prev = h.prev /\ k.child = h.child /\ k.type = h.type
      BY <1>1 DEF HeapType
    <2> HIDE DEF k
    <2> QED BY <2>2, <2>3, <2>4, RemoveSelfWhole
  <1>3. CASE ~CanAppend(h, p)
    <2>1. /\ g.size = h.size /\ g.freed = h.freed /\ g.next = h.next
          /\ g.child = [h.child EXCEPT ![n] = 0]
          /\ g.type = [h.type EXCEPT ![n] = "T_STRING"]
      BY <1>1, <1>3 DEF AddChar, HeapType, NULL
    <2>2. /\ h.type \in [Node -> NodeType] /\ h.child \in [Node -> Node \cup {0}]
          /\ Live(g) = Live(h)
      BY <1>1, <2>1, FieldTypes DEF Live
    <2>3. /\ g.type[n] = "T_STRING"
          /\ \A m \in Node : m # n => g.type[m] = h.type[m] /\ g.child[m] = h.child[m]
      BY <1>1, <2>1, <2>2
    <2>4. ASSUME NEW a \in Live(g), NEW b \in 1 .. h.size, LinksTo(g, a, b) PROVE LinksTo(h, a, b)
      BY <1>1, <2>1, <2>2, <2>3, <2>4 DEF LinksTo, Composite
    <2>5. Ordered(g)
      BY <2>1, <2>2, <2>4, FewerLinks DEF AllBefore
    <2>6. \A m \in Live(g) : Complete(g, m)
      BY <1>1, <2>2, <2>3 DEF AllBefore, Complete, Composite
    <2> QED BY <2>5, <2>6 DEF Whole
  <1> QED BY <1>2, <1>3

(* A quantifier comes between its operand and what led to the operand.     *)
LEMMA AdoptWhole ==
  ASSUME NEW h, Chained(h), AllBefore(h), h.size < MaxNodes,
         NEW n, n = h.tail, n # h.head,
         h.type[n] = "T_QUANTIFIER", h.child[n] = 0, h.prev[n] # h.head
  PROVE  Whole(Adopt(h, n))
  <1> DEFINE c == h.prev[n]
             p == h.prev[c]
             t == h.size + 1
             g == Adopt(h, n)
  <1>1. /\ h \in HeapType /\ h.size \in Nat /\ Live(h) \subseteq Node /\ Node \subseteq Nat \ {0}
        /\ Live(h) \subseteq 1 .. h.size /\ n \in Live(h) /\ n \in Node /\ h.next[n] = 0
        /\ c \in Live(h) /\ c \in Node /\ c # n /\ h.next[c] = n
    BY TailFacts
  <1>2. HeapInv(h)
    BY DEF Chained
  <1>3. p \in Live(h) /\ p # 0 /\ h.next[p] = c /\ p \in Node /\ p # n /\ p # c
    <2>1. PICK S : OpenChain(h, S)
      BY DEF Chained
    <2>2. p \in Live(h) /\ p \in Node
      BY <1>1, <2>1 DEF OpenChain
    <2>3. h.next[p] = c
      BY <1>1, <1>2, <2>2 DEF HeapInv, LinksAgree, NULL
    <2>4. p < c
      BY <1>1, <1>2, <2>2, <2>3 DEF HeapInv, LinksAgree, NULL
    <2> QED BY <1>1, <2>2, <2>3, <2>4
  <1>4. /\ t \in Node /\ g.size = t /\ g.freed = h.freed
        /\ g.child = [h.child EXCEPT ![n] = c]
        /\ g.type = [h.type EXCEPT ![t] = "T_TRUE"]
        /\ g.next = [h.next EXCEPT ![p] = n, ![c] = t]
    <2>1. h \in HeapType /\ n \in Node /\ c \in Node /\ p \in Node /\ p # n /\ c # n
      BY <1>1, <1>3
    <2>2. /\ g \in HeapType /\ t \in Node
          /\ g.size = t /\ g.freed = h.freed
          /\ g.head = h.head /\ g.tail = h.tail
          /\ g.data = h.data
          /\ g.child = [h.child EXCEPT ![n] = c]
          /\ g.type = [h.type EXCEPT ![t] = "T_TRUE"]
          /\ g.prev = [h.prev EXCEPT ![n] = p, ![c] = 0, ![t] = c]
          /\ g.next = [h.next EXCEPT ![p] = n, ![c] = t]
      BY <2>1, AdoptFields
    <2> HIDE DEF g
    <2> QED BY <2>2
  <1>5. /\ h.next \in [Node -> Node \cup {0}] /\ h.type \in [Node -> NodeType]
        /\ h.child \in [Node -> Node \cup {0}] /\ Fresh(h)
    BY <1>1, <1>2, FieldTypes DEF HeapInv
  <1>6. \A m \in Live(h) : m # t
    BY <1>1
  <1>7. h.next[t] = 0 /\ t # 0
    BY <1>1, <1>4, <1>5 DEF Fresh, NULL
  <1> HIDE DEF g
  <1>8. Live(g) \subseteq Live(h) \cup {t}
    BY <1>1, <1>4 DEF Live
  <1>9. /\ g.next[p] = n /\ g.next[c] = t /\ g.next[n] = 0 /\ g.next[t] = 0
        /\ g.type[t] = "T_TRUE" /\ g.child[n] = c
        /\ \A m \in Live(h) : /\ g.type[m] = h.type[m]
                              /\ m # n => g.child[m] = h.child[m]
                              /\ m \notin {p, c} => g.next[m] = h.next[m]
    <2>1. g.next[p] = n /\ g.next[c] = t
      BY <1>1, <1>3, <1>4, <1>5
    <2>2. g.next[n] = 0 /\ g.next[t] = 0
      BY <1>1, <1>3, <1>4, <1>5, <1>6, <1>7
    <2>3. g.type[t] = "T_TRUE" /\ g.child[n] = c
      BY <1>1, <1>4, <1>5
    <2>4. \A m \in Live(h) : /\ g.type[m] = h.type[m]
                             /\ m # n => g.child[m] = h.child[m]
                             /\ m \notin {p, c} => g.next[m] = h.next[m]
      BY <1>1, <1>4, <1>5, <1>6
    <2> QED BY <2>1, <2>2, <2>3, <2>4
  <1>10. \A m \in Live(h) : h.next[m] = n => m = c
    BY <1>1, <1>2, OnlyLink
  <1>11. \A m \in Live(h) : ~(h.type[m] \in Composite /\ h.child[m] = n)
    BY <1>1, <1>2, OnlyLink
  <1>12. ASSUME NEW a \in Live(g), NEW b \in 1 .. t, LinksTo(g, a, b)
         PROVE  \/ a \in Live(h) \ {n} /\ b \in (1 .. h.size) \ {n} /\ LinksTo(h, a, b)
                \/ a = n /\ b = c
                \/ a \in Live(h) \ {n} /\ b = n /\ LinksTo(h, a, c)
                \/ /\ a = c /\ b = t /\ n # t
                   /\ c \in Live(h) /\ \E d \in 1 .. h.size : LinksTo(h, c, d)
    <2>0. b # 0 /\ n # t /\ c # t /\ p # t
      BY <1>1, <1>3, <1>6
    <2>1. CASE a = t
      BY <1>9, <1>12, <2>0, <2>1 DEF LinksTo, Composite
    <2>2. CASE a = n
      BY <1>9, <1>12, <2>0, <2>2 DEF LinksTo
    <2>3. CASE a \in Live(h) \ {n, t}
      <3>1. CASE g.next[a] = b
        <4>1. CASE a = p
          BY <1>3, <1>9, <2>3, <3>1, <4>1 DEF LinksTo
        <4>2. CASE a = c
          <5>1. n \in 1 .. h.size /\ LinksTo(h, c, n)
            BY <1>1 DEF LinksTo
          <5> QED BY <1>1, <1>9, <2>0, <3>1, <4>2, <5>1
        <4>3. CASE a \notin {p, c}
          <5>1. h.next[a] = b /\ b # n
            BY <1>9, <1>10, <2>3, <3>1, <4>3
          <5>2. b \in Live(h)
            BY <1>2, <2>0, <2>3, <5>1 DEF HeapInv, LinksAgree, NULL
          <5> QED BY <1>1, <2>3, <5>1, <5>2 DEF LinksTo
        <4> QED BY <4>1, <4>2, <4>3
      <3>2. CASE g.type[a] \in Composite /\ g.child[a] = b
        <4>1. h.type[a] \in Composite /\ h.child[a] = b /\ b # n
          BY <1>9, <1>11, <2>3, <3>2
        <4>2. b \in Live(h)
          <5>1. b \in Node
            BY <1>1, <1>5, <2>0, <2>3, <4>1
          <5> QED BY <1>2, <2>3, <4>1, <5>1 DEF HeapInv, NeverShared, Owns
        <4> QED BY <1>1, <2>3, <4>1, <4>2 DEF LinksTo
      <3> QED BY <1>12, <3>1, <3>2 DEF LinksTo
    <2> QED BY <1>8, <2>1, <2>2, <2>3
  <1>13. Ordered(g)
    <2>1. n \in 1 .. t /\ c \in 1 .. h.size /\ c # n
      BY <1>1
    <2>2. g.size = h.size + 1 /\ Ordered(h) /\ h.size \in Nat /\ t = h.size + 1
      BY <1>1, <1>4 DEF AllBefore
    <2>3. Inserted(h, g, n, c, t)
      BY <1>12 DEF Inserted
    <2> HIDE DEF t, c, p
    <2> QED BY <2>1, <2>2, <2>3, LinksInserted
  <1>14. ASSUME NEW m \in Live(g) PROVE Complete(g, m)
    <2>1. CASE m = t
      BY <1>9, <2>1 DEF Complete, Composite
    <2>2. CASE m = n
      BY <1>1, <1>9, <2>2 DEF Complete
    <2>3. CASE m \in Live(h) \ {n}
      BY <1>9, <2>3 DEF Complete, AllBefore
    <2> QED BY <1>8, <2>1, <2>2, <2>3
  <1> QED BY <1>13, <1>14 DEF Whole, g

(* '|' hangs all that comes after a root or a group below a new node.      *)
LEMMA SplitWhole ==
  ASSUME NEW h, HeapInv(h), AllBefore(h), h.size < MaxNodes,
         NEW S, OpenChain(h, S), NEW s \in S, s # h.head
  PROVE  Whole(Split(h, s))
  <1> DEFINE p == h.prev[s]
             a == h.size + 1
             x == h.tail
             g == Split(h, s)
  <1>1. h \in HeapType /\ Chained(h)
    BY DEF HeapInv, Chained
  <1>2. /\ h.size \in Nat /\ h.next \in [Node -> Node \cup {0}]
        /\ h.type \in [Node -> NodeType] /\ h.child \in [Node -> Node \cup {0}]
        /\ Live(h) \subseteq Node /\ Node \subseteq Nat \ {0}
        /\ Live(h) \subseteq 1 .. h.size /\ x \in Live(h)
    BY <1>1, FieldTypes, TailFacts
  <1>3. /\ s \in Node /\ p \in Node /\ s \in Live(h) /\ p \in Live(h) /\ x \in Node
    BY <1>2 DEF OpenChain
  <1>4. h.next[p] = s /\ s # 0 /\ p # 0
    BY <1>2, <1>3 DEF HeapInv, LinksAgree, NULL
  <1>5. /\ a \in Node /\ g.size = a /\ g.freed = h.freed
        /\ g.child = [h.child EXCEPT ![a] = s]
        /\ g.type = [h.type EXCEPT ![x] = "T_TRUE", ![a] = "T_ALTERNATION"]
        /\ g.next = [h.next EXCEPT ![p] = a]
    <2>1. /\ g \in HeapType /\ a \in Node
          /\ g.size = a /\ g.freed = h.freed /\ g.head = h.head /\ g.tail = a
          /\ g.data = h.data
          /\ g.child = [h.child EXCEPT ![a] = s]
          /\ g.type = [h.type EXCEPT ![h.tail] = "T_TRUE", ![a] = "T_ALTERNATION"]
          /\ g.prev = [h.prev EXCEPT ![s] = 0, ![a] = p]
          /\ g.next = [h.next EXCEPT ![p] = a]
      BY <1>1, <1>3, SplitFields
    <2> HIDE DEF g
    <2> QED BY <2>1
  <1> HIDE DEF g
  <1>6. /\ Live(g) \subseteq Live(h) \cup {a} /\ a \notin Live(h) /\ a # 0
        /\ h.next[a] = 0
    <2>1. h.next[a] = 0
      BY <1>2, <1>5 DEF HeapInv, Fresh, NULL
    <2> QED BY <1>2, <1>5, <2>1 DEF Live
  <1>7. /\ g.next[p] = a /\ g.next[a] = 0 /\ g.child[a] = s /\ g.type[a] = "T_ALTERNATION"
        /\ g.type[x] = "T_TRUE"
        /\ \A m \in Live(h) : /\ m # x => g.type[m] = h.type[m]
                              /\ m # p => g.next[m] = h.next[m]
                              /\ g.child[m] = h.child[m]
    <2>1. \A m \in Live(h) : m \in Node /\ m # a
      BY <1>2, <1>6
    <2>2. g.next[p] = a /\ g.next[a] = 0
      BY <1>2, <1>3, <1>5, <1>6
    <2>3. g.child[a] = s /\ g.type[a] = "T_ALTERNATION" /\ g.type[x] = "T_TRUE"
      BY <1>2, <1>3, <1>5, <1>6
    <2>4. \A m \in Live(h) : m # x => g.type[m] = h.type[m]
      BY <1>2, <1>5, <2>1
    <2>5. \A m \in Live(h) : /\ m # p => g.next[m] = h.next[m]
                             /\ g.child[m] = h.child[m]
      BY <1>2, <1>5, <2>1
    <2> QED BY <2>2, <2>3, <2>4, <2>5
  <1>8. ASSUME NEW m \in Live(g), NEW b \in 1 .. a, LinksTo(g, m, b)
        PROVE  \/ m \in Live(h) \ {a} /\ b \in (1 .. h.size) \ {a} /\ LinksTo(h, m, b)
               \/ m = a /\ b = s
               \/ m \in Live(h) \ {a} /\ b = a /\ LinksTo(h, m, s)
    <2>0. b # 0 /\ b \in Nat /\ \A y \in 1 .. h.size : y # a
      BY <1>2
    <2>1. CASE m = a
      BY <1>7, <1>8, <2>0, <2>1 DEF LinksTo
    <2>2. CASE m \in Live(h) /\ g.next[m] = b
      <3>1. CASE m = p
        BY <1>4, <1>6, <1>7, <2>2, <3>1 DEF LinksTo
      <3>2. CASE m # p
        <4>1. h.next[m] = b
          BY <1>7, <2>2, <3>2
        <4>2. b \in Live(h)
          BY <2>0, <2>2, <4>1 DEF HeapInv, LinksAgree, NULL
        <4> QED BY <1>2, <1>6, <2>0, <2>2, <4>1, <4>2 DEF LinksTo
      <3> QED BY <3>1, <3>2
    <2>3. CASE m \in Live(h) /\ g.type[m] \in Composite /\ g.child[m] = b
      <3>1. m # x /\ h.type[m] \in Composite /\ h.child[m] = b
        BY <1>7, <2>3 DEF Composite
      <3>2. b \in Live(h)
        <4>1. b \in Node
          BY <1>2, <2>0, <2>3, <3>1
        <4> QED BY <2>3, <3>1, <4>1 DEF HeapInv, NeverShared, Owns
      <3> QED BY <1>2, <1>6, <2>0, <2>3, <3>1, <3>2 DEF LinksTo
    <2> QED BY <1>6, <1>8, <2>1, <2>2, <2>3 DEF LinksTo
  <1>9. Ordered(g)
    <2>1. a \in 1 .. a /\ s \in 1 .. h.size /\ s # a
      BY <1>2, <1>3, <1>6
    <2>2. g.size = h.size + 1 /\ Ordered(h) /\ h.size \in Nat /\ a = h.size + 1
      BY <1>2, <1>5 DEF AllBefore
    <2>3. Inserted(h, g, a, s, a)
      BY <1>8 DEF Inserted
    <2> HIDE DEF a, p, x
    <2> QED BY <2>1, <2>2, <2>3, LinksInserted
  <1>10. ASSUME NEW m \in Live(g) PROVE Complete(g, m)
    <2>1. CASE m = a
      BY <1>4, <1>7, <2>1 DEF Complete
    <2>2. CASE m = x
      BY <1>7, <2>2 DEF Complete, Composite
    <2>3. CASE m \in Live(h) \ {x}
      BY <1>7, <2>3 DEF Complete, AllBefore
    <2> QED BY <1>6, <2>1, <2>2, <2>3
  <1> QED BY <1>9, <1>10 DEF Whole, g

(* ')' hangs what comes after the open group below it.                     *)
LEMMA CloseGroupWhole ==
  ASSUME NEW h, HeapInv(h), AllBefore(h), NEW S, OpenChain(h, S), NEW s \in S, s # h.tail,
         h.type[s] = "T_GROUP_START", h.next[s] # 0
  PROVE  Whole(CloseGroup(h, s))
  <1> DEFINE f == h.next[s]
             x == h.tail
             g == CloseGroup(h, s)
  <1>1. h \in HeapType /\ Chained(h)
    BY DEF HeapInv, Chained
  <1>2. /\ h.next \in [Node -> Node \cup {0}] /\ x \in Node
        /\ h.type \in [Node -> NodeType] /\ h.child \in [Node -> Node \cup {0}]
        /\ Live(h) \subseteq Node /\ x \in Live(h)
    BY <1>1, FieldTypes, TailFacts
  <1>3. s \in Live(h) /\ s \in Node /\ f \in Node /\ s # x /\ f # 0
    BY <1>2 DEF OpenChain
  <1>4. /\ g.size = h.size /\ g.freed = h.freed
        /\ g.child = [h.child EXCEPT ![s] = f]
        /\ g.type = [h.type EXCEPT ![s] = "T_GROUP", ![x] = "T_TRUE"]
        /\ g.next = [h.next EXCEPT ![s] = 0]
    <2>1. /\ g \in HeapType
          /\ g.size = h.size /\ g.freed = h.freed /\ g.head = h.head /\ g.tail = s
          /\ g.data = h.data
          /\ g.child = [h.child EXCEPT ![s] = f]
          /\ g.type = [h.type EXCEPT ![s] = "T_GROUP", ![h.tail] = "T_TRUE"]
          /\ g.prev = [h.prev EXCEPT ![f] = 0]
          /\ g.next = [h.next EXCEPT ![s] = 0]
      BY <1>1, <1>3, CloseGroupFields
    <2> HIDE DEF g
    <2> QED BY <2>1
  <1> HIDE DEF g
  <1>5. Live(g) = Live(h)
    BY <1>4 DEF Live
  <1>6. g.type[s] = "T_GROUP" /\ g.type[x] = "T_TRUE" /\ g.child[s] = f /\ g.next[s] = 0
    BY <1>2, <1>3, <1>4
  <1>7. \A m \in Live(h) : /\ m \notin {s, x} => g.type[m] = h.type[m]
                           /\ m # s => g.next[m] = h.next[m] /\ g.child[m] = h.child[m]
    BY <1>2, <1>4
  <1> HIDE DEF x
  <1>8. ASSUME NEW m \in Live(g), NEW b \in 1 .. h.size, LinksTo(g, m, b) PROVE LinksTo(h, m, b)
    <2>1. b # 0
      OBVIOUS
    <2>2. CASE m = s
      BY <1>6, <1>8, <2>1, <2>2 DEF LinksTo
    <2>3. CASE m = x
      BY <1>2, <1>3, <1>6, <1>7, <1>8, <2>3 DEF LinksTo, Composite
    <2>4. CASE m \notin {s, x}
      BY <1>5, <1>7, <1>8, <2>4 DEF LinksTo
    <2> QED BY <2>2, <2>3, <2>4
  <1>9. Ordered(g)
    BY <1>4, <1>5, <1>8, FewerLinks DEF AllBefore
  <1>10. ASSUME NEW m \in Live(g) PROVE Complete(g, m)
    <2>1. CASE m = s
      BY <1>3, <1>6, <2>1 DEF Complete
    <2>2. CASE m = x
      BY <1>6, <2>2 DEF Complete, Composite
    <2>3. CASE m \notin {s, x}
      BY <1>5, <1>7, <2>3 DEF Complete, AllBefore, x
    <2> QED BY <2>1, <2>2, <2>3
  <1> QED BY <1>9, <1>10 DEF Whole, g

(* The end of a pattern: a T_TRUE behind it, and a root of its own for the *)
(* next.                                                                   *)
LEMMA EndWhole ==
  ASSUME NEW h, Chained(h), Whole(h), h.size + 2 <= MaxNodes
  PROVE  Whole(AddRoot(Terminate(h, h.tail)))
  <1> DEFINE x == h.tail
             t == h.size + 1
             k == Terminate(h, x)
             r == h.size + 2
             g == AddRoot(k)
  <1>1. /\ h \in HeapType /\ h.size \in Nat /\ Live(h) \subseteq Node /\ Node \subseteq Nat \ {0}
        /\ Live(h) \subseteq 1 .. h.size /\ x \in Live(h) /\ x \in Node
    BY TailFacts
  <1>2. MaxNodes \in Nat /\ h.size < MaxNodes
    BY <1>1, BoundAssumption
  <1>3. /\ k \in HeapType /\ t \in Node /\ k.size = t /\ k.freed = h.freed
        /\ k.child = h.child
        /\ k.type = [h.type EXCEPT ![t] = "T_TRUE"]
        /\ k.next = [h.next EXCEPT ![x] = t]
    <2>1. /\ k \in HeapType /\ t \in Node
          /\ k.size = t /\ k.freed = h.freed
          /\ k.head = h.head /\ k.tail = h.tail
          /\ k.data = h.data /\ k.child = h.child
          /\ k.type = [h.type EXCEPT ![t] = "T_TRUE"]
          /\ k.prev = [h.prev EXCEPT ![t] = x]
          /\ k.next = [h.next EXCEPT ![x] = t]
      BY <1>1, <1>2, TerminateFields
    <2> HIDE DEF k
    <2> QED BY <2>1
  <1> HIDE DEF k
  <1>4. k.size < MaxNodes /\ k.size + 1 = r /\ r \in Nat
    BY <1>1, <1>2, <1>3
  <1>5. /\ r \in Node /\ g.size = r /\ g.freed = k.freed
        /\ g.child = k.child /\ g.next = k.next
        /\ g.type = [k.type EXCEPT ![r] = "T_ROOT"]
    <2>1. /\ g \in HeapType /\ k.size + 1 \in Node
          /\ g.size = k.size + 1 /\ g.freed = k.freed /\ g.head = k.size + 1 /\ g.tail = k.size + 1
          /\ g.data = k.data /\ g.child = k.child
          /\ g.prev = k.prev /\ g.next = k.next
          /\ g.type = [k.type EXCEPT ![k.size + 1] = "T_ROOT"]
      BY <1>3, <1>4, AddRootFields
    <2> HIDE DEF g, r
    <2> QED BY <1>4, <2>1
  <1> HIDE DEF g
  <1>6. /\ h.next \in [Node -> Node \cup {0}] /\ h.type \in [Node -> NodeType]
        /\ h.next[t] = 0 /\ h.next[r] = 0
    <2>1. Fresh(h)
      BY DEF Chained, HeapInv
    <2> QED BY <1>1, <1>3, <1>5, <2>1, FieldTypes DEF Fresh, NULL
  <1>7. \A m \in Live(h) : m # t /\ m # r /\ m \in Node
    BY <1>1
  <1>8. t # r /\ t # x /\ r # x /\ t # 0 /\ r # 0
    BY <1>1, <1>7
  <1>9. Live(k) \subseteq Live(h) \cup {t} /\ Live(g) \subseteq Live(k) \cup {r}
    BY <1>1, <1>3, <1>4, <1>5 DEF Live
  <1>10. /\ k.type[t] = "T_TRUE" /\ k.next[t] = 0 /\ k.next[r] = 0 /\ k.next[x] = t
         /\ \A m \in Live(h) : /\ k.type[m] = h.type[m] /\ k.child[m] = h.child[m]
                               /\ m # x => k.next[m] = h.next[m]
    <2>1. k.type[t] = "T_TRUE" /\ k.next[t] = 0 /\ k.next[r] = 0 /\ k.next[x] = t
      BY <1>1, <1>3, <1>5, <1>6, <1>8
    <2>2. \A m \in Live(h) : /\ k.type[m] = h.type[m] /\ k.child[m] = h.child[m]
                             /\ m # x => k.next[m] = h.next[m]
      BY <1>3, <1>6, <1>7
    <2> QED BY <2>1, <2>2
  <1>11. /\ g.type[r] = "T_ROOT" /\ \A m \in Live(k) : g.type[m] = k.type[m]
    <2>1. k.type \in [Node -> NodeType] /\ \A m \in Live(k) : m # r /\ m \in Node
      BY <1>3, <1>7, <1>8, <1>9, FieldTypes
    <2> QED BY <1>5, <2>1
  <1>12. ASSUME NEW m \in Live(k), NEW b \in 1 .. t, LinksTo(k, m, b)
         PROVE  \/ m \in Live(h) /\ b \in 1 .. h.size /\ LinksTo(h, m, b)
                \/ m \in 1 .. h.size /\ b = t
    <2>1. b # 0 /\ (b = t \/ b \in 1 .. h.size)
      BY <1>1
    <2>2. CASE m = t
      BY <1>10, <1>12, <2>1, <2>2 DEF LinksTo, Composite
    <2>3. CASE m # t
      <3>1. m \in Live(h) /\ m \in 1 .. h.size
        BY <1>1, <1>9, <2>3
      <3>2. LinksTo(h, m, b) \/ b = t
        BY <1>10, <1>12, <3>1 DEF LinksTo
      <3> QED BY <2>1, <3>1, <3>2
    <2> QED BY <2>2, <2>3
  <1>13. Ordered(k)
    <2>1. Ordered(h) /\ h.size \in Nat /\ k.size = h.size + 1 /\ t = h.size + 1
      BY <1>1, <1>3 DEF Whole
    <2> HIDE DEF t, r, x
    <2> QED BY <1>12, <2>1, LinksAppended
  <1>14. ASSUME NEW m \in Live(g), NEW b \in 1 .. r, LinksTo(g, m, b)
         PROVE  \/ m \in Live(k) /\ b \in 1 .. k.size /\ LinksTo(k, m, b)
                \/ m \in 1 .. k.size /\ b = r
    <2>1. b # 0 /\ (b = r \/ b \in 1 .. k.size)
      BY <1>1, <1>3, <1>4
    <2>2. CASE m = r
      BY <1>5, <1>10, <1>11, <1>14, <2>1, <2>2 DEF LinksTo, Composite
    <2>3. CASE m # r
      <3>1. m \in Live(k) /\ m \in 1 .. k.size
        BY <1>9, <2>3 DEF Live
      <3>2. LinksTo(k, m, b)
        BY <1>5, <1>11, <1>14, <3>1 DEF LinksTo
      <3> QED BY <2>1, <3>1, <3>2
    <2> QED BY <2>2, <2>3
  <1>15. Ordered(g)
    <2>1. k.size \in Nat /\ g.size = k.size + 1 /\ r = k.size + 1
      BY <1>1, <1>3, <1>4, <1>5
    <2> HIDE DEF t, r, x
    <2> QED BY <1>13, <1>14, <2>1, LinksAppended
  <1>16. ASSUME NEW m \in Live(g) PROVE Complete(g, m)
    <2>1. CASE m = r
      BY <1>11, <2>1 DEF Complete, Composite
    <2>2. CASE m = t
      <3>1. g.type[t] = "T_TRUE"
        BY <1>8, <1>9, <1>10, <1>11, <2>2
      <3> QED BY <2>2, <3>1 DEF Complete, Composite
    <2>3. CASE m \in Live(h)
      <3>1. m \in Live(k)
        BY <1>1, <1>3, <2>3 DEF Live
      <3> QED BY <1>3, <1>5, <1>10, <1>11, <2>3, <3>1 DEF Complete, Whole
    <2> QED BY <1>9, <2>1, <2>2, <2>3
  <1> QED BY <1>15, <1>16 DEF Whole, g, k

(* A quantifier's node, and its operand's move below it.                   *)
LEMMA QuantifierWhole ==
  ASSUME NEW h, Chained(h), Whole(h), h.size + 2 <= MaxNodes,
         NEW min \in Nat, NEW max \in Nat, NEW n, n = h.size + 1,
         NEW g, g = SetQuantifier(AddNode(h), n, min, max), HasOperand(g, n)
  PROVE  Whole(Adopt(g, n))
  <1> DEFINE d == [Zeroed EXCEPT !.min = min, !.max = max]
             k == AddNode(h)
  <1>1. d \in DataType /\ "T_QUANTIFIER" \in NodeType /\ "T_QUANTIFIER" # "T_ROOT"
    BY ZeroedType DEF DataType, NodeType, Composite
  <1>2. g = Label(k, n, "T_QUANTIFIER", d)
    BY DEF SetQuantifier
  <1> HIDE DEF d
  <1>3. h.size \in Nat /\ MaxNodes \in Nat /\ h.size < MaxNodes
    BY TailFacts, BoundAssumption
  <1>4. Chained(k) /\ k.tail = n /\ k.child[n] = 0
    BY <1>3, NewNode
  <1>5. /\ Chained(g) /\ g.tail = n /\ n # g.head /\ g.size = n
        /\ g.type[n] = "T_QUANTIFIER" /\ g.child[n] = 0
    BY <1>1, <1>2, <1>3, NewNodeInv
  <1>6. AllBefore(k)
    BY <1>3, AddNodeWhole
  <1> HIDE DEF k
  <1>7. AllBefore(g)
    BY <1>1, <1>2, <1>4, <1>6, LabelWhole
  <1>8. g.size < MaxNodes /\ g.prev[n] # g.head
    BY <1>3, <1>5 DEF HasOperand
  <1> QED BY <1>5, <1>7, <1>8, AdoptWhole

(* What a call of add_pattern that goes on leaves.                         *)
Ready ==
  /\ pc' = "parse" => Whole(re')
  /\ pc' \in {"bar", "close"} => AllBefore(re')
  /\ pc' # "idle"

(* Reading one fragment: one step per kind.                                *)
LEMMA ParseReady ==
  ASSUME IInv, Whole(re), NEW f \in Fragments \cup {RBrace} \cup MacroFragments, Parse(f)
  PROVE  Ready
  <1> DEFINE n == re.size + 1
             k == AddNode(re)
  <1>0. Read(f)
    BY DEF Parse, ParseAtom, ParseChar, ParseOpen, ParseQuantifier, ParseQuestion,
           ParseBrace, ParseBar, ParseClose, ParseMacro, ParseBad
  <1>1. /\ Chained(re) /\ re.size < MaxNodes /\ re.size + 2 <= MaxNodes
        /\ f \in AllFragments /\ pc = "parse"
    BY <1>0, ReadFacts DEF Read, Readable
  <1>2. /\ k \in HeapType /\ Chained(k) /\ k.tail = n /\ n # k.head
        /\ k.child[n] = 0 /\ k.prev[n] = re.tail /\ n \in Node
    BY <1>1, NewNode
  <1>3. AllBefore(k)
    BY <1>1, AddNodeWhole
  <1>4. ASSUME NEW min \in Nat, NEW max \in Nat, HasOperand(SetQuantifier(AddNode(re), n, min, max), n)
        PROVE  Whole(Adopt(SetQuantifier(AddNode(re), n, min, max), n))
    BY <1>1, <1>4, QuantifierWhole
  <1>5. \A h : Whole(h) => AllBefore(h)
    BY DEF Whole, AllBefore
  <1>6. CASE ParseAtom(f)
    <2>1. f.t \in NodeType /\ f.t \notin Composite \cup {"T_UNKNOWN"}
      BY <1>1, <1>6, FragmentFields DEF ParseAtom, NodeType, AtomType, Composite
    <2>2. re' = Label(k, n, f.t, Zeroed) /\ pc' = "parse"
      BY <1>6 DEF ParseAtom, Continue
    <2> HIDE DEF k
    <2>3. Whole(re')
      BY <1>2, <1>3, <2>1, <2>2, ZeroedType, LabelWhole
    <2> QED BY <2>2, <2>3 DEF Ready
  <1>7. CASE ParseChar(f)
    <2>1. f.c \in Char /\ re' = AddChar(k, n, f.c) /\ pc' = "parse"
      BY <1>1, <1>7, FragmentFields DEF ParseChar, Continue
    <2> HIDE DEF k
    <2>2. Whole(re')
      BY <1>2, <1>3, <2>1, AddCharWhole
    <2> QED BY <2>1, <2>2 DEF Ready
  <1>8. CASE ParseOpen(f)
    <2> DEFINE d == [Zeroed EXCEPT !.look = f.look, !.inv = f.inv]
    <2>1. d \in DataType
      <3>1. f.look \in BOOLEAN /\ f.inv \in BOOLEAN
        BY <1>1, <1>8, FragmentFields DEF ParseOpen
      <3> QED BY <3>1, ZeroedType DEF DataType
    <2>2. re' = Label(k, n, "T_GROUP_START", d) /\ pc' = "parse"
      BY <1>8 DEF ParseOpen, Continue
    <2> HIDE DEF k, d
    <2>3. "T_GROUP_START" \in NodeType /\ "T_GROUP_START" \notin Composite \cup {"T_UNKNOWN"}
      BY DEF NodeType, Composite
    <2>4. Whole(re')
      BY <1>2, <1>3, <2>1, <2>2, <2>3, LabelWhole
    <2> QED BY <2>2, <2>4 DEF Ready
  <1>9. CASE ParseQuantifier(f)
    <2> DEFINE h == SetQuantifier(AddNode(re), n, f.min, f.max)
    <2>1. f.min \in Nat /\ f.max \in Nat
      BY <1>1, <1>9, FragmentFields DEF ParseQuantifier
    <2>2. HasOperand(h, n) => Whole(Adopt(h, n))
      BY <1>4, <2>1
    <2>3. \/ HasOperand(h, n) /\ re' = Adopt(h, n) /\ pc' = "parse"
          \/ re' = h /\ pc' = "error"
      BY <1>9 DEF ParseQuantifier, Continue, Fail
    <2> HIDE DEF h
    <2> QED BY <2>2, <2>3 DEF Ready
  <1>10. CASE ParseQuestion(f)
    <2> DEFINE h == SetQuantifier(AddNode(re), n, 0, 1)
               l == SetLazy(k, k.prev[n])
    <2>1. HasOperand(h, n) => Whole(Adopt(h, n))
      BY <1>4
    <2>2. \/ re' = RemoveSelf(l, n) /\ pc' = "parse"
          \/ HasOperand(h, n) /\ re' = Adopt(h, n) /\ pc' = "parse"
          \/ re' = h /\ pc' = "error"
      BY <1>10 DEF ParseQuestion, Continue, Fail
    <2>3. Whole(RemoveSelf(l, n))
      <3>1. PICK S : OpenChain(k, S)
        BY <1>2 DEF Chained
      <3>2. k.prev[n] \in S
        BY <1>2, <3>1 DEF OpenChain
      <3>3. HeapInv(k)
        BY <1>2 DEF Chained
      <3>4. HeapInv(l) /\ l.type = k.type /\ l.tail = k.tail /\ l.head = k.head
        <4> HIDE DEF k
        <4> QED BY <3>1, <3>2, <3>3, SetLazyInv
      <3>5. /\ l.size = k.size /\ l.freed = k.freed /\ l.next = k.next
            /\ l.prev = k.prev /\ l.child = k.child
        <4> HIDE DEF k
        <4> QED BY <1>2 DEF SetLazy, HeapType
      <3>6. l \in HeapType
        BY <3>4 DEF HeapInv
      <3> HIDE DEF l, k
      <3> QED BY <1>2, <1>3, <3>4, <3>5, <3>6, RemoveSelfWhole
    <2> HIDE DEF h, l
    <2> QED BY <2>1, <2>2, <2>3 DEF Ready
  <1>11. CASE ParseBrace(f)
    <2> DEFINE h == SetQuantifier(AddNode(re), n, f.min, f.max)
    <2>1. f.min \in Nat /\ f.max \in Nat
      BY <1>1, <1>11, FragmentFields DEF ParseBrace
    <2>2. HasOperand(h, n) => Whole(Adopt(h, n))
      BY <1>4, <2>1
    <2>3. \/ HasOperand(h, n) /\ re' = Adopt(h, n) /\ pc' = "bar"
          \/ re' = h /\ pc' = "error"
      BY <1>11 DEF ParseBrace, Fail
    <2> HIDE DEF h
    <2> QED BY <1>5, <2>2, <2>3 DEF Ready
  <1>12. CASE ParseBar(f) \/ ParseClose(f)
    <2>1. re' = k /\ pc' \in {"bar", "close"}
      BY <1>12 DEF ParseBar, ParseClose
    <2> QED BY <1>3, <2>1 DEF Ready
  <1>13. CASE ParseMacro(f)
    <2>1. re' = RemoveSelf(k, n) /\ pc' \in {"parse", "error"}
      BY <1>1, <1>13 DEF ParseMacro, Fail
    <2> HIDE DEF k
    <2>2. Whole(re')
      BY <1>2, <1>3, <2>1, RemoveSelfWhole
    <2> QED BY <2>1, <2>2 DEF Ready
  <1>14. CASE ParseBad(f)
    BY <1>14 DEF ParseBad, Fail, Ready
  <1> QED BY <1>6, <1>7, <1>8, <1>9, <1>10, <1>11, <1>12, <1>13, <1>14 DEF Parse

(* What the hunts for '|' and ')' leave.                                   *)
LEMMA HuntReady ==
  ASSUME IInv, AllBefore(re), Hunt
  PROVE  Ready
  <1>1. HeapInv(re) /\ re.tail # re.head /\ pc \in {"bar", "close"}
    BY DEF IInv, HeapIInv, Hunt, BarBack, BarLiteral, BarSplit, CloseBack, CloseLiteral, CloseMatch
  <1>2. CASE BarBack \/ CloseBack
    <2>1. re' = re /\ pc' = pc
      BY <1>2 DEF BarBack, CloseBack
    <2> QED BY <1>1, <2>1 DEF Ready
  <1>3. CASE BarLiteral \/ CloseLiteral
    <2>1. /\ pc' = "parse"
          /\ re' = AddChar(re, re.tail, BarChar) \/ re' = AddChar(re, re.tail, ")")
      BY <1>3 DEF BarLiteral, CloseLiteral
    <2>2. BarChar \in Char /\ ")" \in Char
      BY CharAssumption DEF BarChar
    <2>3. Chained(re)
      BY DEF IInv, HeapIInv, Chained, Hunt, BarBack, BarLiteral, BarSplit, CloseBack, CloseLiteral,
             CloseMatch
    <2> QED BY <1>1, <2>1, <2>2, <2>3, AddCharWhole DEF Ready
  <1>4. CASE BarSplit
    <2>1. re' = Split(re, scan) /\ pc' = "parse" /\ re.size < MaxNodes /\ pc = "bar"
      BY <1>4 DEF BarSplit
    <2>2. PICK S : OpenChain(re, S) /\ scan \in S
      BY <2>1 DEF IInv, HeapIInv
    <2>3. scan # re.head
      BY <2>1 DEF IInv, HeapIInv
    <2>4. Whole(re')
      BY <1>1, <2>1, <2>2, <2>3, SplitWhole
    <2> QED BY <2>1, <2>4 DEF Ready
  <1>5. CASE CloseMatch
    <2>1. /\ re' = CloseGroup(re, scan) /\ pc' = "parse" /\ pc = "close"
          /\ scan # 0 /\ re.type[scan] = "T_GROUP_START"
      BY <1>5 DEF CloseMatch, NULL
    <2>2. PICK S : OpenChain(re, S) /\ scan \in S
      BY <2>1 DEF IInv, HeapIInv
    <2>3. scan # re.tail
      BY <2>1 DEF IInv, HeapIInv
    <2>4. re.next[scan] # 0
      BY <1>1, <2>1, <2>2, <2>3, CloseGroupInv
    <2>5. Whole(re')
      BY <1>1, <2>1, <2>2, <2>3, <2>4, CloseGroupWhole
    <2> QED BY <2>1, <2>5 DEF Ready
  <1> QED BY <1>2, <1>3, <1>4, <1>5 DEF Hunt

-----------------------------------------------------------------------------
(* Only the end of a pattern moves re->head.                               *)
Headed(h, g) == DOMAIN g = DOMAIN h /\ g.head = h.head

LEMMA HeadKept ==
  ASSUME NEW h, "head" \in DOMAIN h, NEW n
  PROVE  /\ Headed(h, AddNode(h)) /\ Headed(h, Terminate(h, n)) /\ Headed(h, RemoveSelf(h, n))
         /\ \A t, d : Headed(h, Label(h, n, t, d))
         /\ \A c : Headed(h, AddChar(h, n, c))
         /\ Headed(h, SetLazy(h, n)) /\ Headed(h, Adopt(h, n))
         /\ Headed(h, Split(h, n)) /\ Headed(h, CloseGroup(h, n))
  <1>1. Headed(h, AddNode(h))
    BY DEF Headed, AddNode
  <1>2. Headed(h, Terminate(h, n))
    BY DEF Headed, Terminate
  <1>3. Headed(h, RemoveSelf(h, n))
    BY DEF Headed, RemoveSelf
  <1>4. \A t, d : Headed(h, Label(h, n, t, d))
    BY DEF Headed, Label
  <1>5. \A c : Headed(h, AddChar(h, n, c))
    BY DEF Headed, AddChar, RemoveSelf
  <1>6. Headed(h, SetLazy(h, n))
    BY DEF Headed, SetLazy
  <1>7. Headed(h, Adopt(h, n))
    BY DEF Headed, Adopt, Terminate
  <1>8. Headed(h, Split(h, n))
    BY DEF Headed, Split, AddNode
  <1>9. Headed(h, CloseGroup(h, n))
    BY DEF Headed, CloseGroup
  <1> QED BY <1>1, <1>2, <1>3, <1>4, <1>5, <1>6, <1>7, <1>8, <1>9

(* The steps other than EndPattern, one kind after the other.              *)
LEMMA StepHead ==
  ASSUME IInv, [Next]_vars, ~EndPattern
  PROVE  re'.head = re.head /\ patterns' = patterns
  <1>0. "head" \in DOMAIN re
    BY DEF IInv, HeapIInv, HeapType
  <1> DEFINE k == AddNode(re)
             n == re.size + 1
  <1>1. Headed(re, k)
    BY <1>0, HeadKept
  <1>2. \A g : Headed(k, g) => Headed(re, g)
    BY <1>1 DEF Headed
  <1>3. "head" \in DOMAIN k
    BY <1>0, <1>1 DEF Headed
  <1>4. ASSUME NEW min, NEW max, NEW h, h = SetQuantifier(k, n, min, max)
        PROVE  Headed(re, h) /\ Headed(re, Adopt(h, n))
    <2> HIDE DEF k
    <2>1. Headed(k, h)
      BY <1>3, <1>4, HeadKept DEF SetQuantifier
    <2>2. "head" \in DOMAIN h
      BY <1>3, <2>1 DEF Headed
    <2>3. Headed(h, Adopt(h, n))
      BY <2>2, HeadKept
    <2> QED BY <1>2, <2>1, <2>3 DEF Headed
  <1>5. ASSUME NEW f \in Fragments \cup {RBrace} \cup MacroFragments, Parse(f)
        PROVE  Headed(re, re') /\ patterns' = patterns
    <2>1. patterns' = patterns
      BY <1>5 DEF Parse, ParseAtom, ParseChar, ParseOpen, ParseQuantifier, ParseQuestion,
             ParseBrace, ParseBar, ParseClose, ParseMacro, ParseBad, Read
    <2>2. CASE ParseAtom(f) \/ ParseOpen(f) \/ ParseBad(f)
      <3>1. \E t, d : re' = Label(k, n, t, d)
        BY <2>2 DEF ParseAtom, ParseOpen, ParseBad
      <3> HIDE DEF k
      <3> QED BY <1>2, <1>3, <2>1, <3>1, HeadKept
    <2>3. CASE ParseChar(f) \/ ParseMacro(f)
      <3>1. re' = AddChar(k, n, f.c) \/ re' = RemoveSelf(k, n)
        BY <2>3 DEF ParseChar, ParseMacro
      <3> HIDE DEF k
      <3> QED BY <1>2, <1>3, <2>1, <3>1, HeadKept
    <2>4. CASE ParseQuantifier(f) \/ ParseBrace(f)
      <3>1. \E h : h = SetQuantifier(k, n, f.min, f.max) /\ (re' = h \/ re' = Adopt(h, n))
        BY <2>4 DEF ParseQuantifier, ParseBrace
      <3> HIDE DEF k
      <3> QED BY <1>4, <2>1, <3>1
    <2>5. CASE ParseQuestion(f)
      <3>1. \/ \E h : h = SetQuantifier(k, n, 0, 1) /\ (re' = h \/ re' = Adopt(h, n))
            \/ re' = RemoveSelf(SetLazy(k, k.prev[n]), n)
        BY <2>5 DEF ParseQuestion
      <3> DEFINE l == SetLazy(k, k.prev[n])
      <3>2. Headed(k, l)
        <4> HIDE DEF k
        <4> QED BY <1>3, HeadKept
      <3>3. Headed(l, RemoveSelf(l, n))
        <4>1. "head" \in DOMAIN l
          BY <1>3, <3>2 DEF Headed
        <4> HIDE DEF l
        <4> QED BY <4>1, HeadKept
      <3> HIDE DEF k, l
      <3> QED BY <1>2, <1>4, <2>1, <3>1, <3>2, <3>3 DEF Headed, l
    <2>6. CASE ParseBar(f) \/ ParseClose(f)
      BY <1>1, <2>1, <2>6 DEF ParseBar, ParseClose
    <2> QED BY <1>5, <2>2, <2>3, <2>4, <2>5, <2>6 DEF Parse
  <1>6. CASE Hunt
    <2>1. patterns' = patterns
      BY <1>6 DEF Hunt, BarBack, BarLiteral, BarSplit, CloseBack, CloseLiteral, CloseMatch
    <2>2. \/ re' = re \/ re' = AddChar(re, re.tail, BarChar) \/ re' = AddChar(re, re.tail, ")")
          \/ re' = Split(re, scan) \/ re' = CloseGroup(re, scan)
      BY <1>6 DEF Hunt, BarBack, BarLiteral, BarSplit, CloseBack, CloseLiteral, CloseMatch
    <2>3. /\ \A c : Headed(re, AddChar(re, re.tail, c))
          /\ Headed(re, Split(re, scan)) /\ Headed(re, CloseGroup(re, scan))
      BY <1>0, HeadKept
    <2>4. Headed(re, re)
      BY DEF Headed
    <2>5. Headed(re, re')
      <3>1. CASE re' = re
        BY <2>4, <3>1
      <3>2. CASE re' = AddChar(re, re.tail, BarChar) \/ re' = AddChar(re, re.tail, ")")
        BY <2>3, <3>2
      <3>3. CASE re' = Split(re, scan) \/ re' = CloseGroup(re, scan)
        BY <2>3, <3>3
      <3> QED BY <2>2, <3>1, <3>2, <3>3
    <2> QED BY <2>1, <2>5 DEF Headed
  <1>7. CASE FreeNode
    BY <1>0, <1>7 DEF FreeNode
  <1>8. CASE re' = re /\ patterns' = patterns
    BY <1>8
  <1> QED BY <1>5, <1>6, <1>7, <1>8
          DEF Headed, Next, vars, AddMacro, BeginPattern, EndMacro, BeginFree, EndFree

-----------------------------------------------------------------------------
(* Between calls the open chain is a root on its own, and a pattern hangs  *)
(* below a root of its own, which no later call touches.                   *)
RootsKept ==
  \A i \in DOMAIN patterns :
    /\ patterns[i] \in Live(re) /\ patterns[i] < re.head
    /\ re.type[patterns[i]] = "T_ROOT"

BuildInv ==
  /\ pc \notin {"freeing", "freed"} => RootsKept
  /\ pc = "idle" => re.tail = re.head
  /\ ~ReuseAfterError =>
       /\ pc \in {"idle", "parse"} => Whole(re)
       /\ pc \in {"bar", "close"} => AllBefore(re)

(* The invariant holds of a new object, and every step keeps it.           *)
LEMMA InitBuild == Init => BuildInv
  <1> SUFFICES ASSUME Init PROVE BuildInv
    OBVIOUS
  <1>1. /\ re = NewHeap /\ patterns = <<>> /\ pc = "idle"
    BY DEF Init
  <1>2. /\ re.size = 1 /\ re.freed = {} /\ re.head = 1 /\ re.tail = 1
        /\ 1 \in Node /\ re.type[1] = "T_ROOT" /\ re.next[1] = 0
    BY <1>1, BoundAssumption DEF NewHeap, Node, NULL
  <1>3. Live(re) = {1}
    BY <1>2 DEF Live
  <1>4. Ordered(re)
    <2>1. Ascends(re, [m \in 1 .. 1 |-> 1])
      BY <1>2, <1>3 DEF Ascends, LinksTo, Composite
    <2>2. [m \in 1 .. 1 |-> 1] \in [1 .. re.size -> 1 .. re.size]
      BY <1>2
    <2> QED BY <2>1, <2>2 DEF Ordered
  <1>5. Whole(re)
    BY <1>2, <1>3, <1>4 DEF Whole, Complete, Composite
  <1> QED BY <1>1, <1>2, <1>5 DEF BuildInv, RootsKept

LEMMA RootsStep ==
  ASSUME IInv, [Next]_vars, RootsKept, pc \notin {"freeing", "freed"}
  PROVE  pc' \notin {"freeing", "freed"} => RootsKept'
  <1> SUFFICES ASSUME pc' \notin {"freeing", "freed"} PROVE RootsKept'
    OBVIOUS
  <1>1. re \in HeapType /\ re' \in HeapType /\ patterns \in Seq(Node)
    BY HeapStep DEF IInv, HeapIInv, ControlType
  <1>2. SameBelow(re, re')
    BY HeapStep
  <1>3. HeapInv(re) /\ HeapInv(re')
    <2>1. HeapInv(re)
      BY DEF IInv, HeapIInv, Chained, ControlType
    <2>2. IInv'
      BY HeapStep, ControlStep DEF IInv
    <2>3. HeapInv(re')
      BY <2>2 DEF IInv, HeapIInv, Chained, ControlType
    <2> QED BY <2>1, <2>3
  <1>4. /\ re.head \in Live(re) /\ re.type[re.head] = "T_ROOT" /\ re.head \in Nat
        /\ re'.head \in Live(re') /\ re'.head \in Nat
    BY <1>1, <1>3, FieldTypes DEF HeapInv, EndsValid
  <1>5. CASE ~EndPattern
    <2>1. re'.head = re.head /\ patterns' = patterns
      BY <1>5, StepHead
    <2> SUFFICES ASSUME NEW i \in DOMAIN patterns
                 PROVE  /\ patterns[i] \in Live(re') /\ patterns[i] < re.head
                        /\ re'.type[patterns[i]] = "T_ROOT"
      BY <2>1 DEF RootsKept
    <2>2. patterns[i] \in Live(re) /\ patterns[i] < re.head /\ re.type[patterns[i]] = "T_ROOT"
      BY DEF RootsKept
    <2>3. re.size \in Nat /\ re'.size \in Nat
      BY <1>1, FieldTypes
    <2>4. patterns[i] \in 1 .. re.head - 1
      BY <1>4, <2>2, <2>3 DEF Live
    <2>5. re'.type[patterns[i]] = "T_ROOT" /\ patterns[i] \notin re'.freed
      BY <1>2, <2>2, <2>4 DEF SameBelow, Live
    <2>6. patterns[i] \in 1 .. re'.size
      BY <1>4, <2>1, <2>3, <2>4 DEF Live
    <2> QED BY <2>2, <2>5, <2>6 DEF Live
  <1>6. CASE EndPattern
    <2> DEFINE t == Terminate(re, re.tail)
    <2>1. patterns' = Append(patterns, re.head) /\ re' = AddRoot(t) /\ re.size + 2 <= MaxNodes
      BY <1>6 DEF EndPattern
    <2>2. /\ re.size \in Nat /\ re.tail \in Node /\ MaxNodes \in Nat /\ re.size < MaxNodes
          /\ re.type \in [Node -> NodeType]
      BY <1>1, <2>1, FieldTypes, BoundAssumption
    <2>3. /\ t \in HeapType /\ t.size = re.size + 1 /\ t.freed = re.freed
          /\ t.type = [re.type EXCEPT ![re.size + 1] = "T_TRUE"]
      <3>1. LET g == t
            IN  /\ g \in HeapType /\ re.size + 1 \in Node
                /\ g.size = re.size + 1 /\ g.freed = re.freed
                /\ g.head = re.head /\ g.tail = re.tail
                /\ g.data = re.data /\ g.child = re.child
                /\ g.type = [re.type EXCEPT ![re.size + 1] = "T_TRUE"]
                /\ g.prev = [re.prev EXCEPT ![re.size + 1] = re.tail]
                /\ g.next = [re.next EXCEPT ![re.tail] = re.size + 1]
        BY <1>1, <2>2, TerminateFields
      <3> HIDE DEF t
      <3> QED BY <3>1
    <2> HIDE DEF t
    <2>4. t.size < MaxNodes
      BY <2>1, <2>2, <2>3
    <2>5. /\ re'.size = t.size + 1 /\ re'.freed = t.freed /\ re'.head = t.size + 1
          /\ re'.type = [t.type EXCEPT ![t.size + 1] = "T_ROOT"]
      BY <2>1, <2>3, <2>4, AddRootFields
    <2>6. /\ re'.size = re.size + 2 /\ re'.freed = re.freed /\ re'.head = re.size + 2
          /\ \A m \in Live(re) : re'.type[m] = re.type[m] /\ m \in Live(re') /\ m < re'.head
      <3>1. re'.size = re.size + 2 /\ re'.freed = re.freed /\ re'.head = re.size + 2
        BY <2>2, <2>3, <2>5
      <3>2. \A m \in Live(re) : m \in Node /\ m < re.size + 1
        <4>1. Live(re) \subseteq 1 .. re.size /\ 1 .. re.size \subseteq Node
          BY <1>1, FieldTypes DEF Live
        <4> QED BY <2>2, <4>1
      <3>3. \A m \in Live(re) : re'.type[m] = re.type[m]
        BY <2>2, <2>3, <2>5, <3>2
      <3>4. \A m \in Live(re) : m \in Live(re') /\ m < re'.head
        BY <2>2, <3>1 DEF Live
      <3> QED BY <3>1, <3>3, <3>4
    <2>7. ASSUME NEW i \in DOMAIN patterns'
          PROVE  patterns'[i] \in Live(re) /\ re.type[patterns'[i]] = "T_ROOT"
      <3>1. re.head \in Node
        BY <1>1, FieldTypes
      <3>2. (i \in DOMAIN patterns /\ patterns'[i] = patterns[i]) \/ patterns'[i] = re.head
        BY <1>1, <2>1, <2>7, <3>1, AppendProperties, LenProperties
      <3> QED BY <1>4, <3>2 DEF RootsKept
    <2> QED BY <2>6, <2>7 DEF RootsKept
  <1> QED BY <1>5, <1>6

LEMMA BuildStep == IInv /\ BuildInv /\ [Next]_vars => BuildInv'
  <1> SUFFICES ASSUME IInv, BuildInv, [Next]_vars PROVE BuildInv'
    OBVIOUS
  <1>1. re \in HeapType
    BY DEF IInv, HeapIInv
  <1>2. pc' \notin {"freeing", "freed"} => pc \notin {"freeing", "freed"}
    BY DEF Next, vars, AddMacro, BeginPattern, Callable, Parse, ParseAtom, ParseChar, ParseOpen,
           ParseQuantifier, ParseQuestion, ParseBrace, ParseBar, ParseClose, ParseMacro,
           ParseBad, Read, Readable, Hunt, BarBack, BarLiteral, BarSplit, CloseBack, CloseLiteral,
           CloseMatch, EndMacro, EndPattern, BeginFree, FreeNode, EndFree
  <1>3. pc' \notin {"freeing", "freed"} => RootsKept'
    BY <1>2, RootsStep DEF BuildInv
  <1>4. CASE EndPattern
    <2> DEFINE t == Terminate(re, re.tail)
    <2>1. /\ re' = AddRoot(t) /\ re.size + 2 <= MaxNodes /\ pc = "parse" /\ pc' = "idle"
          /\ Chained(re)
      BY <1>4 DEF EndPattern, IInv, HeapIInv
    <2>2. re'.tail = re'.head
      <3>1. "head" \in DOMAIN re /\ "tail" \in DOMAIN re
        BY <1>1 DEF HeapType
      <3>2. DOMAIN t = DOMAIN re
        BY DEF Terminate
      <3> HIDE DEF t
      <3> QED BY <2>1, <3>1, <3>2 DEF AddRoot
    <2>3. ~ReuseAfterError => Whole(re')
      BY <2>1, EndWhole DEF BuildInv
    <2> QED BY <1>3, <2>1, <2>2, <2>3 DEF BuildInv
  <1>5. ASSUME NEW f \in Fragments \cup {RBrace} \cup MacroFragments, Parse(f) PROVE BuildInv'
    <2>1. pc = "parse"
      BY <1>5 DEF Parse, ParseAtom, ParseChar, ParseOpen, ParseQuantifier, ParseQuestion,
             ParseBrace, ParseBar, ParseClose, ParseMacro, ParseBad, Read, Readable
    <2>2. pc' # "idle"
      BY <1>5, <2>1 DEF Parse, ParseAtom, ParseChar, ParseOpen, ParseQuantifier, ParseQuestion,
             ParseBrace, ParseBar, ParseClose, ParseMacro, ParseBad, Continue, Fail
    <2>3. ~ReuseAfterError => Ready
      BY <1>5, <2>1, ParseReady DEF BuildInv
    <2> QED BY <1>3, <2>2, <2>3 DEF BuildInv, Ready
  <1>6. CASE Hunt
    <2>1. pc \in {"bar", "close"} /\ pc' # "idle"
      BY <1>6 DEF Hunt, BarBack, BarLiteral, BarSplit, CloseBack, CloseLiteral, CloseMatch
    <2>2. ~ReuseAfterError => Ready
      BY <1>6, <2>1, HuntReady DEF BuildInv
    <2> QED BY <1>3, <2>1, <2>2 DEF BuildInv, Ready
  <1>7. CASE re' = re /\ pc' = pc
    BY <1>3, <1>7 DEF BuildInv
  <1>8. CASE BeginPattern
    BY <1>3, <1>8 DEF BeginPattern, Callable, BuildInv
  <1>9. CASE BeginFree \/ FreeNode \/ EndFree
    BY <1>3, <1>9 DEF BeginFree, FreeNode, EndFree, BuildInv
  <1> QED BY <1>4, <1>5, <1>6, <1>7, <1>8, <1>9
          DEF Next, vars, AddMacro, EndMacro

LEMMA InductiveBuild == Spec => [](IInv /\ BuildInv)
  <1> QED BY InitBuild, BuildStep, Inductive, PTL DEF Spec

(* What is found of a pattern: an ordered part of the heap, without the    *)
(* root that waits for the next pattern.                                   *)
LEMMA CompiledDescends ==
  ASSUME ~ReuseAfterError, IInv, BuildInv, NEW n \in Compiled
  PROVE  \E S \in SUBSET (Live(re) \cap (Pointer(Built) \ {0})) :
           \E pos \in [S -> 1 .. Built.size] : n \in S /\ Descent(Built, S, pos)
  <1> DEFINE h == Built
             S == Live(re) \ {re.tail}
  <1>1. TypeOK
    BY DEF TypeOK, IInv, HeapIInv
  <1>2. /\ Shape(h) /\ h.size = re.size /\ h.type = re.type
        /\ h.next = re.next /\ h.child = re.child /\ Pointer(h) = 0 .. MaxNodes
    BY <1>1, BuiltShape
  <1> HIDE DEF h
  <1>3. pc = "idle" /\ \E i \in DOMAIN patterns : n = re.next[patterns[i]]
    BY DEF Compiled, Pattern
  <1>4. HeapInv(re) /\ Whole(re) /\ RootsKept /\ re.tail = re.head
    BY <1>3 DEF IInv, HeapIInv, Chained, BuildInv
  <1>5. /\ re \in HeapType /\ re.size \in Nat /\ re.type \in [Node -> NodeType]
        /\ re.next \in [Node -> Node \cup {0}] /\ re.child \in [Node -> Node \cup {0}]
        /\ Node \subseteq Nat \ {0} /\ Live(re) \subseteq Node /\ Live(re) \subseteq 1 .. re.size
        /\ re.head \in Live(re) /\ re.type[re.head] = "T_ROOT" /\ re.prev[re.head] = 0
    BY <1>4, FieldTypes DEF HeapInv, EndsValid, Live, NULL
  <1>6. ASSUME NEW m \in S, re.type[m] # "T_TRUE" PROVE re.next[m] \in S
    <2>1. re.next[m] # 0
      BY <1>4, <1>6 DEF HeapInv, ChainsTerminated, NULL
    <2>2. re.next[m] \in Live(re) /\ re.prev[re.next[m]] = m
      BY <1>4, <2>1 DEF HeapInv, LinksAgree, NULL
    <2> QED BY <1>4, <1>5, <2>2
  <1>7. ASSUME NEW m \in S, re.type[m] \in Composite PROVE re.child[m] \in S
    <2>1. re.child[m] # 0
      BY <1>4, <1>7 DEF Whole, Complete
    <2>2. re.child[m] \in Node
      BY <1>5, <2>1
    <2>3. re.child[m] \in Live(re) /\ re.type[re.child[m]] # "T_ROOT"
      BY <1>4, <1>7, <2>2 DEF HeapInv, NeverShared, Owns
    <2> QED BY <1>4, <1>5, <2>3
  <1>8. n \in S
    <2>1. PICK i \in DOMAIN patterns : n = re.next[patterns[i]]
      BY <1>3
    <2>2. patterns[i] \in Live(re) /\ patterns[i] < re.head /\ re.type[patterns[i]] = "T_ROOT"
      BY <1>4 DEF RootsKept
    <2>3. patterns[i] \in S
      BY <1>4, <1>5, <2>2
    <2> QED BY <1>6, <2>1, <2>2, <2>3
  <1>9. PICK place \in [1 .. re.size -> 1 .. re.size] : Ascends(re, place)
    BY <1>4 DEF Whole, Ordered
  <1> DEFINE pos == [m \in S |-> place[m]]
  <1>10. pos \in [S -> 1 .. h.size] /\ S \in SUBSET (Pointer(h) \ {0})
    <2>1. \A m \in S : place[m] \in 1 .. re.size
      BY <1>5, <1>9
    <2>2. S \subseteq 1 .. MaxNodes
      BY <1>5 DEF Node
    <2> QED BY <1>2, <2>1, <2>2
  <1>11. Descent(h, S, pos)
    <2> SUFFICES ASSUME NEW m \in S
                 PROVE  /\ h.type[m] \in Known \cup {"T_GROUP_START"}
                        /\ h.type[m] # "T_TRUE" => h.next[m] \in S /\ pos[m] < pos[h.next[m]]
                        /\ h.type[m] \in Branching => h.child[m] \in S /\ pos[m] < pos[h.child[m]]
      BY DEF Descent
    <2>1. h.type[m] \in Known \cup {"T_GROUP_START"}
      <3>1. re.type[m] \in NodeType /\ re.type[m] # "T_UNKNOWN"
        BY <1>4, <1>5 DEF Whole, Complete
      <3> QED BY <1>2, <3>1 DEF NodeType, AtomType, Composite, Known, Single, Branching
    <2>2. \A b \in S : LinksTo(re, m, b) => pos[m] < pos[b]
      BY <1>5, <1>9 DEF Ascends
    <2>3. h.type[m] # "T_TRUE" => h.next[m] \in S /\ pos[m] < pos[h.next[m]]
      <3> HIDE DEF pos, S
      <3> QED BY <1>2, <1>6, <2>2 DEF LinksTo
    <2>4. h.type[m] \in Branching => h.child[m] \in S /\ pos[m] < pos[h.child[m]]
      <3> HIDE DEF pos, S
      <3> QED BY <1>2, <1>7, <2>2 DEF LinksTo, Branching, Composite
    <2> QED BY <2>1, <2>3, <2>4
  <1> HIDE DEF pos, S
  <1>12. S \in SUBSET (Live(re) \cap (Pointer(h) \ {0}))
    BY <1>10 DEF S
  <1> QED BY <1>8, <1>10, <1>11, <1>12 DEF h

(* ClosedNeverAborts: as long as the caller gives an object up after an    *)
(* error, regexx_match comes upon no node that it does not know, and upon  *)
(* no chain that just ends, in any pattern whose groups are closed.        *)
THEOREM NeverAborts ==
  ASSUME ~ReuseAfterError
  PROVE  Spec => []ClosedNeverAborts
  <1>1. IInv /\ BuildInv => ClosedNeverAborts
    <2> SUFFICES ASSUME IInv, BuildInv, NEW n \in Compiled,
                        \A m \in Nodes(Built, n) : re.type[m] # "T_GROUP_START",
                        NEW text \in Texts, NEW o \in Offsets(text)
                 PROVE  Eval(Built, text, n, o) # Abort
      BY DEF ClosedNeverAborts
    <2> DEFINE h == Built
               k == h.size
    <2>1. TypeOK
      BY DEF TypeOK, IInv, HeapIInv
    <2>2. Shape(h) /\ Len(text) \in Nat /\ h.type = re.type
      BY <2>1, BuiltShape
    <2>3. \E S \in SUBSET (Live(re) \cap (Pointer(h) \ {0})) :
            \E pos \in [S -> 1 .. h.size] : n \in S /\ Descent(h, S, pos)
      BY CompiledDescends
    <2> HIDE DEF h
    <2>4. PICK S \in SUBSET (Live(re) \cap (Pointer(h) \ {0})) :
            \E pos \in [S -> 1 .. h.size] : n \in S /\ Descent(h, S, pos)
      BY <2>3
    <2>5. PICK pos \in [S -> 1 .. h.size] : n \in S /\ Descent(h, S, pos)
      BY <2>4
    <2>6. \A m \in NodesTable(h)[k][n] : h.type[m] # "T_GROUP_START"
      BY <2>2 DEF Nodes, h
    <2>7. k \in 0 .. h.size /\ h.size < pos[n] + k
      <3>1. pos[n] \in 1 .. h.size
        BY <2>5
      <3> QED BY <2>2, <3>1 DEF Shape
    <2>8. S \in SUBSET (Pointer(h) \ {0})
      OBVIOUS
    <2> HIDE DEF k
    <2>9. Calls(h, text)[k][n][o] # Abort
      BY <2>2, <2>5, <2>6, <2>7, <2>8, CallsKnow
    <2> QED BY <2>9 DEF Eval, h, k
  <1> QED BY <1>1, InductiveBuild, PTL

-----------------------------------------------------------------------------
(* Where a branch point stands: no chain goes on to a root, only a root or *)
(* an open group goes on to an alternation, and a quantifier's operand is  *)
(* a node with nothing but a T_TRUE behind it.                             *)
Opening == {"T_ALTERNATION", "T_ROOT"}
LinkPlaced(h, n) ==
  h.next[n] # 0 => /\ h.type[h.next[n]] # "T_ROOT"
                   /\ h.type[h.next[n]] = "T_ALTERNATION" => h.type[n] \in {"T_ROOT", "T_GROUP_START"}
OperandAlone(h, n) ==
  h.type[n] = "T_QUANTIFIER" /\ h.child[n] # 0 =>
    h.next[h.child[n]] # 0 /\ h.type[h.next[h.child[n]]] = "T_TRUE"
Placed(h) == \A n \in Live(h) : LinkPlaced(h, n) /\ OperandAlone(h, n)

(* An operand and what is behind it are not on the open chain.             *)
LEMMA OperandAside ==
  ASSUME NEW h, HeapInv(h), NEW S, OpenChain(h, S), NEW n \in Live(h),
         OperandAlone(h, n), h.type[n] = "T_QUANTIFIER", h.child[n] # 0
  PROVE  LET c == h.child[n]
         IN  c \in Live(h) \ S /\ h.next[c] \in Live(h) \ S /\ h.type[h.next[c]] = "T_TRUE"
  <1> DEFINE c == h.child[n]
             b == h.next[c]
  <1>1. /\ h \in HeapType /\ Live(h) \subseteq Node /\ 0 \notin Node
        /\ h.child \in [Node -> Node \cup {0}]
    BY FieldTypes DEF HeapInv, Live
  <1>2. c \in Live(h) /\ h.prev[c] = 0 /\ h.type[c] # "T_ROOT"
    <2>1. c \in Node /\ h.type[n] \in Composite
      BY <1>1 DEF Composite
    <2> HIDE DEF c
    <2> QED BY <2>1 DEF HeapInv, NeverShared, Owns, c, NULL
  <1>3. b # 0 /\ h.type[b] = "T_TRUE"
    BY DEF OperandAlone
  <1>4. b \in Live(h) /\ h.prev[b] = c
    BY <1>2, <1>3 DEF HeapInv, LinksAgree, NULL
  <1>5. S \subseteq Live(h) /\ \A m \in S : m # h.head => h.prev[m] \in S
    BY DEF OpenChain
  <1>6. h.type[h.head] = "T_ROOT" /\ h.prev[h.head] = 0
    BY DEF HeapInv, EndsValid, NULL
  <1>7. c \notin S
    BY <1>1, <1>2, <1>5, <1>6
  <1>8. b \notin S
    BY <1>1, <1>2, <1>4, <1>5, <1>6, <1>7
  <1> QED BY <1>2, <1>3, <1>4, <1>7, <1>8

(* A surgery that changes the nodes in C, all on the open chain or new.    *)
LEMMA PlacedKept ==
  ASSUME NEW h, HeapInv(h), Placed(h), NEW S, OpenChain(h, S), NEW g, NEW C,
         C \cap Live(h) \subseteq S, Live(g) \ C \subseteq Live(h),
         \A m \in Live(h) \ C :
           g.type[m] = h.type[m] /\ g.next[m] = h.next[m] /\ g.child[m] = h.child[m],
         \A m \in Live(h) : g.type[m] = h.type[m] \/ g.type[m] \notin Opening,
         \A m \in Live(g) \cap C :
           /\ LinkPlaced(g, m)
           /\ \/ g.type[m] # "T_QUANTIFIER"
              \/ m \in Live(h) /\ g.type[m] = h.type[m] /\ g.child[m] = h.child[m]
              \/ OperandAlone(g, m)
  PROVE  Placed(g)
  <1>1. ASSUME NEW n \in Live(h), g.type[n] = h.type[n], g.child[n] = h.child[n]
        PROVE  OperandAlone(g, n)
    <2> SUFFICES ASSUME h.type[n] = "T_QUANTIFIER", h.child[n] # 0
                 PROVE  g.next[h.child[n]] # 0 /\ g.type[g.next[h.child[n]]] = "T_TRUE"
      BY <1>1 DEF OperandAlone
    <2> DEFINE c == h.child[n]
    <2>1. c \in Live(h) \ S /\ h.next[c] \in Live(h) \ S /\ h.type[h.next[c]] = "T_TRUE"
      BY OperandAside DEF Placed
    <2>2. h.next[c] # 0
      BY <2>1 DEF Placed, OperandAlone
    <2> HIDE DEF c
    <2>3. c \in Live(h) \ C /\ h.next[c] \in Live(h) \ C
      BY <2>1
    <2>4. g.next[c] = h.next[c] /\ g.type[h.next[c]] = h.type[h.next[c]]
      BY <2>3
    <2> QED BY <2>1, <2>2, <2>4 DEF c
  <1>2. ASSUME NEW n \in Live(g) \ C PROVE LinkPlaced(g, n) /\ OperandAlone(g, n)
    <2>1. n \in Live(h) /\ g.type[n] = h.type[n] /\ g.next[n] = h.next[n] /\ g.child[n] = h.child[n]
      BY <1>2
    <2>2. LinkPlaced(h, n)
      BY <2>1 DEF Placed
    <2>3. h.next[n] # 0 => h.next[n] \in Live(h)
      BY <2>1 DEF HeapInv, LinksAgree, NULL
    <2>4. LinkPlaced(g, n)
      BY <2>1, <2>2, <2>3 DEF LinkPlaced, Opening
    <2> QED BY <1>1, <2>1, <2>4
  <1>3. ASSUME NEW n \in Live(g) \cap C PROVE LinkPlaced(g, n) /\ OperandAlone(g, n)
    BY <1>1, <1>3 DEF OperandAlone
  <1> QED BY <1>2, <1>3 DEF Placed

LEMMA AddNodePlaced ==
  ASSUME NEW h, Chained(h), Placed(h), h.size < MaxNodes
  PROVE  Placed(AddNode(h))
  <1> DEFINE g == AddNode(h)
             n == h.size + 1
             C == {h.tail, n}
  <1>1. /\ h \in HeapType /\ h.size \in Nat /\ Live(h) \subseteq Node /\ 0 \notin Node
        /\ Live(h) \subseteq 1 .. h.size /\ h.tail \in Live(h) /\ h.tail \in Node
    BY TailFacts
  <1>2. /\ n \in Node /\ g.size = n /\ g.freed = h.freed
        /\ g.type = h.type /\ g.child = h.child
        /\ g.next = [h.next EXCEPT ![h.tail] = n]
    BY <1>1, AddNodeFields
  <1>3. /\ h.next \in [Node -> Node \cup {0}] /\ h.next[n] = 0 /\ h.type[n] = "T_UNKNOWN"
    <2>1. Fresh(h)
      BY DEF Chained, HeapInv
    <2> QED BY <1>1, <1>2, <2>1, FieldTypes DEF Fresh, NULL
  <1> HIDE DEF g
  <1>4. Live(g) \subseteq Live(h) \cup {n} /\ n \notin Live(h) /\ n # h.tail
    BY <1>1, <1>2 DEF Live
  <1>5. PICK S : OpenChain(h, S)
    BY DEF Chained
  <1>6. C \cap Live(h) \subseteq S /\ Live(g) \ C \subseteq Live(h)
    BY <1>4, <1>5 DEF OpenChain
  <1>7. \A m \in Live(h) \ C :
           g.type[m] = h.type[m] /\ g.next[m] = h.next[m] /\ g.child[m] = h.child[m]
    BY <1>1, <1>2, <1>3
  <1>8. ASSUME NEW m \in Live(g) \cap C
        PROVE  /\ LinkPlaced(g, m)
               /\ \/ g.type[m] # "T_QUANTIFIER"
                  \/ m \in Live(h) /\ g.type[m] = h.type[m] /\ g.child[m] = h.child[m]
                  \/ OperandAlone(g, m)
    <2>1. CASE m = n
      BY <1>1, <1>2, <1>3, <1>4, <2>1 DEF LinkPlaced
    <2>2. CASE m = h.tail
      <3>1. g.next[m] = n
        BY <1>1, <1>2, <1>3, <2>2
      <3> QED BY <1>1, <1>2, <1>3, <2>2, <3>1 DEF LinkPlaced
    <2> QED BY <2>1, <2>2
  <1>9. HeapInv(h) /\ \A m \in Live(h) : g.type[m] = h.type[m]
    BY <1>2 DEF Chained
  <1> HIDE DEF C
  <1>10. Placed(g)
    BY <1>5, <1>6, <1>7, <1>8, <1>9, PlacedKept
  <1> QED BY <1>10 DEF g

LEMMA LabelPlaced ==
  ASSUME NEW h, Chained(h), Placed(h), NEW n, n = h.tail, h.child[n] = 0,
         NEW ty \in NodeType, ty \notin Opening, NEW d \in DataType, NEW g, g = Label(h, n, ty, d)
  PROVE  Placed(g)
  <1> DEFINE C == {n}
  <1>1. /\ h \in HeapType /\ Live(h) \subseteq Node /\ n \in Live(h) /\ n \in Node /\ h.next[n] = 0
    BY TailFacts
  <1>2. /\ g.size = h.size /\ g.freed = h.freed
        /\ g.next = h.next /\ g.child = h.child
        /\ g.type = [h.type EXCEPT ![n] = ty]
    <2>1. /\ g.size = h.size /\ g.freed = h.freed
          /\ g.next = h.next /\ g.prev = h.prev /\ g.child = h.child
          /\ g.type = [h.type EXCEPT ![n] = ty]
      BY <1>1 DEF Label, HeapType
    <2> QED BY <2>1
  <1>3. h.type \in [Node -> NodeType] /\ Live(g) = Live(h)
    BY <1>1, <1>2, FieldTypes DEF Live
  <1>4. g.type[n] = ty /\ \A m \in Node : m # n => g.type[m] = h.type[m]
    BY <1>1, <1>2, <1>3
  <1>5. PICK S : OpenChain(h, S)
    BY DEF Chained
  <1>6. HeapInv(h) /\ C \cap Live(h) \subseteq S /\ Live(g) \ C \subseteq Live(h)
    BY <1>3, <1>5 DEF OpenChain, Chained
  <1>7. \A m \in Live(h) \ C :
           g.type[m] = h.type[m] /\ g.next[m] = h.next[m] /\ g.child[m] = h.child[m]
    BY <1>1, <1>2, <1>4
  <1>8. \A m \in Live(h) : g.type[m] = h.type[m] \/ g.type[m] \notin Opening
    BY <1>1, <1>4
  <1>9. \A m \in Live(g) \cap C : LinkPlaced(g, m) /\ OperandAlone(g, m)
    BY <1>1, <1>2 DEF LinkPlaced, OperandAlone
  <1> HIDE DEF C
  <1> QED BY <1>5, <1>6, <1>7, <1>8, <1>9, PlacedKept

LEMMA RemoveSelfPlaced ==
  ASSUME NEW h, Chained(h), Placed(h), NEW n, n = h.tail, n # h.head,
         NEW k, k \in HeapType, k.size = h.size, k.freed = h.freed, k.head = h.head,
         k.tail = h.tail, k.next = h.next, k.prev = h.prev, k.child = h.child, k.type = h.type
  PROVE  Placed(RemoveSelf(k, n))
  <1> DEFINE g == RemoveSelf(k, n)
             p == h.prev[n]
             C == {p, n}
  <1>1. /\ h \in HeapType /\ Live(h) \subseteq Node /\ 0 \notin Node
        /\ n \in Live(h) /\ n \in Node /\ p \in Live(h) /\ p \in Node
    BY TailFacts
  <1>2. /\ g.size = h.size /\ g.freed = h.freed \cup {n}
        /\ g.type = h.type /\ g.child = h.child
        /\ g.next = [h.next EXCEPT ![p] = 0]
    BY <1>1, RemoveSelfFields
  <1>3. h.next \in [Node -> Node \cup {0}]
    BY <1>1, FieldTypes
  <1> HIDE DEF g
  <1>4. Live(g) = Live(h) \ {n}
    BY <1>2 DEF Live
  <1>5. PICK S : OpenChain(h, S)
    BY DEF Chained
  <1>6. HeapInv(h) /\ C \cap Live(h) \subseteq S /\ Live(g) \ C \subseteq Live(h)
    BY <1>4, <1>5 DEF OpenChain, Chained
  <1>7. \A m \in Live(h) \ C :
           g.type[m] = h.type[m] /\ g.next[m] = h.next[m] /\ g.child[m] = h.child[m]
    BY <1>1, <1>2, <1>3
  <1>8. \A m \in Live(h) : g.type[m] = h.type[m]
    BY <1>2
  <1>9. \A m \in Live(g) \cap C :
          LinkPlaced(g, m) /\ m \in Live(h) /\ g.type[m] = h.type[m] /\ g.child[m] = h.child[m]
    BY <1>1, <1>2, <1>3, <1>4 DEF LinkPlaced
  <1> HIDE DEF C
  <1>10. Placed(g)
    BY <1>5, <1>6, <1>7, <1>8, <1>9, PlacedKept
  <1> QED BY <1>10 DEF g

LEMMA AddCharPlaced ==
  ASSUME NEW h, Chained(h), Placed(h), NEW n, n = h.tail, n # h.head,
         NEW c \in Char, NEW g, g = AddChar(h, n, c)
  PROVE  Placed(g)
  <1> DEFINE p == h.prev[n]
             C == {n}
  <1>1. /\ h \in HeapType /\ Live(h) \subseteq Node /\ 0 \notin Node /\ h.next[n] = 0
        /\ n \in Live(h) /\ n \in Node /\ p \in Live(h) /\ p \in Node
    BY TailFacts
  <1>2. CASE CanAppend(h, p)
    <2> DEFINE e == [h.data[p] EXCEPT !.str = Append(@, c)]
               k == [h EXCEPT !.data[p] = e]
    <2>1. e \in DataType
      <3>1. h.data[p] \in DataType
        BY <1>1 DEF HeapType
      <3>2. Append(h.data[p].str, c) \in Seq(Char)
        BY <3>1 DEF DataType
      <3> QED BY <3>1, <3>2 DEF DataType
    <2>2. g = RemoveSelf(k, n)
      BY <1>1, <1>2 DEF AddChar, HeapType
    <2> HIDE DEF e
    <2>3. k \in HeapType
      BY <1>1, <2>1, SetData
    <2>4. /\ k.size = h.size /\ k.freed = h.freed /\ k.head = h.head /\ k.tail = h.tail
          /\ k.next = h.next /\ k.prev = h.prev /\ k.child = h.child /\ k.type = h.type
      BY <1>1 DEF HeapType
    <2> HIDE DEF k
    <2> QED BY <2>2, <2>3, <2>4, RemoveSelfPlaced
  <1>3. CASE ~CanAppend(h, p)
    <2>1. /\ g.size = h.size /\ g.freed = h.freed /\ g.next = h.next
          /\ g.child = [h.child EXCEPT ![n] = 0]
          /\ g.type = [h.type EXCEPT ![n] = "T_STRING"]
      BY <1>1, <1>3 DEF AddChar, HeapType, NULL
    <2>2. /\ h.type \in [Node -> NodeType] /\ h.child \in [Node -> Node \cup {0}]
          /\ Live(g) = Live(h)
      BY <1>1, <2>1, FieldTypes DEF Live
    <2>3. /\ g.type[n] = "T_STRING"
          /\ \A m \in Node : m # n => g.type[m] = h.type[m] /\ g.child[m] = h.child[m]
      BY <1>1, <2>1, <2>2
    <2>4. PICK S : OpenChain(h, S)
      BY DEF Chained
    <2>5. HeapInv(h) /\ C \cap Live(h) \subseteq S /\ Live(g) \ C \subseteq Live(h)
      BY <2>2, <2>4 DEF OpenChain, Chained
    <2>6. \A m \in Live(h) \ C :
             g.type[m] = h.type[m] /\ g.next[m] = h.next[m] /\ g.child[m] = h.child[m]
      BY <1>1, <2>1, <2>3
    <2>7. \A m \in Live(h) : g.type[m] = h.type[m] \/ g.type[m] \notin Opening
      BY <1>1, <2>3 DEF Opening
    <2>8. \A m \in Live(g) \cap C : LinkPlaced(g, m) /\ g.type[m] # "T_QUANTIFIER"
      BY <1>1, <2>1, <2>3 DEF LinkPlaced
    <2> HIDE DEF C
    <2> QED BY <2>4, <2>5, <2>6, <2>7, <2>8, PlacedKept
  <1> QED BY <1>2, <1>3

LEMMA AdoptPlaced ==
  ASSUME NEW h, Chained(h), Placed(h), h.size < MaxNodes,
         NEW n, n = h.tail, n # h.head,
         h.type[n] = "T_QUANTIFIER", h.child[n] = 0, h.prev[n] # h.head
  PROVE  Placed(Adopt(h, n))
  <1> DEFINE c == h.prev[n]
             p == h.prev[c]
             t == h.size + 1
             g == Adopt(h, n)
             C == {c, p, n, t}
  <1>1. /\ h \in HeapType /\ h.size \in Nat /\ Live(h) \subseteq Node /\ Node \subseteq Nat \ {0}
        /\ Live(h) \subseteq 1 .. h.size /\ n \in Live(h) /\ n \in Node /\ h.next[n] = 0
        /\ c \in Live(h) /\ c \in Node /\ c # n /\ h.next[c] = n
    BY TailFacts
  <1>2. HeapInv(h)
    BY DEF Chained
  <1>3. PICK S : OpenChain(h, S)
    BY DEF Chained
  <1>4. p \in Live(h) /\ p # 0 /\ p \in Node /\ p # n /\ p # c /\ n \in S /\ c \in S /\ p \in S
    <2>2. p \in Live(h) /\ p \in Node /\ n \in S /\ c \in S /\ p \in S
      BY <1>1, <1>3 DEF OpenChain
    <2>3. h.next[p] = c
      BY <1>1, <1>2, <2>2 DEF HeapInv, LinksAgree, NULL
    <2>4. p < c
      BY <1>1, <1>2, <2>2, <2>3 DEF HeapInv, LinksAgree, NULL
    <2> QED BY <1>1, <2>2, <2>3, <2>4
  <1>5. /\ t \in Node /\ g.size = t /\ g.freed = h.freed
        /\ g.child = [h.child EXCEPT ![n] = c]
        /\ g.type = [h.type EXCEPT ![t] = "T_TRUE"]
        /\ g.next = [h.next EXCEPT ![p] = n, ![c] = t]
    <2>1. h \in HeapType /\ n \in Node /\ c \in Node /\ p \in Node /\ p # n /\ c # n
      BY <1>1, <1>4
    <2>2. /\ g \in HeapType /\ t \in Node
          /\ g.size = t /\ g.freed = h.freed
          /\ g.head = h.head /\ g.tail = h.tail
          /\ g.data = h.data
          /\ g.child = [h.child EXCEPT ![n] = c]
          /\ g.type = [h.type EXCEPT ![t] = "T_TRUE"]
          /\ g.prev = [h.prev EXCEPT ![n] = p, ![c] = 0, ![t] = c]
          /\ g.next = [h.next EXCEPT ![p] = n, ![c] = t]
      BY <2>1, AdoptFields
    <2> HIDE DEF g
    <2> QED BY <2>2
  <1>6. /\ h.next \in [Node -> Node \cup {0}] /\ h.type \in [Node -> NodeType]
        /\ h.child \in [Node -> Node \cup {0}] /\ h.next[t] = 0 /\ t # 0
    <2>1. Fresh(h)
      BY <1>2 DEF HeapInv
    <2> QED BY <1>1, <1>5, <2>1, FieldTypes DEF Fresh, NULL
  <1>7. \A m \in Live(h) : m # t /\ m \in Node
    BY <1>1
  <1> HIDE DEF g
  <1>8. Live(g) \subseteq Live(h) \cup {t}
    BY <1>1, <1>5 DEF Live
  <1>9. g.next[p] = n /\ g.next[c] = t /\ g.next[n] = 0 /\ g.next[t] = 0
    <2>1. g.next[p] = n /\ g.next[c] = t
      BY <1>1, <1>4, <1>5, <1>6
    <2>2. g.next[n] = 0 /\ g.next[t] = 0
      BY <1>1, <1>4, <1>5, <1>6, <1>7
    <2> QED BY <2>1, <2>2
  <1>10. /\ g.type[t] = "T_TRUE" /\ g.child[n] = c
         /\ \A m \in Live(h) : /\ g.type[m] = h.type[m]
                               /\ m # n => g.child[m] = h.child[m]
                               /\ m \notin {p, c} => g.next[m] = h.next[m]
    <2>1. g.type[t] = "T_TRUE" /\ g.child[n] = c
      BY <1>1, <1>5, <1>6
    <2>2. \A m \in Live(h) : /\ g.type[m] = h.type[m]
                             /\ m # n => g.child[m] = h.child[m]
                             /\ m \notin {p, c} => g.next[m] = h.next[m]
      BY <1>1, <1>5, <1>6, <1>7
    <2> QED BY <2>1, <2>2
  <1>11. C \cap Live(h) \subseteq S /\ Live(g) \ C \subseteq Live(h)
    BY <1>4, <1>7, <1>8
  <1>12. \A m \in Live(h) \ C :
           g.type[m] = h.type[m] /\ g.next[m] = h.next[m] /\ g.child[m] = h.child[m]
    BY <1>10
  <1>13. ASSUME NEW m \in Live(g) \cap C
         PROVE  /\ LinkPlaced(g, m)
                /\ \/ g.type[m] # "T_QUANTIFIER"
                   \/ m \in Live(h) /\ g.type[m] = h.type[m] /\ g.child[m] = h.child[m]
                   \/ OperandAlone(g, m)
    <2>1. CASE m = n
      BY <1>6, <1>9, <1>10, <2>1 DEF LinkPlaced, OperandAlone
    <2>2. CASE m = t
      BY <1>9, <1>10, <2>2 DEF LinkPlaced
    <2>3. CASE m = p
      BY <1>1, <1>4, <1>9, <1>10, <2>3 DEF LinkPlaced
    <2>4. CASE m = c
      BY <1>1, <1>9, <1>10, <2>4 DEF LinkPlaced
    <2> QED BY <2>1, <2>2, <2>3, <2>4
  <1>14. \A m \in Live(h) : g.type[m] = h.type[m]
    BY <1>10
  <1> HIDE DEF C
  <1>15. Placed(g)
    BY <1>2, <1>3, <1>11, <1>12, <1>13, <1>14, PlacedKept
  <1> QED BY <1>15 DEF g

LEMMA SplitPlaced ==
  ASSUME NEW h, HeapInv(h), Placed(h), h.size < MaxNodes,
         NEW S, OpenChain(h, S), NEW s \in S, s # h.head,
         h.type[h.prev[s]] \in {"T_ROOT", "T_GROUP_START"}
  PROVE  Placed(Split(h, s))
  <1> DEFINE p == h.prev[s]
             a == h.size + 1
             x == h.tail
             g == Split(h, s)
             C == {p, a, x}
  <1>1. h \in HeapType /\ Chained(h)
    BY DEF HeapInv, Chained
  <1>2. /\ h.size \in Nat /\ h.next \in [Node -> Node \cup {0}]
        /\ h.type \in [Node -> NodeType] /\ h.child \in [Node -> Node \cup {0}]
        /\ Live(h) \subseteq Node /\ Node \subseteq Nat \ {0}
        /\ Live(h) \subseteq 1 .. h.size /\ x \in Live(h) /\ h.next[x] = 0
    BY <1>1, FieldTypes, TailFacts
  <1>3. /\ s \in Node /\ p \in Node /\ s \in Live(h) /\ p \in Live(h) /\ x \in Node
        /\ p \in S /\ x \in S
    BY <1>2 DEF OpenChain
  <1>4. h.next[p] = s /\ s # 0 /\ p # 0
    BY <1>2, <1>3 DEF HeapInv, LinksAgree, NULL
  <1>5. /\ a \in Node /\ g.size = a /\ g.freed = h.freed
        /\ g.child = [h.child EXCEPT ![a] = s]
        /\ g.type = [h.type EXCEPT ![x] = "T_TRUE", ![a] = "T_ALTERNATION"]
        /\ g.next = [h.next EXCEPT ![p] = a]
    <2>1. /\ g \in HeapType /\ a \in Node
          /\ g.size = a /\ g.freed = h.freed /\ g.head = h.head /\ g.tail = a
          /\ g.data = h.data
          /\ g.child = [h.child EXCEPT ![a] = s]
          /\ g.type = [h.type EXCEPT ![h.tail] = "T_TRUE", ![a] = "T_ALTERNATION"]
          /\ g.prev = [h.prev EXCEPT ![s] = 0, ![a] = p]
          /\ g.next = [h.next EXCEPT ![p] = a]
      BY <1>1, <1>3, SplitFields
    <2> HIDE DEF g
    <2> QED BY <2>1
  <1> HIDE DEF g
  <1>6. /\ Live(g) \subseteq Live(h) \cup {a} /\ a \notin Live(h) /\ a # 0
        /\ h.next[a] = 0 /\ p # x
    <2>1. h.next[a] = 0
      BY <1>2, <1>5 DEF HeapInv, Fresh, NULL
    <2> QED BY <1>2, <1>4, <1>5, <2>1 DEF Live
  <1>7. /\ g.next[p] = a /\ g.next[a] = 0 /\ g.next[x] = 0 /\ g.type[a] = "T_ALTERNATION"
        /\ g.type[x] = "T_TRUE"
        /\ \A m \in Live(h) : /\ m # x => g.type[m] = h.type[m]
                              /\ m # p => g.next[m] = h.next[m]
                              /\ g.child[m] = h.child[m]
    <2>1. \A m \in Live(h) : m \in Node /\ m # a
      BY <1>2, <1>6
    <2>2. g.next[p] = a /\ g.next[a] = 0 /\ g.next[x] = 0
      BY <1>2, <1>3, <1>5, <1>6
    <2>3. g.type[a] = "T_ALTERNATION" /\ g.type[x] = "T_TRUE"
      BY <1>2, <1>3, <1>5, <1>6
    <2>4. \A m \in Live(h) : m # x => g.type[m] = h.type[m]
      BY <1>2, <1>5, <2>1
    <2>5. \A m \in Live(h) : /\ m # p => g.next[m] = h.next[m]
                             /\ g.child[m] = h.child[m]
      BY <1>2, <1>5, <2>1
    <2> QED BY <2>2, <2>3, <2>4, <2>5
  <1>8. C \cap Live(h) \subseteq S /\ Live(g) \ C \subseteq Live(h)
    BY <1>3, <1>6
  <1>9. \A m \in Live(h) \ C :
           g.type[m] = h.type[m] /\ g.next[m] = h.next[m] /\ g.child[m] = h.child[m]
    BY <1>7
  <1>10. \A m \in Live(h) : g.type[m] = h.type[m] \/ g.type[m] \notin Opening
    BY <1>7 DEF Opening
  <1>11. \A m \in Live(g) \cap C : LinkPlaced(g, m) /\ g.type[m] # "T_QUANTIFIER"
    <2>1. g.type[p] = h.type[p]
      BY <1>3, <1>6, <1>7
    <2>2. LinkPlaced(g, p) /\ g.type[p] # "T_QUANTIFIER"
      BY <1>7, <2>1 DEF LinkPlaced
    <2>3. LinkPlaced(g, a) /\ LinkPlaced(g, x)
      BY <1>7 DEF LinkPlaced
    <2> QED BY <1>7, <2>2, <2>3
  <1> HIDE DEF C
  <1>12. Placed(g)
    BY <1>8, <1>9, <1>10, <1>11, PlacedKept
  <1> QED BY <1>12 DEF g

LEMMA CloseGroupPlaced ==
  ASSUME NEW h, HeapInv(h), Placed(h), NEW S, OpenChain(h, S), NEW s \in S, s # h.tail,
         h.next[s] # 0
  PROVE  Placed(CloseGroup(h, s))
  <1> DEFINE f == h.next[s]
             x == h.tail
             g == CloseGroup(h, s)
             C == {s, x}
  <1>1. h \in HeapType /\ Chained(h)
    BY DEF HeapInv, Chained
  <1>2. /\ h.next \in [Node -> Node \cup {0}] /\ x \in Node
        /\ h.type \in [Node -> NodeType] /\ h.child \in [Node -> Node \cup {0}]
        /\ Live(h) \subseteq Node /\ x \in Live(h) /\ h.next[x] = 0
    BY <1>1, FieldTypes, TailFacts
  <1>3. s \in Live(h) /\ s \in Node /\ f \in Node /\ s # x /\ f # 0 /\ x \in S
    BY <1>2 DEF OpenChain
  <1>4. /\ g.size = h.size /\ g.freed = h.freed
        /\ g.child = [h.child EXCEPT ![s] = f]
        /\ g.type = [h.type EXCEPT ![s] = "T_GROUP", ![x] = "T_TRUE"]
        /\ g.next = [h.next EXCEPT ![s] = 0]
    <2>1. /\ g \in HeapType
          /\ g.size = h.size /\ g.freed = h.freed /\ g.head = h.head /\ g.tail = s
          /\ g.data = h.data
          /\ g.child = [h.child EXCEPT ![s] = f]
          /\ g.type = [h.type EXCEPT ![s] = "T_GROUP", ![h.tail] = "T_TRUE"]
          /\ g.prev = [h.prev EXCEPT ![f] = 0]
          /\ g.next = [h.next EXCEPT ![s] = 0]
      BY <1>1, <1>3, CloseGroupFields
    <2> HIDE DEF g
    <2> QED BY <2>1
  <1> HIDE DEF g
  <1>5. Live(g) = Live(h)
    BY <1>4 DEF Live
  <1>6. g.type[s] = "T_GROUP" /\ g.type[x] = "T_TRUE" /\ g.next[s] = 0 /\ g.next[x] = 0
    BY <1>2, <1>3, <1>4
  <1>7. \A m \in Live(h) \ C :
          g.type[m] = h.type[m] /\ g.next[m] = h.next[m] /\ g.child[m] = h.child[m]
    BY <1>2, <1>4
  <1>8. C \cap Live(h) \subseteq S /\ Live(g) \ C \subseteq Live(h)
    BY <1>3, <1>5
  <1>9. \A m \in Live(h) : g.type[m] = h.type[m] \/ g.type[m] \notin Opening
    BY <1>6, <1>7 DEF Opening
  <1>10. \A m \in Live(g) \cap C : LinkPlaced(g, m) /\ g.type[m] # "T_QUANTIFIER"
    BY <1>6 DEF LinkPlaced
  <1> HIDE DEF C
  <1>11. Placed(g)
    BY <1>7, <1>8, <1>9, <1>10, PlacedKept
  <1> QED BY <1>11 DEF g

LEMMA EndPlaced ==
  ASSUME NEW h, Chained(h), Placed(h), h.size + 2 <= MaxNodes
  PROVE  Placed(AddRoot(Terminate(h, h.tail)))
  <1> DEFINE x == h.tail
             t == h.size + 1
             k == Terminate(h, x)
             r == h.size + 2
             g == AddRoot(k)
             C == {x, t, r}
  <1>1. /\ h \in HeapType /\ h.size \in Nat /\ Live(h) \subseteq Node /\ Node \subseteq Nat \ {0}
        /\ Live(h) \subseteq 1 .. h.size /\ x \in Live(h) /\ x \in Node
    BY TailFacts
  <1>2. MaxNodes \in Nat /\ h.size < MaxNodes
    BY <1>1, BoundAssumption
  <1>3. /\ k \in HeapType /\ t \in Node /\ k.size = t /\ k.freed = h.freed
        /\ k.child = h.child
        /\ k.type = [h.type EXCEPT ![t] = "T_TRUE"]
        /\ k.next = [h.next EXCEPT ![x] = t]
    <2>1. /\ k \in HeapType /\ t \in Node
          /\ k.size = t /\ k.freed = h.freed
          /\ k.head = h.head /\ k.tail = h.tail
          /\ k.data = h.data /\ k.child = h.child
          /\ k.type = [h.type EXCEPT ![t] = "T_TRUE"]
          /\ k.prev = [h.prev EXCEPT ![t] = x]
          /\ k.next = [h.next EXCEPT ![x] = t]
      BY <1>1, <1>2, TerminateFields
    <2> HIDE DEF k
    <2> QED BY <2>1
  <1> HIDE DEF k
  <1>4. k.size < MaxNodes /\ k.size + 1 = r /\ r \in Nat
    BY <1>1, <1>2, <1>3
  <1>5. /\ r \in Node /\ g.size = r /\ g.freed = k.freed
        /\ g.child = k.child /\ g.next = k.next
        /\ g.type = [k.type EXCEPT ![r] = "T_ROOT"]
    <2>1. /\ g \in HeapType /\ k.size + 1 \in Node
          /\ g.size = k.size + 1 /\ g.freed = k.freed /\ g.head = k.size + 1 /\ g.tail = k.size + 1
          /\ g.data = k.data /\ g.child = k.child
          /\ g.prev = k.prev /\ g.next = k.next
          /\ g.type = [k.type EXCEPT ![k.size + 1] = "T_ROOT"]
      BY <1>3, <1>4, AddRootFields
    <2> HIDE DEF g, r
    <2> QED BY <1>4, <2>1
  <1> HIDE DEF g
  <1>6. /\ h.next \in [Node -> Node \cup {0}] /\ h.type \in [Node -> NodeType]
        /\ h.next[t] = 0 /\ h.next[r] = 0
    <2>1. Fresh(h)
      BY DEF Chained, HeapInv
    <2> QED BY <1>1, <1>3, <1>5, <2>1, FieldTypes DEF Fresh, NULL
  <1>7. \A m \in Live(h) : m # t /\ m # r /\ m \in Node
    BY <1>1
  <1>8. t # r /\ t # x /\ r # x /\ t # 0 /\ r # 0
    BY <1>1, <1>7
  <1>9. Live(g) \subseteq Live(h) \cup {t, r}
    BY <1>1, <1>3, <1>4, <1>5 DEF Live
  <1>10. g.next[t] = 0 /\ g.next[r] = 0 /\ g.next[x] = t
    BY <1>1, <1>3, <1>5, <1>6, <1>8
  <1>11. g.type[t] = "T_TRUE" /\ g.type[r] = "T_ROOT"
    BY <1>3, <1>5, <1>6, <1>8
  <1>12. \A m \in Live(h) : /\ g.type[m] = h.type[m] /\ g.child[m] = h.child[m]
                            /\ m # x => g.next[m] = h.next[m]
    BY <1>3, <1>5, <1>6, <1>7
  <1>13. PICK S : OpenChain(h, S)
    BY DEF Chained
  <1>14. HeapInv(h) /\ C \cap Live(h) \subseteq S /\ Live(g) \ C \subseteq Live(h)
    BY <1>7, <1>9, <1>13 DEF OpenChain, Chained
  <1>15. ASSUME NEW m \in Live(g) \cap C
         PROVE  /\ LinkPlaced(g, m)
                /\ \/ g.type[m] # "T_QUANTIFIER"
                   \/ m \in Live(h) /\ g.type[m] = h.type[m] /\ g.child[m] = h.child[m]
    <2>1. CASE m = x
      BY <1>1, <1>10, <1>11, <1>12, <2>1 DEF LinkPlaced
    <2>2. CASE m = t
      BY <1>10, <1>11, <2>2 DEF LinkPlaced
    <2>3. CASE m = r
      BY <1>10, <1>11, <2>3 DEF LinkPlaced
    <2> QED BY <2>1, <2>2, <2>3
  <1>16. \A m \in Live(h) \ C :
          g.type[m] = h.type[m] /\ g.next[m] = h.next[m] /\ g.child[m] = h.child[m]
    BY <1>12
  <1>17. \A m \in Live(h) : g.type[m] = h.type[m]
    BY <1>12
  <1> HIDE DEF C
  <1>18. Placed(g)
    BY <1>13, <1>14, <1>15, <1>16, <1>17, PlacedKept
  <1> QED BY <1>18 DEF g, k

(* Reading one fragment, one step per kind.                                *)
LEMMA ParsePlaced ==
  ASSUME IInv, Placed(re), NEW f \in Fragments \cup {RBrace} \cup MacroFragments, Parse(f)
  PROVE  Placed(re')
  <1> DEFINE n == re.size + 1
             k == AddNode(re)
  <1>0. Read(f)
    BY DEF Parse, ParseAtom, ParseChar, ParseOpen, ParseQuantifier, ParseQuestion,
           ParseBrace, ParseBar, ParseClose, ParseMacro, ParseBad
  <1>1. /\ Chained(re) /\ re.size < MaxNodes /\ re.size + 2 <= MaxNodes
        /\ f \in AllFragments /\ pc = "parse"
    BY <1>0, ReadFacts DEF Read, Readable
  <1>2. /\ k \in HeapType /\ Chained(k) /\ k.tail = n /\ n # k.head
        /\ k.child[n] = 0 /\ k.prev[n] = re.tail /\ n \in Node
    BY <1>1, NewNode
  <1>3. Placed(k)
    BY <1>1, AddNodePlaced
  <1>4. ASSUME NEW min \in Nat, NEW max \in Nat, NEW h, h = SetQuantifier(k, n, min, max)
        PROVE  Placed(h) /\ (HasOperand(h, n) => Placed(Adopt(h, n)))
    <2> DEFINE d == [Zeroed EXCEPT !.min = min, !.max = max]
    <2>1. /\ d \in DataType /\ "T_QUANTIFIER" \in NodeType /\ "T_QUANTIFIER" # "T_ROOT"
          /\ "T_QUANTIFIER" \notin Opening
      BY ZeroedType DEF DataType, NodeType, Composite, Opening
    <2>2. h = Label(k, n, "T_QUANTIFIER", d)
      BY <1>4 DEF SetQuantifier
    <2> HIDE DEF d
    <2>3. /\ Chained(h) /\ h.tail = n /\ n # h.head /\ h.size = n
          /\ h.type[n] = "T_QUANTIFIER" /\ h.child[n] = 0
      BY <1>1, <2>1, <2>2, NewNodeInv
    <2> HIDE DEF k
    <2>4. Placed(h)
      BY <1>2, <1>3, <2>1, <2>2, LabelPlaced
    <2>5. h.size < MaxNodes
      <3>1. re.size \in Nat /\ MaxNodes \in Nat
        BY <1>1, TailFacts, BoundAssumption
      <3> QED BY <1>1, <2>3, <3>1
    <2>6. HasOperand(h, n) => Placed(Adopt(h, n))
      BY <2>3, <2>4, <2>5, AdoptPlaced DEF HasOperand
    <2> QED BY <2>4, <2>6
  <1>5. CASE ParseAtom(f) \/ ParseOpen(f) \/ ParseBad(f)
    <2>1. PICK t, d : /\ re' = Label(k, n, t, d) /\ t \in NodeType \ Opening /\ d \in DataType
      <3>1. CASE ParseAtom(f)
        <4>1. f.t \in NodeType \ Opening
          BY <1>1, <3>1, FragmentFields DEF ParseAtom, NodeType, AtomType, Opening
        <4> QED BY <3>1, <4>1, ZeroedType DEF ParseAtom
      <3>2. CASE ParseOpen(f)
        <4> DEFINE d == [Zeroed EXCEPT !.look = f.look, !.inv = f.inv]
        <4>1. d \in DataType
          <5>1. f.look \in BOOLEAN /\ f.inv \in BOOLEAN
            BY <1>1, <3>2, FragmentFields DEF ParseOpen
          <5> QED BY <5>1, ZeroedType DEF DataType
        <4>2. re' = Label(k, n, "T_GROUP_START", d)
          BY <3>2 DEF ParseOpen
        <4> HIDE DEF d
        <4>3. "T_GROUP_START" \in NodeType \ Opening
          BY DEF NodeType, Opening
        <4> QED BY <4>1, <4>2, <4>3
      <3>3. CASE ParseBad(f)
        <4>1. f.t \in NodeType \ Opening
          BY <1>1, <3>3, FragmentFields DEF ParseBad, NodeType, AtomType, Opening
        <4> QED BY <3>3, <4>1, ZeroedType DEF ParseBad
      <3> QED BY <1>5, <3>1, <3>2, <3>3
    <2> HIDE DEF k
    <2> QED BY <1>2, <1>3, <2>1, LabelPlaced
  <1>6. CASE ParseChar(f)
    <2>1. f.c \in Char /\ re' = AddChar(k, n, f.c)
      BY <1>1, <1>6, FragmentFields DEF ParseChar
    <2> HIDE DEF k
    <2> QED BY <1>2, <1>3, <2>1, AddCharPlaced
  <1>7. CASE ParseQuantifier(f) \/ ParseBrace(f)
    <2> DEFINE h == SetQuantifier(k, n, f.min, f.max)
    <2>1. f.min \in Nat /\ f.max \in Nat
      BY <1>1, <1>7, FragmentFields DEF ParseQuantifier, ParseBrace
    <2>2. (HasOperand(h, n) /\ re' = Adopt(h, n)) \/ re' = h
      BY <1>7 DEF ParseQuantifier, ParseBrace
    <2> HIDE DEF k
    <2>3. Placed(h) /\ (HasOperand(h, n) => Placed(Adopt(h, n)))
      BY <1>4, <2>1
    <2> HIDE DEF h
    <2> QED BY <2>2, <2>3
  <1>8. CASE ParseQuestion(f)
    <2> DEFINE h == SetQuantifier(k, n, 0, 1)
               l == SetLazy(k, k.prev[n])
    <2>1. Placed(h) /\ (HasOperand(h, n) => Placed(Adopt(h, n)))
      <3> HIDE DEF k
      <3> QED BY <1>4
    <2>2. \/ re' = RemoveSelf(l, n)
          \/ HasOperand(h, n) /\ re' = Adopt(h, n)
          \/ re' = h
      BY <1>8 DEF ParseQuestion
    <2>3. Placed(RemoveSelf(l, n))
      <3>1. PICK S : OpenChain(k, S)
        BY <1>2 DEF Chained
      <3>2. k.prev[n] \in S
        BY <1>2, <3>1 DEF OpenChain
      <3>3. HeapInv(k)
        BY <1>2 DEF Chained
      <3>4. HeapInv(l) /\ l.type = k.type /\ l.tail = k.tail /\ l.head = k.head
        <4> HIDE DEF k
        <4> QED BY <3>1, <3>2, <3>3, SetLazyInv
      <3>5. /\ l.size = k.size /\ l.freed = k.freed /\ l.next = k.next
            /\ l.prev = k.prev /\ l.child = k.child
        <4> HIDE DEF k
        <4> QED BY <1>2 DEF SetLazy, HeapType
      <3>6. l \in HeapType
        BY <3>4 DEF HeapInv
      <3> HIDE DEF l, k
      <3> QED BY <1>2, <1>3, <3>4, <3>5, <3>6, RemoveSelfPlaced
    <2> HIDE DEF h, l
    <2> QED BY <2>1, <2>2, <2>3
  <1>9. CASE ParseBar(f) \/ ParseClose(f)
    BY <1>3, <1>9 DEF ParseBar, ParseClose
  <1>10. CASE ParseMacro(f)
    <2>1. re' = RemoveSelf(k, n)
      BY <1>10 DEF ParseMacro
    <2> HIDE DEF k
    <2> QED BY <1>2, <1>3, <2>1, RemoveSelfPlaced
  <1> QED BY <1>5, <1>6, <1>7, <1>8, <1>9, <1>10 DEF Parse

(* The hunts for '|' and ')'.                                              *)
LEMMA HuntPlaced ==
  ASSUME IInv, Placed(re), Hunt
  PROVE  Placed(re')
  <1>1. HeapInv(re) /\ re.tail # re.head /\ pc \in {"bar", "close"}
    BY DEF IInv, HeapIInv, Hunt, BarBack, BarLiteral, BarSplit, CloseBack, CloseLiteral, CloseMatch
  <1>2. CASE BarBack \/ CloseBack
    BY <1>2 DEF BarBack, CloseBack
  <1>3. CASE BarLiteral \/ CloseLiteral
    <2>1. re' = AddChar(re, re.tail, BarChar) \/ re' = AddChar(re, re.tail, ")")
      BY <1>3 DEF BarLiteral, CloseLiteral
    <2>2. BarChar \in Char /\ ")" \in Char
      BY CharAssumption DEF BarChar
    <2>3. Chained(re)
      BY DEF IInv, HeapIInv, Chained, Hunt, BarBack, BarLiteral, BarSplit, CloseBack, CloseLiteral,
             CloseMatch
    <2> QED BY <1>1, <2>1, <2>2, <2>3, AddCharPlaced
  <1>4. CASE BarSplit
    <2>1. re' = Split(re, scan) /\ re.size < MaxNodes /\ pc = "bar" /\ AtChainStart
      BY <1>4 DEF BarSplit
    <2>2. PICK S : OpenChain(re, S) /\ scan \in S
      BY <2>1 DEF IInv, HeapIInv
    <2>3. scan # re.head
      BY <2>1 DEF IInv, HeapIInv
    <2> QED BY <1>1, <2>1, <2>2, <2>3, SplitPlaced DEF AtChainStart
  <1>5. CASE CloseMatch
    <2>1. /\ re' = CloseGroup(re, scan) /\ pc = "close"
          /\ scan # 0 /\ re.type[scan] = "T_GROUP_START"
      BY <1>5 DEF CloseMatch, NULL
    <2>2. PICK S : OpenChain(re, S) /\ scan \in S
      BY <2>1 DEF IInv, HeapIInv
    <2>3. scan # re.tail
      BY <2>1 DEF IInv, HeapIInv
    <2>4. re.next[scan] # 0
      BY <1>1, <2>1, <2>2, <2>3, CloseGroupInv
    <2> QED BY <1>1, <2>1, <2>2, <2>3, <2>4, CloseGroupPlaced
  <1> QED BY <1>2, <1>3, <1>4, <1>5 DEF Hunt

PlaceInv == pc \notin {"freeing", "freed"} => Placed(re)

LEMMA InductivePlace == Spec => [](IInv /\ PlaceInv)
  <1>1. Init => PlaceInv
    <2> SUFFICES ASSUME Init PROVE Placed(re)
      BY DEF PlaceInv
    <2>1. re.next = [n \in Node |-> 0] /\ re.child = [n \in Node |-> 0] /\ Live(re) \subseteq Node
      BY BoundAssumption DEF Init, NewHeap, Live, Node, NULL
    <2> QED BY <2>1 DEF Placed, LinkPlaced, OperandAlone
  <1>2. IInv /\ PlaceInv /\ [Next]_vars => PlaceInv'
    <2> SUFFICES ASSUME IInv, PlaceInv, [Next]_vars, pc' \notin {"freeing", "freed"} PROVE Placed(re')
      BY DEF PlaceInv
    <2>1. Placed(re)
      BY DEF PlaceInv, Next, vars, AddMacro, BeginPattern, Callable, Parse, ParseAtom, ParseChar,
             ParseOpen, ParseQuantifier, ParseQuestion, ParseBrace, ParseBar, ParseClose, ParseMacro,
             ParseBad, Read, Readable, Hunt, BarBack, BarLiteral, BarSplit, CloseBack, CloseLiteral,
             CloseMatch, EndMacro, EndPattern, BeginFree, FreeNode, EndFree
    <2>2. CASE \E f \in Fragments \cup {RBrace} \cup MacroFragments : Parse(f)
      BY <2>1, <2>2, ParsePlaced
    <2>3. CASE Hunt
      BY <2>1, <2>3, HuntPlaced
    <2>4. CASE EndPattern
      <3>1. Chained(re) /\ re' = AddRoot(Terminate(re, re.tail)) /\ re.size + 2 <= MaxNodes
        BY <2>4 DEF EndPattern, IInv, HeapIInv
      <3> QED BY <2>1, <3>1, EndPlaced
    <2>5. CASE re' = re
      BY <2>1, <2>5
    <2>6. CASE FreeNode
      BY <2>6 DEF FreeNode
    <2> QED BY <2>2, <2>3, <2>4, <2>5, <2>6
            DEF Next, vars, AddMacro, BeginPattern, EndMacro, BeginFree, EndFree
  <1> QED BY <1>1, <1>2, Inductive, PTL DEF Spec

-----------------------------------------------------------------------------
(* A child that, wherever it is called, fails or takes characters, and has *)
(* at most that one match.                                                 *)
Springs(inner, text) ==
  \A e \in Offsets(text) : inner[e] = NoMatch \/ (inner[e] \in Offsets(text) /\ inner[e] > e)
Stepping(inner, reached, text) ==
  /\ Springs(inner, text)
  /\ \A e \in Offsets(text) : reached[e] = IF inner[e] = NoMatch THEN {} ELSE {inner[e]}

LEMMA StepsLead ==
  ASSUME NEW text, Len(text) \in Nat, NEW inner \in Function(text), NEW reached \in Ended(text),
         Stepping(inner, reached, text), NEW o \in Offsets(text), NEW c, c \in Nat,
         NEW e, e \in Steps(reached, o, c)
  PROVE  Leads(inner, text, o, e, c)
  <1> DEFINE P == {i \in 0 .. c : \A x \in Steps(reached, o, i) : Leads(inner, text, o, x, i)}
  <1>1. /\ Steps(reached, o, 0) = {o}
        /\ \A i \in Nat : Steps(reached, o, i) \in SUBSET Offsets(text)
        /\ \A i \in Nat : Steps(reached, o, i + 1) = Behind(reached, Steps(reached, o, i))
    BY StepsUnfold
  <1>2. 0 \in P
    BY <1>1, LeadsNowhere
  <1>3. ASSUME NEW i \in P, i < c PROVE i + 1 \in P
    <2>1. i \in Nat /\ i + 1 \in 0 .. c
      BY <1>3
    <2>2. ASSUME NEW x \in Steps(reached, o, i + 1) PROVE Leads(inner, text, o, x, i + 1)
      <3>1. PICK y \in Steps(reached, o, i) : x \in reached[y]
        BY <1>1, <2>1 DEF Behind
      <3>2. y \in Offsets(text) /\ Leads(inner, text, o, y, i)
        BY <1>1, <2>1
      <3>3. x = inner[y] /\ inner[y] \in Offsets(text)
        BY <3>1, <3>2 DEF Stepping, Springs
      <3>4. Leads(inner, text, o, inner[y], i + 1)
        BY <2>1, <3>2, <3>3, LeadsOn
      <3> QED BY <3>3, <3>4
    <2> QED BY <2>1, <2>2
  <1>4. P \in SUBSET (0 .. c)
    OBVIOUS
  <1>5. P = 0 .. c
    <2> HIDE DEF P
    <2> QED BY <1>2, <1>3, <1>4, BoundedInduction
  <1> QED BY <1>5

(* A path that the child leads along.                                      *)
Path(inner, text, p, c) ==
  p \in [0 .. c -> Offsets(text)] /\ \A i \in 1 .. c : p[i] = inner[p[i - 1]]

LEMMA AtLeastFollows ==
  ASSUME NEW text, Len(text) \in Nat, NEW inner \in Function(text), NEW c, c \in Nat, NEW p,
         Path(inner, text, p, c), NEW count, count \in 0 .. c
  PROVE  AtLeast(inner, p[0], count) = p[count]
  <1>0. p[0] \in Offsets(text) /\ count \in Nat
    BY DEF Path
  <1>1. PICK after \in [0 .. count -> Outcome(text)] :
          AtLeast(inner, p[0], count) = after[count] /\ Repeats(inner, p[0], count, after)
    BY <1>0, AtLeastUnfold
  <1> DEFINE P == {i \in 0 .. count : after[i] = p[i]}
  <1>2. 0 \in P
    BY <1>0, <1>1 DEF Repeats
  <1>3. ASSUME NEW i \in P, i < count PROVE i + 1 \in P
    <2>1. i + 1 \in 1 .. count /\ i + 1 \in 1 .. c /\ (i + 1) - 1 = i /\ i \in 0 .. c /\ i + 1 \in 0 .. count
      BY <1>3
    <2>2. after[i + 1] = IF Matched(after[i]) THEN inner[after[i]] ELSE after[i]
      BY <1>1, <2>1 DEF Repeats
    <2>3. p[i] \in Offsets(text) /\ p[i + 1] = inner[p[i]]
      BY <2>1 DEF Path
    <2>4. after[i] = p[i] /\ Matched(p[i])
      BY <2>3 DEF Matched, Offsets
    <2> QED BY <2>1, <2>2, <2>3, <2>4
  <1>4. P \in SUBSET (0 .. count)
    OBVIOUS
  <1>5. P = 0 .. count
    <2> HIDE DEF P
    <2> QED BY <1>0, <1>2, <1>3, <1>4, BoundedInduction
  <1>6. count \in P
    <2> HIDE DEF P
    <2> QED BY <1>0, <1>5
  <1> QED BY <1>1, <1>6

(* The second loop does not stop before the end of the path, and from      *)
(* there on it has found something.                                        *)
Ahead(text, s, q, c, j) ==
  /\ s.longest \in Offsets(text)
  /\ s.longest # 0 \/ (s.on /\ j < c)
  /\ s.on => s.offset \in Offsets(text) /\ (j <= c => s.offset = q[j])

LEMMA TurnComplete ==
  ASSUME NEW text, Len(text) \in Nat, NEW inner \in Function(text), NEW rest \in Function(text),
         Springs(inner, text), Forward(rest, text), \A e \in Offsets(text) : Returned(rest[e]),
         NEW d, NEW c, c \in Nat, NEW q, Path(inner, text, q, c), Matched(rest[q[c]]),
         NEW j, j \in Nat, NEW s, Ahead(text, s, q, c, j), s.on \in BOOLEAN,
         NEW t, t = Turn(d, inner, rest, s)
  PROVE  Ahead(text, t, q, c, j + 1)
  <1> DEFINE e == inner[s.offset]
             x == rest[e]
  <1>1. CASE ~s.on
    <2>1. t = s
      BY <1>1, TurnUnfold
    <2> QED BY <1>1, <2>1 DEF Ahead
  <1>2. CASE s.on
    <2>1. s.offset \in Offsets(text) /\ s.longest \in Offsets(text) /\ (j <= c => s.offset = q[j])
            /\ (s.longest # 0 \/ j < c)
      BY <1>2 DEF Ahead
    <2>2. j < c => e = q[j + 1] /\ e \in Offsets(text)
      <3> SUFFICES ASSUME j < c PROVE e = q[j + 1] /\ e \in Offsets(text)
        OBVIOUS
      <3>1. j + 1 \in 1 .. c /\ (j + 1) - 1 = j /\ j + 1 \in 0 .. c /\ j <= c
        OBVIOUS
      <3>2. q[j + 1] = inner[q[j]] /\ q[j + 1] \in Offsets(text)
        BY <3>1 DEF Path
      <3> QED BY <2>1, <3>1, <3>2
    <2>3. e = NoMatch \/ (e \in Offsets(text) /\ e > s.offset)
      BY <2>1 DEF Springs
    <2>4. CASE e = NoMatch
      <3>1. t = [offset |-> s.offset, longest |-> s.longest, on |-> FALSE]
        BY <1>2, <2>4, TurnUnfold
      <3>2. ~(j < c)
        BY <2>2, <2>4 DEF NoMatch, Offsets
      <3> QED BY <2>1, <3>1, <3>2 DEF Ahead
    <2>5. CASE e \in Offsets(text) /\ e > s.offset
      <3>1. e # NoMatch /\ Returned(e) /\ e # s.offset /\ e > 0
        BY <2>1, <2>5 DEF NoMatch, Returned, Offsets
      <3>2. x \in Outcome(text) /\ Returned(x)
        <4> HIDE DEF e
        <4> QED BY <2>5 DEF Function
      <3>3. Matched(x) => x \in Offsets(text) /\ x >= e
        <4> HIDE DEF e
        <4> QED BY <2>5, <3>2, OffsetsMatch DEF Forward
      <3>4. Matched(x) => x \in Offsets(text) /\ x # 0
        <4> HIDE DEF e, x
        <4> QED BY <2>5, <3>1, <3>3 DEF Offsets
      <3>5. CASE Matched(x) /\ d.lazy
        <4>1. t = [offset |-> s.offset, longest |-> x, on |-> FALSE]
          BY <1>2, <3>1, <3>5, TurnUnfold
        <4> QED BY <3>4, <3>5, <4>1 DEF Ahead
      <3>6. CASE ~(Matched(x) /\ d.lazy)
        <4>1. t = [offset |-> e, longest |-> IF Matched(x) THEN x ELSE s.longest, on |-> TRUE]
          BY <1>2, <3>1, <3>2, <3>6, TurnUnfold
        <4>2. t.longest \in Offsets(text) /\ t.offset = e /\ t.on
                /\ (s.longest # 0 => t.longest # 0) /\ (Matched(x) => t.longest # 0)
          <5> HIDE DEF e, x
          <5> QED BY <2>1, <3>4, <4>1
        <4>3. j + 1 <= c => e = q[j + 1]
          <5> HIDE DEF e
          <5> QED BY <2>2
        <4>4. j + 1 = c => Matched(x)
          <5> SUFFICES ASSUME j + 1 = c PROVE Matched(x)
            OBVIOUS
          <5>1. e = q[c]
            <6> HIDE DEF e
            <6> QED BY <4>3
          <5> QED BY <5>1
        <4>5. t.longest # 0 \/ j + 1 < c
          <5> HIDE DEF e, x
          <5> QED BY <2>1, <4>2, <4>4
        <4> HIDE DEF e, x
        <4> QED BY <2>5, <4>2, <4>3, <4>5 DEF Ahead
      <3> QED BY <3>5, <3>6
    <2> QED BY <2>3, <2>4, <2>5
  <1> QED BY <1>1, <1>2

LEMMA FurtherComplete ==
  ASSUME NEW text, Len(text) \in Nat, NEW inner \in Function(text), NEW rest \in Function(text),
         Springs(inner, text), Forward(rest, text), \A e \in Offsets(text) : Returned(rest[e]),
         NEW d, QuantifierData(d), NEW c, c \in 0 .. Turns(d, text),
         NEW q, Path(inner, text, q, c), Matched(rest[q[c]]), rest[q[0]] # 0
  PROVE  LET r == Further(d, inner, rest, text, q[0], rest[q[0]])
         IN  Matched(r) /\ r # 0
  <1> DEFINE N == Turns(d, text)
             from == q[0]
             first == rest[from]
  <1>1. N \in Nat /\ c \in 0 .. N /\ c \in Nat
    BY DEF Turns, QuantifierData
  <1>2. from \in Offsets(text) /\ first \in Outcome(text)
    <2>1. from \in Offsets(text)
      BY <1>1 DEF Path
    <2> HIDE DEF from
    <2> QED BY <2>1 DEF Function
  <1>3. Matched(first) => first \in Offsets(text) /\ first # 0
    BY <1>2, OffsetsMatch
  <1>4. c = 0 => Matched(first)
    OBVIOUS
  <1> HIDE DEF from, first
  <1>5. PICK loop \in [0 .. N -> Lap(text)] :
          /\ Further(d, inner, rest, text, from, first) = loop[N].longest
          /\ loop[0] = Started(from, first)
          /\ \A k \in 1 .. N : loop[k] = Turn(d, inner, rest, loop[k - 1])
    BY <1>2, FurtherUnfold
  <1> DEFINE P == {j \in 0 .. N : Ahead(text, loop[j], q, c, j)}
  <1> HIDE DEF N
  <1>6. 0 \in P
    <2> DEFINE s == loop[0]
    <2>1. s.offset = from /\ s.on /\ s.longest = IF Matched(first) THEN first ELSE 0
      BY <1>5 DEF Started
    <2>2. 0 \in Offsets(text)
      BY DEF Offsets
    <2> HIDE DEF s
    <2>3. Ahead(text, s, q, c, 0)
      BY <1>1, <1>2, <1>3, <1>4, <2>1, <2>2 DEF Ahead, from
    <2> QED BY <1>1, <2>3 DEF s
  <1>7. ASSUME NEW j \in P, j < N PROVE j + 1 \in P
    <2>1. j + 1 \in 1 .. N /\ (j + 1) - 1 = j /\ j + 1 \in 0 .. N /\ j \in 0 .. N /\ j \in Nat
      BY <1>1, <1>7
    <2>2. loop[j + 1] = Turn(d, inner, rest, loop[j]) /\ loop[j].on \in BOOLEAN
      BY <1>5, <2>1 DEF Lap
    <2>3. Ahead(text, loop[j], q, c, j)
      OBVIOUS
    <2>4. Ahead(text, loop[j + 1], q, c, j + 1)
      <3> HIDE DEF P
      <3> QED BY <1>1, <2>1, <2>2, <2>3, TurnComplete
    <2> QED BY <2>1, <2>4
  <1>8. P \in SUBSET (0 .. N)
    OBVIOUS
  <1>9. P = 0 .. N
    <2> HIDE DEF P
    <2> QED BY <1>1, <1>6, <1>7, <1>8, BoundedInduction
  <1>10. Ahead(text, loop[N], q, c, N)
    BY <1>1, <1>9
  <1>11. loop[N].longest \in Offsets(text) /\ loop[N].longest # 0
    BY <1>1, <1>10 DEF Ahead
  <1> QED BY <1>5, <1>11 DEF Matched, Offsets, from, first

(* Where there is something to find, no rest is missed.                    *)
MissesNothing(f, reached, text, e) == reached[e] # {} /\ 0 \notin reached[e] => Matched(f[e])

LEMMA QuantifierComplete ==
  ASSUME NEW text, Len(text) \in Nat, NEW inner \in Function(text), NEW rest \in Function(text),
         NEW reached \in Ended(text), NEW behind \in Ended(text), Stepping(inner, reached, text),
         Forward(rest, text), Agrees(rest, behind, text),
         \A e \in Offsets(text) : Returned(rest[e]) /\ MissesNothing(rest, behind, text, e),
         NEW d, QuantifierData(d), NEW o \in Offsets(text),
         NEW c \in Counts(d, text), NEW e, e \in Steps(reached, o, c), behind[e] # {},
         0 \notin Behind(behind, UNION {Steps(reached, o, i) : i \in Counts(d, text)})
  PROVE  Matched(EvalQuantifier(d, inner, rest, text, o))
  <1> DEFINE froms == UNION {Steps(reached, o, i) : i \in Counts(d, text)}
             m == d.min
             k == c - m
  <1>1. c \in Nat /\ m \in Nat /\ m <= c /\ k \in Nat /\ m + k = c /\ m \in Counts(d, text)
    BY DEF Counts, QuantifierData
  <1>2. k \in 0 .. Turns(d, text)
    <2>1. CASE d.max = SIZE_MAX
      <3> DEFINE L == Len(text)
      <3>1. c <= m + L /\ L \in Nat /\ Turns(d, text) = L + 1
        BY <2>1 DEF Counts, Turns
      <3> HIDE DEF L
      <3> QED BY <1>1, <3>1
    <2>2. CASE d.max # SIZE_MAX
      BY <1>1, <2>2 DEF Counts, Turns, QuantifierData
    <2> QED BY <2>1, <2>2
  <1>3. PICK p \in [0 .. c -> Offsets(text)] :
          p[0] = o /\ p[c] = e /\ \A i \in 1 .. c : p[i] = inner[p[i - 1]]
    BY <1>1, StepsLead DEF Leads
  <1> DEFINE q == [i \in 0 .. k |-> p[m + i]]
             from == p[m]
             first == rest[from]
  <1> HIDE DEF k, m
  <1>4. Path(inner, text, q, k)
    <2>1. \A i \in 0 .. k : m + i \in 0 .. c
      BY <1>1
    <2>2. \A i \in 1 .. k : q[i] = inner[q[i - 1]]
      <3> SUFFICES ASSUME NEW i \in 1 .. k PROVE q[i] = inner[q[i - 1]]
        OBVIOUS
      <3>1. i \in 0 .. k /\ i - 1 \in 0 .. k /\ m + i \in 1 .. c /\ (m + i) - 1 = m + (i - 1)
        BY <1>1
      <3> QED BY <1>3, <3>1
    <2> QED BY <1>3, <2>1, <2>2 DEF Path
  <1>5. q[0] = from /\ q[k] = e /\ from \in Offsets(text) /\ e \in Offsets(text)
    <2>1. m + 0 = m /\ m + k = c /\ 0 \in 0 .. k /\ k \in 0 .. k /\ m \in 0 .. c /\ c \in 0 .. c
      BY <1>1
    <2> QED BY <1>3, <2>1
  <1> HIDE DEF q
  <1>6. AtLeast(inner, o, m) = from
    <2>1. Path(inner, text, p, c) /\ m \in 0 .. c
      BY <1>1, <1>3 DEF Path
    <2> QED BY <1>1, <1>3, <2>1, AtLeastFollows
  <1>7. from \in froms /\ e \in froms
    <2>1. Forward(inner, text) /\ Agrees(inner, reached, text)
      <3> SUFFICES ASSUME NEW x \in Offsets(text), Matched(inner[x])
                   PROVE  inner[x] >= x /\ inner[x] \in reached[x]
        BY DEF Forward, Agrees
      <3>1. inner[x] # NoMatch
        BY DEF Matched, NoMatch
      <3>2. inner[x] \in Offsets(text) /\ inner[x] > x
        BY <3>1 DEF Stepping, Springs
      <3>3. inner[x] \in reached[x]
        BY <3>1 DEF Stepping
      <3> QED BY <3>2, <3>3 DEF Offsets
    <2>2. Leads(inner, text, o, from, m)
      <3> DEFINE b == [i \in 0 .. m |-> p[i]]
      <3>1. b \in [0 .. m -> Offsets(text)] /\ b[0] = o /\ b[m] = from
        BY <1>1, <1>3
      <3>2. \A i \in 1 .. m : b[i] = inner[b[i - 1]]
        <4> SUFFICES ASSUME NEW i \in 1 .. m PROVE b[i] = inner[b[i - 1]]
          OBVIOUS
        <4>1. i \in 0 .. m /\ i - 1 \in 0 .. m /\ i \in 1 .. c
          BY <1>1
        <4> QED BY <1>3, <4>1
      <3> HIDE DEF b, from
      <3> QED BY <3>1, <3>2 DEF Leads
    <2>3. from \in Steps(reached, o, m)
      <3> HIDE DEF from
      <3> QED BY <1>1, <2>1, <2>2, LeadsSteps
    <2> QED BY <1>1, <2>3
  <1>8. 0 \notin behind[from] /\ 0 \notin behind[e]
    <2> HIDE DEF froms, from
    <2>1. 0 \notin Behind(behind, froms)
      BY DEF froms
    <2> QED BY <1>7, <2>1 DEF Behind
  <1>9. Matched(rest[e])
    BY <1>5, <1>8 DEF MissesNothing
  <1>10. Returned(first) /\ first # 0 /\ Matched(from)
    <2> HIDE DEF from
    <2>1. Returned(first)
      BY <1>5
    <2>2. first # 0
      <3> SUFFICES ASSUME first = 0 PROVE FALSE
        OBVIOUS
      <3>1. Matched(first)
        BY DEF Matched
      <3>2. first \in behind[from]
        BY <1>5, <3>1 DEF Agrees
      <3> QED BY <1>8, <3>2
    <2> QED BY <1>5, <2>1, <2>2 DEF Matched, Offsets
  <1> DEFINE r == Further(d, inner, rest, text, from, first)
  <1>11. Matched(r) /\ r # 0
    <2>1. \A x \in Offsets(text) : Returned(rest[x])
      OBVIOUS
    <2>2. Springs(inner, text)
      BY DEF Stepping
    <2>3. Matched(rest[q[k]]) /\ rest[q[0]] # 0 /\ k \in Nat
      BY <1>1, <1>5, <1>9, <1>10
    <2> HIDE DEF from
    <2>4. LET y == Further(d, inner, rest, text, q[0], rest[q[0]]) IN Matched(y) /\ y # 0
      BY <1>2, <1>4, <2>1, <2>2, <2>3, FurtherComplete
    <2> QED BY <1>5, <2>4
  <1>12. EvalQuantifier(d, inner, rest, text, o) =
           IF ~Matched(from) THEN from
           ELSE IF ~Returned(first) \/ (Matched(first) /\ d.lazy) THEN first
           ELSE IF r = 0 THEN NoMatch ELSE r
    BY <1>6 DEF EvalQuantifier, m
  <1> HIDE DEF r, first, from
  <1> QED BY <1>10, <1>11, <1>12

(* A node that takes characters, with nothing but a T_TRUE behind it.      *)
LEMMA SingleSteps ==
  ASSUME NEW h, NEW text, Len(text) \in Nat, Shape(h), Strings(h), NEW k, k \in 2 .. h.size,
         NEW n \in Pointer(h), n # 0, h.type[n] \in Single,
         h.next[n] # 0, h.type[h.next[n]] = "T_TRUE"
  PROVE  Stepping(Calls(h, text)[k][n], EndsTable(h, text)[k][n], text)
  <1> DEFINE C == Calls(h, text)
             E == EndsTable(h, text)
             N == h.size
             t == h.next[n]
  <1>1. \A i \in 1 .. N : \A m \in Pointer(h), o \in Offsets(text) :
              /\ C[i][m][o] = Call(h, text, C[i - 1], m, o)
              /\ E[i][m][o] = NodeEnds(h, text, E[i - 1], m, o)
    BY CallsUnfold, EndsUnfold
  <1> HIDE DEF C, E
  <1>2. N \in Nat /\ k \in 1 .. N /\ k - 1 \in 1 .. N
    BY DEF Shape
  <1>3. NodeShape(h, n) /\ t \in Pointer(h)
    BY DEF Shape, NodeShape
  <1>4. ASSUME NEW e \in Offsets(text) PROVE C[k - 1][t][e] = e /\ E[k - 1][t][e] = {e}
    <2>1. C[k - 1][t][e] = Call(h, text, C[(k - 1) - 1], t, e) /\ E[k - 1][t][e] = NodeEnds(h, text, E[(k - 1) - 1], t, e)
      BY <1>1, <1>2, <1>3
    <2> QED BY <2>1 DEF Call, NodeEnds, PastEnd, Single
  <1>5. ASSUME NEW e \in Offsets(text)
        PROVE  LET x == C[k][n][e]
               IN  /\ x = NoMatch \/ (x \in Offsets(text) /\ x > e)
                   /\ E[k][n][e] = IF x = NoMatch THEN {} ELSE {x}
    <2>1. C[k][n][e] = Call(h, text, C[k - 1], n, e) /\ E[k][n][e] = NodeEnds(h, text, E[k - 1], n, e)
      BY <1>1, <1>2
    <2>2. CASE e < Len(text) /\ Matches(h, n, text, e)
      <3> DEFINE x == e + Width(h, n)
      <3>1. x \in Offsets(text) /\ Width(h, n) \in Nat
        BY <1>3, <2>2, SingleFits
      <3>2. Width(h, n) # 0
        <4>1. h.type[n] = "T_STRING" => h.data[n].str \in Seq(Char) /\ h.data[n].str # <<>>
          BY <1>3 DEF Strings, NodeShape
        <4>2. h.type[n] = "T_STRING" => Len(h.data[n].str) # 0
          BY <4>1, EmptySeq
        <4> QED BY <4>2 DEF Width
      <3>3. x > e /\ x # NoMatch
        BY <3>1, <3>2 DEF Offsets, NoMatch
      <3>4. ~PastEnd(h, n, text, e)
        BY <2>2 DEF PastEnd, Offsets
      <3>5. C[k][n][e] = C[k - 1][t][x] /\ E[k][n][e] = E[k - 1][t][x]
        BY <2>1, <2>2, <3>4 DEF Call, NodeEnds
      <3>6. C[k][n][e] = x /\ E[k][n][e] = {x}
        <4> HIDE DEF x
        <4> QED BY <1>4, <3>1, <3>5
      <3> HIDE DEF x
      <3> QED BY <3>1, <3>3, <3>6
    <2>3. CASE ~(e < Len(text) /\ Matches(h, n, text, e))
      <3>1. E[k][n][e] = {}
        BY <2>1, <2>3 DEF NodeEnds
      <3>2. ~(e < Len(text)) => PastEnd(h, n, text, e)
        BY DEF PastEnd, Single, Offsets
      <3>3. C[k][n][e] = NoMatch
        BY <2>1, <2>3, <3>2 DEF Call
      <3> QED BY <3>1, <3>3
    <2> QED BY <2>2, <2>3
  <1> QED BY <1>5 DEF Stepping, Springs, C, E

(* One call finds something where there is something to find, if those     *)
(* nested in it do.  At the end of the text an alternation gives up, but a *)
(* flat pattern comes to one only at the start.                            *)
LEMMA CallComplete ==
  ASSUME NEW h, NEW text, Len(text) \in Nat, Shape(h),
         NEW calls \in Table(h, text), NEW table \in EndsOf(h, text),
         NEW n \in Pointer(h), n # 0, h.type[n] \in Known \ {"T_GROUP"},
         NEW o \in Offsets(text), h.type[n] \in Opening => o < Len(text),
         NEW rest, rest = calls[h.next[n]], NEW behind, behind = table[h.next[n]],
         NEW inner, inner = calls[h.child[n]], NEW reached, reached = table[h.child[n]],
         Forward(rest, text), Agrees(rest, behind, text),
         h.type[n] # "T_TRUE" => \A e \in Offsets(text) : Returned(rest[e]),
         h.type[n] # "T_TRUE" /\ h.type[n] \notin Opening =>
           \A e \in Offsets(text) : MissesNothing(rest, behind, text, e),
         h.type[n] \in Opening =>
           \A e \in Offsets(text) : e < Len(text) => MissesNothing(rest, behind, text, e),
         h.type[n] = "T_ALTERNATION" =>
           \A e \in Offsets(text) : e < Len(text) => Returned(inner[e]) /\ MissesNothing(inner, reached, text, e),
         h.type[n] = "T_QUANTIFIER" => Stepping(inner, reached, text),
         NodeEnds(h, text, table, n, o) # {}, 0 \notin NodeEnds(h, text, table, n, o)
  PROVE  Matched(Call(h, text, calls, n, o))
  <1> DEFINE r == Call(h, text, calls, n, o)
             all == NodeEnds(h, text, table, n, o)
  <1>1. NodeShape(h, n)
    BY DEF Shape
  <1>2. inner \in Function(text) /\ rest \in Function(text) /\ reached \in Ended(text) /\ behind \in Ended(text)
    BY <1>1 DEF NodeShape, Table, EndsOf
  <1>3. CASE h.type[n] \in Single
    <2>1. o < Len(text) /\ Matches(h, n, text, o) /\ all = behind[o + Width(h, n)]
      BY <1>3 DEF NodeEnds
    <2>2. o + Width(h, n) \in Offsets(text)
      BY <1>1, <1>3, <2>1, SingleFits
    <2>3. r = rest[o + Width(h, n)]
      <3>1. ~PastEnd(h, n, text, o)
        BY <2>1 DEF PastEnd, Offsets
      <3> QED BY <1>3, <2>1, <3>1 DEF Call
    <2>4. h.type[n] # "T_TRUE" /\ h.type[n] \notin Opening
      BY <1>3 DEF Single, Opening
    <2> DEFINE x == o + Width(h, n)
    <2>5. MissesNothing(rest, behind, text, x) /\ r = rest[x] /\ all = behind[x]
      BY <2>1, <2>2, <2>3, <2>4
    <2> HIDE DEF x
    <2> QED BY <2>5 DEF MissesNothing
  <1>4. CASE h.type[n] = "T_TRUE"
    <2>1. r = o
      BY <1>4 DEF Call, PastEnd, Single
    <2> QED BY <2>1 DEF Matched, Offsets
  <1>5. CASE h.type[n] = "T_ROOT"
    <2>1. o < Len(text)
      BY <1>5 DEF Opening
    <2>2. ~PastEnd(h, n, text, o)
      BY <2>1 DEF PastEnd, Offsets
    <2>3. r = rest[o] /\ all = behind[o]
      BY <1>5, <2>2 DEF Call, NodeEnds, Single
    <2>4. MissesNothing(rest, behind, text, o)
      BY <1>5, <2>1 DEF Opening
    <2> QED BY <2>3, <2>4 DEF MissesNothing
  <1>6. CASE h.type[n] = "T_ANCHOR_BEGIN"
    <2>1. o = 0 /\ all = behind[0]
      BY <1>6 DEF NodeEnds, Single
    <2>2. all \in SUBSET Offsets(text)
      BY NodeEndsType
    <2>3. Len(text) # 0
      <3> SUFFICES ASSUME Len(text) = 0 PROVE FALSE
        OBVIOUS
      <3>1. Offsets(text) = {0}
        BY DEF Offsets
      <3> HIDE DEF all
      <3>2. 0 \in all
        BY <2>2, <3>1 DEF all
      <3> QED BY <3>2 DEF all
    <2>4. ~PastEnd(h, n, text, o)
      BY <2>1, <2>3 DEF PastEnd
    <2>5. r = rest[o]
      BY <1>6, <2>1, <2>4 DEF Call, Single
    <2>6. MissesNothing(rest, behind, text, o)
      BY <1>6 DEF Opening
    <2> QED BY <2>1, <2>5, <2>6 DEF MissesNothing
  <1>7. CASE h.type[n] = "T_ANCHOR_END"
    <2>1. o = Len(text) /\ all = behind[o]
      BY <1>7 DEF NodeEnds, Single
    <2>2. r = rest[o]
      BY <1>7, <2>1 DEF Call, PastEnd, Single
    <2>3. MissesNothing(rest, behind, text, o)
      BY <1>7 DEF Opening
    <2> QED BY <2>1, <2>2, <2>3 DEF MissesNothing
  <1>8. CASE h.type[n] = "T_ALTERNATION"
    <2>1. o < Len(text)
      BY <1>8 DEF Opening
    <2>2. ~PastEnd(h, n, text, o)
      BY <2>1 DEF PastEnd, Offsets
    <2>3. r = EvalAlternation(inner, rest, o) /\ all = reached[o] \cup behind[o]
      BY <1>8, <2>2 DEF Call, NodeEnds, Single
    <2>4. /\ Returned(inner[o]) /\ Returned(rest[o])
          /\ MissesNothing(inner, reached, text, o) /\ MissesNothing(rest, behind, text, o)
      BY <1>8, <2>1 DEF Opening
    <2>5. Matched(inner[o]) \/ Matched(rest[o])
      BY <2>3, <2>4 DEF MissesNothing
    <2>6. inner[o] \in Outcome(text) /\ rest[o] \in Outcome(text)
      BY <1>2 DEF Function
    <2> DEFINE left == inner[o]
               right == rest[o]
    <2>7. left \in Int /\ right \in Int
      BY <2>6 DEF Outcome, NoMatch, Hang, Abort, Offsets
    <2>8. r = IF right >= left THEN right ELSE left
      BY <2>3, <2>4 DEF EvalAlternation
    <2>9. left >= 0 \/ right >= 0
      BY <2>5 DEF Matched
    <2> HIDE DEF left, right, r
    <2> QED BY <2>7, <2>8, <2>9 DEF Matched, r
  <1>9. CASE h.type[n] = "T_QUANTIFIER"
    <2> DEFINE d == h.data[n]
               froms == UNION {Steps(reached, o, c) : c \in Counts(d, text)}
    <2>1. QuantifierData(d) /\ Stepping(inner, reached, text)
      BY <1>1, <1>9 DEF NodeShape, QuantifierData
    <2>2. all = Behind(behind, froms)
      BY <1>9 DEF NodeEnds, Single
    <2>3. \A e \in Offsets(text) : Returned(rest[e]) /\ MissesNothing(rest, behind, text, e)
      BY <1>9 DEF Opening
    <2>4. PICK c \in Counts(d, text) : \E e \in Steps(reached, o, c) : behind[e] # {}
      <3>1. \E e \in froms : behind[e] # {}
        BY <2>2 DEF Behind
      <3> QED BY <3>1
    <2>5. PICK e \in Steps(reached, o, c) : behind[e] # {}
      BY <2>4
    <2>6. 0 \notin Behind(behind, froms)
      BY <2>2
    <2> HIDE DEF d
    <2>7. c \in Nat /\ d.min <= c
      BY <2>1 DEF Counts, QuantifierData
    <2>8. Matched(EvalQuantifier(d, inner, rest, text, o))
      BY <1>2, <2>1, <2>3, <2>5, <2>6, QuantifierComplete
    <2>9. ~PastEnd(h, n, text, o)
      <3> SUFFICES ASSUME PastEnd(h, n, text, o) PROVE FALSE
        OBVIOUS
      <3>1. o >= Len(text) /\ d.min # 0
        BY <1>9 DEF PastEnd, d
      <3>2. c # 0 /\ c \in Nat
        BY <2>1, <2>7, <3>1 DEF QuantifierData
      <3>3. PICK p \in [0 .. c -> Offsets(text)] :
              p[0] = o /\ p[c] = e /\ \A i \in 1 .. c : p[i] = inner[p[i - 1]]
        <4>1. Leads(inner, text, o, e, c)
          BY <1>2, <2>1, <2>5, <2>7, StepsLead
        <4> QED BY <4>1 DEF Leads
      <3>4. 1 \in 1 .. c /\ 1 - 1 = 0 /\ 1 \in 0 .. c
        BY <3>2
      <3>5. p[1] = inner[o] /\ p[1] \in Offsets(text)
        BY <3>3, <3>4
      <3>6. p[1] > o
        BY <2>1, <3>5 DEF Stepping, Springs, NoMatch, Offsets
      <3>7. p[1] <= Len(text) /\ p[1] \in Int /\ o \in Int
        BY <3>5 DEF Offsets
      <3> QED BY <3>1, <3>6, <3>7
    <2>10. r = EvalQuantifier(d, inner, rest, text, o)
      BY <1>9, <2>9 DEF Call, Single, d
    <2> QED BY <2>8, <2>10
  <1> QED BY <1>3, <1>4, <1>5, <1>6, <1>7, <1>8, <1>9 DEF Known, Branching

(* Calls that start high enough above the bottom of an ordered part of the *)
(* heap miss nothing of a flat pattern.                                    *)
FlatNode(h, n) ==
  /\ h.type[n] \notin {"T_GROUP", "T_GROUP_START"}
  /\ h.type[n] = "T_QUANTIFIER" => h.child[n] # 0 /\ h.type[h.child[n]] \in Single

LEMMA CallsReturn ==
  ASSUME NEW h, NEW text, Len(text) \in Nat, Shape(h), Strings(h),
         NEW S \in SUBSET (Pointer(h) \ {0}), NEW pos \in [S -> 1 .. h.size], Descent(h, S, pos),
         NEW k, k \in 0 .. h.size, NEW n \in S, h.size < pos[n] + k,
         \A m \in NodesTable(h)[k][n] : FlatNode(h, m), NEW o \in Offsets(text)
  PROVE  Returned(Calls(h, text)[k][n][o])
  <1> DEFINE r == Calls(h, text)[k][n][o]
  <1>1. r # Abort
    BY CallsKnow DEF FlatNode
  <1>2. r # Hang
    <2>1. ASSUME NEW m \in NodesTable(h)[k][n], h.type[m] = "T_QUANTIFIER" PROVE ~Nullable(h, h.child[m])
      <3> DEFINE c == h.child[m]
                 B == NullableTable(h)
                 N == h.size
      <3>1. c # 0 /\ h.type[c] \in Single
        BY <2>1 DEF FlatNode
      <3>2. NodesTable(h) \in [0 .. N -> [Pointer(h) -> SUBSET (Pointer(h) \ {0})]]
        BY NodesUnfold
      <3>3. n \in Pointer(h)
        OBVIOUS
      <3>4. m \in Pointer(h) \ {0}
        BY <2>1, <3>2, <3>3
      <3>5. c \in Pointer(h)
        BY <3>4 DEF Shape, NodeShape
      <3>6. B[0][c] = FALSE /\ \A i \in 1 .. N : B[i][c] = NodeNullable(h, B[i - 1], c)
        <4> HIDE DEF c
        <4> QED BY <3>5, NullableUnfold
      <3>7. N = 0 \/ N \in 1 .. N
        BY DEF Shape
      <3> HIDE DEF B, N, c
      <3>8. \A f : NodeNullable(h, f, c) => FALSE
        BY <3>1 DEF NodeNullable, Single
      <3>9. ~B[N][c]
        BY <3>6, <3>7, <3>8
      <3> QED BY <3>9 DEF Nullable, B, N, c
    <2>2. n \in Pointer(h)
      OBVIOUS
    <2> QED BY <2>1, <2>2, CallsProgress
  <1>3. r \in Outcome(text)
    <2>1. Calls(h, text)[k] \in Table(h, text) /\ n \in Pointer(h)
      BY CallsUnfold
    <2> QED BY <2>1 DEF Table, Function
  <1> QED BY <1>1, <1>2, <1>3, OffsetsMatch DEF Outcome

LEMMA CallsComplete ==
  ASSUME NEW h, NEW text, Len(text) \in Nat, Shape(h), Strings(h),
         NEW S \in SUBSET (Pointer(h) \ {0}), NEW pos \in [S -> 1 .. h.size], Descent(h, S, pos),
         \A m \in S : LinkPlaced(h, m) /\ OperandAlone(h, m),
         NEW k, k \in 0 .. h.size, NEW n \in S, h.size < pos[n] + k,
         \A m \in NodesTable(h)[k][n] : FlatNode(h, m),
         NEW o \in Offsets(text), h.type[n] \in Opening => o < Len(text)
  PROVE  MissesNothing(Calls(h, text)[k][n], EndsTable(h, text)[k][n], text, o)
  <1> DEFINE C == Calls(h, text)
             E == EndsTable(h, text)
             T == NodesTable(h)
             N == h.size
             Fine(i, m) == N < pos[m] + i /\ \A x \in T[i][m] : FlatNode(h, x)
             May(m, e) == h.type[m] \in Opening => e < Len(text)
             Ends1(i, m) == \A e \in Offsets(text) : May(m, e) => MissesNothing(C[i][m], E[i][m], text, e)
             P == {i \in 0 .. N : \A m \in S : Fine(i, m) => Ends1(i, m)}
  <1>1. /\ C \in [0 .. N -> Table(h, text)] /\ E \in [0 .. N -> EndsOf(h, text)]
        /\ \A i \in 1 .. N : \A m \in Pointer(h), e \in Offsets(text) :
              /\ C[i][m][e] = Call(h, text, C[i - 1], m, e)
              /\ E[i][m][e] = NodeEnds(h, text, E[i - 1], m, e)
    BY CallsUnfold, EndsUnfold
  <1>2. N \in Nat /\ S \subseteq Pointer(h) \ {0}
    BY DEF Shape
  <1>3. \A i \in 0 .. N : \A m \in Pointer(h) : Forward(C[i][m], text)
    BY CallsForward
  <1>4. \A i \in 1 .. N, m \in Pointer(h) \ {0} :
          /\ h.next[m] \in Pointer(h) /\ h.child[m] \in Pointer(h) /\ m \in T[i][m]
          /\ T[i - 1][h.next[m]] \subseteq T[i][m]
          /\ h.type[m] \in Branching => T[i - 1][h.child[m]] \subseteq T[i][m]
    BY NodesBelow
  <1>5. \A m \in S : pos[m] \in 1 .. N
    OBVIOUS
  <1>6. \A i \in 0 .. N : \A m \in S : Fine(i, m) => \A e \in Offsets(text) : Returned(C[i][m][e])
    BY CallsReturn
  <1>7. \A i \in 0 .. N : \A m \in Pointer(h) :
          (\A x \in T[i][m] : FlatNode(h, x)) => Agrees(C[i][m], E[i][m], text)
    BY CallsSound DEF FlatNode
  <1>8. \A i \in 2 .. N : \A m \in Pointer(h) \ {0} :
          h.type[m] \in Single /\ h.next[m] # 0 /\ h.type[h.next[m]] = "T_TRUE" =>
            Stepping(C[i][m], E[i][m], text)
    BY SingleSteps
  <1> HIDE DEF C, E, T, N
  <1>9. 0 \in P
    BY <1>2, <1>5
  <1>10. ASSUME NEW i \in P, i < N PROVE i + 1 \in P
    <2>0. i \in 0 .. N
      OBVIOUS
    <2>1. i + 1 \in 1 .. N /\ (i + 1) - 1 = i /\ i + 1 \in 0 .. N /\ i \in 0 .. N
      <3> HIDE DEF P
      <3> QED BY <1>2, <1>10, <2>0
    <2>2. ASSUME NEW m \in S, Fine(i + 1, m), NEW e \in Offsets(text), May(m, e),
                 E[i + 1][m][e] # {}, 0 \notin E[i + 1][m][e]
          PROVE  Matched(C[i + 1][m][e])
      <3> DEFINE b == h.next[m]
                 c == h.child[m]
      <3>1. /\ C[i + 1][m][e] = Call(h, text, C[i], m, e)
            /\ E[i + 1][m][e] = NodeEnds(h, text, E[i], m, e)
            /\ m \in Pointer(h) /\ m # 0
        BY <1>1, <1>2, <2>1, <2>2
      <3>2. C[i] \in Table(h, text) /\ E[i] \in EndsOf(h, text)
        BY <1>1, <2>1
      <3>3. /\ b \in Pointer(h) /\ c \in Pointer(h) /\ m \in T[i + 1][m]
            /\ T[i][b] \subseteq T[i + 1][m]
            /\ h.type[m] \in Branching => T[i][c] \subseteq T[i + 1][m]
        BY <1>4, <2>1, <3>1
      <3>4. FlatNode(h, m)
        BY <2>2, <3>3
      <3>5. h.type[m] \in Known \ {"T_GROUP"}
        BY <3>4 DEF Descent, FlatNode
      <3>6. /\ h.type[m] # "T_TRUE" => b \in S /\ pos[m] < pos[b] /\ N < pos[b] + i
            /\ h.type[m] \in Branching => c \in S /\ pos[m] < pos[c] /\ N < pos[c] + i
        <4>1. /\ h.type[m] # "T_TRUE" => b \in S /\ pos[m] < pos[b]
              /\ h.type[m] \in Branching => c \in S /\ pos[m] < pos[c]
          BY DEF Descent
        <4>2. N < pos[m] + (i + 1) /\ pos[m] \in Nat /\ i \in Nat
          BY <1>2, <1>5, <2>1, <2>2
        <4> HIDE DEF b, c
        <4> QED BY <1>2, <1>5, <4>1, <4>2
      <3>7. /\ h.type[m] # "T_TRUE" => Fine(i, b)
            /\ h.type[m] \in Branching => Fine(i, c)
        BY <2>2, <3>3, <3>6
      <3>8. /\ h.type[m] # "T_TRUE" => Ends1(i, b)
            /\ h.type[m] \in Branching => Ends1(i, c)
        <4> HIDE DEF Fine, Ends1
        <4> QED BY <3>6, <3>7
      <3>9. Forward(C[i][b], text) /\ Agrees(C[i][b], E[i][b], text)
        <4>1. \A x \in T[i][b] : FlatNode(h, x)
          BY <2>2, <3>3
        <4> QED BY <1>3, <1>7, <2>1, <3>3, <4>1
      <3>10. /\ h.type[m] # "T_TRUE" => \A x \in Offsets(text) : Returned(C[i][b][x])
             /\ h.type[m] \in Branching => \A x \in Offsets(text) : Returned(C[i][c][x])
        <4> HIDE DEF Fine
        <4> QED BY <1>6, <2>1, <3>6, <3>7
      <3>11. h.type[m] # "T_TRUE" /\ h.type[m] \notin Opening => h.type[b] \notin Opening
        <4>1. h.type[m] # "T_TRUE" => b # 0
          BY <1>2, <3>6
        <4>2. LinkPlaced(h, m) /\ h.type[m] # "T_GROUP_START"
          BY <3>4 DEF FlatNode
        <4> QED BY <4>1, <4>2 DEF LinkPlaced, Opening
      <3>12. h.type[m] # "T_TRUE" /\ h.type[m] \notin Opening =>
               \A x \in Offsets(text) : MissesNothing(C[i][b], E[i][b], text, x)
        BY <3>8, <3>11
      <3>13. h.type[m] \in Opening =>
               \A x \in Offsets(text) : x < Len(text) => MissesNothing(C[i][b], E[i][b], text, x)
        BY <3>8 DEF Opening
      <3>14. h.type[m] = "T_ALTERNATION" =>
               \A x \in Offsets(text) : x < Len(text) =>
                 Returned(C[i][c][x]) /\ MissesNothing(C[i][c], E[i][c], text, x)
        BY <3>8, <3>10 DEF Branching
      <3>15. h.type[m] = "T_QUANTIFIER" => Stepping(C[i][c], E[i][c], text)
        <4> SUFFICES ASSUME h.type[m] = "T_QUANTIFIER" PROVE Stepping(C[i][c], E[i][c], text)
          OBVIOUS
        <4>1. c # 0 /\ h.type[c] \in Single
          BY <3>4 DEF FlatNode
        <4>2. h.next[c] # 0 /\ h.type[h.next[c]] = "T_TRUE"
          BY <4>1 DEF OperandAlone
        <4>3. c \in S /\ N < pos[c] + i
          BY <3>6 DEF Branching
        <4>4. h.next[c] \in S /\ pos[c] < pos[h.next[c]]
          BY <4>1, <4>3 DEF Descent, Single
        <4>5. i \in 2 .. N
          <5> HIDE DEF c
          <5>1. pos[c] \in 1 .. N /\ pos[h.next[c]] \in 1 .. N
            BY <1>5, <4>3, <4>4
          <5> DEFINE u == pos[c]
                     v == pos[h.next[c]]
          <5>2. u \in 1 .. N /\ v \in 1 .. N /\ u < v /\ N < u + i /\ i \in 0 .. N
            BY <2>1, <4>3, <4>4, <5>1
          <5> HIDE DEF u, v, P
          <5> QED BY <1>2, <5>2
        <4> HIDE DEF c
        <4> QED BY <1>2, <1>8, <4>1, <4>2, <4>3, <4>5
      <3>16. h.type[m] \in Opening => e < Len(text)
        BY <2>2
      <3> HIDE DEF Fine, Ends1, May
      <3>17. C[i][b] = C[i][h.next[m]] /\ E[i][b] = E[i][h.next[m]] /\ C[i][c] = C[i][h.child[m]]
               /\ E[i][c] = E[i][h.child[m]]
        OBVIOUS
      <3>18. NodeEnds(h, text, E[i], m, e) # {} /\ 0 \notin NodeEnds(h, text, E[i], m, e)
        BY <2>2, <3>1
      <3> HIDE DEF b, c
      <3>19. Matched(Call(h, text, C[i], m, e))
        BY <3>1, <3>2, <3>5, <3>9, <3>10, <3>12, <3>13, <3>14, <3>15, <3>16, <3>17, <3>18, CallComplete
      <3> QED BY <3>1, <3>19
    <2> HIDE DEF Fine
    <2> QED BY <2>1, <2>2 DEF MissesNothing
  <1>11. P = 0 .. N
    <2>1. P \in SUBSET (0 .. N)
      OBVIOUS
    <2> HIDE DEF P
    <2> QED BY <1>2, <1>9, <1>10, <2>1, BoundedInduction
  <1>12. k \in P /\ Fine(k, n) /\ May(n, o)
    BY <1>11 DEF N, T
  <1> QED BY <1>12 DEF C, E

(* FlatComplete: of a flat pattern no match is missed, except an empty one *)
(* at the start of the text, since every way to split the text between the *)
(* quantifiers is tried.                                                   *)
THEOREM FlatFinds ==
  ASSUME ~ReuseAfterError
  PROVE  Spec => []FlatComplete
  <1>1. IInv /\ BuildInv /\ Filled(re) /\ PlaceInv => FlatComplete
    <2> SUFFICES ASSUME IInv, BuildInv, Filled(re), PlaceInv, NEW n \in Compiled, Flat(n),
                        NEW text \in Texts, NEW o \in 0 .. Len(text) - 1,
                        Ends(Built, text, n, o) # {}, 0 \notin Ends(Built, text, n, o)
                 PROVE  Matched(Eval(Built, text, n, o))
      BY DEF FlatComplete
    <2> DEFINE h == Built
               k == h.size
    <2>1. TypeOK
      BY DEF TypeOK, IInv, HeapIInv
    <2>2. /\ Shape(h) /\ Len(text) \in Nat /\ h.type = re.type /\ h.next = re.next /\ h.child = re.child
          /\ \A m \in Node : re.type[m] # "T_CHARCLASS" => h.data[m] = re.data[m]
          /\ Pointer(h) = 0 .. MaxNodes /\ n \in Pointer(h)
      BY <2>1, BuiltShape
    <2>3. \E S \in SUBSET (Live(re) \cap (Pointer(h) \ {0})) :
            \E pos \in [S -> 1 .. h.size] : n \in S /\ Descent(h, S, pos)
      BY CompiledDescends
    <2> HIDE DEF h
    <2>4. PICK S \in SUBSET (Live(re) \cap (Pointer(h) \ {0})) :
            \E pos \in [S -> 1 .. h.size] : n \in S /\ Descent(h, S, pos)
      BY <2>3
    <2>5. PICK pos \in [S -> 1 .. h.size] : n \in S /\ Descent(h, S, pos)
      BY <2>4
    <2>6. S \in SUBSET (Pointer(h) \ {0}) /\ S \subseteq Live(re)
      OBVIOUS
    <2>7. Strings(h)
      <3>1. Pointer(h) \ {0} = Node
        BY <2>2 DEF Node
      <3> QED BY <2>2, <3>1 DEF Strings, Filled
    <2>8. \A m \in S : LinkPlaced(h, m) /\ OperandAlone(h, m)
      <3>1. pc \notin {"freeing", "freed"}
        BY DEF Compiled
      <3>2. Placed(re)
        BY <3>1 DEF PlaceInv
      <3> QED BY <2>2, <2>6, <3>2 DEF Placed, LinkPlaced, OperandAlone
    <2>9. \A m \in NodesTable(h)[k][n] : FlatNode(h, m)
      BY <2>2 DEF Flat, FlatNode, Nodes, NULL, h
    <2>10. k \in 0 .. h.size /\ h.size < pos[n] + k
      <3>1. pos[n] \in 1 .. h.size
        BY <2>5
      <3> QED BY <2>2, <3>1 DEF Shape
    <2>11. o \in Offsets(text) /\ o < Len(text)
      BY <2>2 DEF Offsets
    <2> HIDE DEF k
    <2>12. MissesNothing(Calls(h, text)[k][n], EndsTable(h, text)[k][n], text, o)
      BY <2>2, <2>5, <2>6, <2>7, <2>8, <2>9, <2>10, <2>11, CallsComplete
    <2> QED BY <2>12 DEF MissesNothing, Eval, Ends, h, k
  <1> QED BY <1>1, InductiveBuild, InductiveFilled, InductivePlace, PTL

-----------------------------------------------------------------------------
(* xgrep takes the compiler's steps and no others: what is proved of the   *)
(* compiler and the matcher holds of the patterns it searches with.        *)
LEMMA GrepCompiles == GrepSpec => Spec
  <1>1. GrepInit => Init
    BY DEF GrepInit
  <1>2. [GrepNext]_<<vars, grep>> => [Next]_vars
    <2> SUFFICES ASSUME [GrepNext]_<<vars, grep>> PROVE Next \/ vars' = vars
      OBVIOUS
    <2>1. CASE Compile
      BY <2>1 DEF Compile, Next
    <2>2. CASE Release \/ Free
      BY <2>2 DEF Release, Free, Next
    <2>3. CASE ReadLine \/ SearchLine \/ CountLine
      BY <2>3 DEF ReadLine, SearchLine, CountLine
    <2>4. CASE <<vars, grep>>' = <<vars, grep>>
      BY <2>4
    <2> QED BY <2>1, <2>2, <2>3, <2>4 DEF GrepNext
  <1> QED BY <1>1, <1>2, PTL DEF GrepSpec, Spec

(* Of the places where a call does not fail, one comes before the others.  *)
LEMMA EarliestHit ==
  ASSUME NEW H \in SUBSET (Nat \X Nat), H # {}
  PROVE  \E t \in H : \A u \in H \ {t} : Before(t, u)
  <1> DEFINE I == {t[1] : t \in H}
  <1>1. I \in SUBSET Nat /\ I # {}
    OBVIOUS
  <1>2. PICK i \in I : \A j \in I : i <= j
    <2> HIDE DEF I
    <2> QED BY <1>1, LeastNatural
  <1> DEFINE J == {t[2] : t \in {u \in H : u[1] = i}}
  <1>3. J \in SUBSET Nat /\ J # {}
    OBVIOUS
  <1>4. PICK o \in J : \A p \in J : o <= p
    <2> HIDE DEF J
    <2> QED BY <1>3, LeastNatural
  <1>5. PICK t \in H : t[1] = i /\ t[2] = o
    BY <1>4
  <1>6. ASSUME NEW u \in H \ {t} PROVE Before(t, u)
    <2>1. /\ u[1] \in Nat /\ u[2] \in Nat /\ i \in Nat /\ o \in Nat
          /\ u = <<u[1], u[2]>> /\ t = <<i, o>>
      BY <1>1, <1>3, <1>5
    <2>2. i <= u[1]
      BY <1>2
    <2>3. CASE u[1] = i
      <3>1. u[2] \in J
        BY <2>3
      <3>2. o <= u[2] /\ u[2] # o
        BY <1>4, <2>1, <2>3, <3>1
      <3> QED BY <1>5, <2>1, <2>3, <3>2 DEF Before
    <2>4. CASE u[1] # i
      BY <1>5, <2>1, <2>2, <2>4 DEF Before
    <2> QED BY <2>3, <2>4
  <1> QED BY <1>6

(* A search finds something exactly when there is something to find.       *)
LEMMA MatchFinds ==
  ASSUME NEW outcomes, DOMAIN outcomes \subseteq Nat \X Nat, NEW from
  PROVE  Match(outcomes, from) # NotFound
           <=> \E t \in DOMAIN outcomes : t[2] >= from /\ outcomes[t] # NoMatch
  <1> DEFINE H == {t \in DOMAIN outcomes : t[2] >= from /\ outcomes[t] # NoMatch}
  <1>1. CASE H = {}
    BY <1>1 DEF Match
  <1>2. CASE H # {}
    <2> DEFINE t == CHOOSE t \in H : \A u \in H \ {t} : Before(t, u)
               m == [id |-> t[1], offset |-> t[2], end |-> outcomes[t]]
    <2>1. t \in H
      <3>1. H \in SUBSET (Nat \X Nat)
        OBVIOUS
      <3> HIDE DEF H
      <3> QED BY <1>2, <3>1, EarliestHit
    <2>2. Match(outcomes, from) = m
      BY <1>2 DEF Match
    <2>3. m.end = outcomes[t] /\ outcomes[t] # NoMatch
      BY <2>1
    <2> HIDE DEF m, t
    <2>4. m # NotFound
      BY <2>3 DEF NotFound
    <2> QED BY <1>2, <2>2, <2>4
  <1> QED BY <1>1, <1>2

(* Where no match is left to find, the flag is right.                      *)
HitRight == stage = "count" => (hit <=> Match(ends, 0) # NotFound)

(* Until a match is found the search is at the start of its line, and one  *)
(* that was found is there for a search from the start.                    *)
GrepInv ==
  stage \in {"search", "count"} =>
    /\ DOMAIN ends \subseteq Nat \X Nat
    /\ ~hit => at = 0
    /\ hit => Match(ends, 0) # NotFound
    /\ hit \in BOOLEAN
    /\ Len(line) \in Nat
    /\ \A t \in DOMAIN ends : t[2] < Len(line)
    /\ HitRight

LEMMA GrepStep == TypeOK /\ GrepInv /\ [GrepNext]_<<vars, grep>> => GrepInv'
  <1> SUFFICES ASSUME TypeOK, GrepInv, [GrepNext]_<<vars, grep>> PROVE GrepInv'
    OBVIOUS
  <1>1. CASE Compile \/ Free \/ <<vars, grep>>' = <<vars, grep>>
    <2>1. UNCHANGED grep
      BY <1>1 DEF Compile, Free
    <2>2. Match(ends, 0)' = Match(ends, 0) /\ NotFound' = NotFound
      BY <2>1 DEF grep, Match, NotFound, Before, NoMatch
    <2> QED BY <2>1, <2>2 DEF GrepInv, HitRight, grep
  <1>2. CASE Release \/ CountLine
    <2>1. stage' \notin {"search", "count"}
      BY <1>2 DEF Release, CountLine
    <2> QED BY <2>1 DEF GrepInv
  <1>3. CASE ReadLine
    <2>1. PICK text \in Texts : line' = text /\ ends' = Outcomes(text)
      BY <1>3 DEF ReadLine
    <2>2. at' = 0 /\ hit' = FALSE /\ stage' = "search"
      BY <1>3 DEF ReadLine
    <2>3. DOMAIN ends' \subseteq Nat \X Nat
      <3>1. Len(text) \in Nat /\ Len(patterns) \in Nat /\ DOMAIN patterns = 1 .. Len(patterns)
        BY TextAssumption DEF TypeOK, ControlType
      <3>2. DOMAIN ends' = (DOMAIN patterns) \X (0 .. Len(text) - 1)
        BY <2>1 DEF Outcomes
      <3>3. (0 .. Len(text) - 1) \subseteq Nat /\ DOMAIN patterns \subseteq Nat
        BY <3>1
      <3> QED BY <3>2, <3>3
    <2>4. Len(text) \in Nat
      BY TextAssumption
    <2>5. \A t \in DOMAIN ends' : t[2] < Len(text)
      <3>1. DOMAIN ends' = (DOMAIN patterns) \X (0 .. Len(text) - 1)
        BY <2>1 DEF Outcomes
      <3> QED BY <2>4, <3>1
    <2> QED BY <2>1, <2>2, <2>3, <2>4, <2>5 DEF GrepInv, HitRight
  <1>4. CASE SearchLine
    <2>0. /\ ends' = ends /\ line' = line /\ stage = "search"
          /\ Match(ends, 0)' = Match(ends, 0) /\ NotFound' = NotFound
      BY <1>4 DEF SearchLine, Match, NotFound, Before, NoMatch
    <2>1. CASE Match(ends, at) = NotFound /\ stage' = "count" /\ UNCHANGED <<at, hit>>
      BY <2>0, <2>1 DEF GrepInv, HitRight
    <2>2. CASE Matched(Match(ends, at).end) /\ hit' = TRUE /\ stage' = stage
      <3>1. Match(ends, at) # NotFound
        BY <2>2 DEF Matched, NotFound, NoMatch
      <3>2. PICK t \in DOMAIN ends : ends[t] # NoMatch
        BY <2>0, <3>1, MatchFinds DEF GrepInv
      <3>3. t[2] >= 0
        BY <2>0 DEF GrepInv
      <3>4. Match(ends, 0) # NotFound
        BY <2>0, <3>2, <3>3, MatchFinds DEF GrepInv
      <3> QED BY <2>0, <2>2, <3>4 DEF GrepInv, HitRight
    <2>3. CASE stage' = "abort"
      BY <2>3 DEF GrepInv
    <2> QED BY <1>4, <2>1, <2>2, <2>3 DEF SearchLine
  <1> QED BY <1>1, <1>2, <1>3, <1>4 DEF GrepNext

(* Where the count of a line begins, the flag says whether the line has a  *)
(* match: a search that never left the start of the line has none to find, *)
(* or the line is empty.                                                   *)
LEMMA CountStep == TypeOK /\ GrepInv /\ [GrepNext]_<<vars, grep>> =>
  [found' = IF stage' = "read" THEN Counted ELSE found]_<<vars, grep>>
  <1> SUFFICES ASSUME GrepInv, GrepNext
      PROVE found' = IF stage' = "read" THEN Counted ELSE found
    OBVIOUS
  <1>1. CASE Compile \/ Free
    <2>1. stage' = stage /\ stage # "read" /\ found' = found
      BY <1>1 DEF Compile, Free, grep
    <2> QED BY <2>1
  <1>2. CASE Release \/ ReadLine \/ SearchLine
    <2>1. CASE Release
      BY <2>1 DEF Release
    <2>2. CASE ReadLine
      BY <2>2 DEF ReadLine
    <2>3. CASE SearchLine
      <3>1. stage' # "read" /\ found' = found
        BY <2>3 DEF SearchLine
      <3> QED BY <3>1
    <2> QED BY <1>2, <2>1, <2>2, <2>3
  <1>3. CASE CountLine
    <2>1. stage' = "read" /\ found' = IF hit THEN found + 1 ELSE found
      BY <1>3 DEF CountLine
    <2>2. stage \in {"search", "count"} /\ hit \in BOOLEAN
      BY <1>3 DEF CountLine, GrepInv
    <2>3. hit <=> Match(ends, 0) # NotFound
      <3>1. CASE stage = "count"
        BY <2>2, <3>1 DEF GrepInv, HitRight
      <3>2. CASE stage = "search" /\ hit
        BY <3>2 DEF GrepInv
      <3>3. CASE stage = "search" /\ ~hit
        <4>1. Len(line) = 0
          BY <1>3, <3>3 DEF GrepInv, CountLine
        <4>2. DOMAIN ends \subseteq Nat \X Nat /\ \A t \in DOMAIN ends : t[2] < 0
          BY <2>2, <4>1 DEF GrepInv
        <4>3. \A t \in DOMAIN ends : t[2] \in Nat
          BY <4>2
        <4>4. ~\E t \in DOMAIN ends : t[2] >= 0 /\ ends[t] # NoMatch
          BY <4>2, <4>3
        <4> QED BY <3>3, <4>2, <4>4, MatchFinds
      <3> QED BY <2>2, <3>1, <3>2, <3>3
    <2> QED BY <2>1, <2>3 DEF Counted
  <1> QED BY <1>1, <1>2, <1>3 DEF GrepNext

(* CountedRight: xgrep adds one to its count for a line exactly when a     *)
(* call of regexx_match on the whole of it would find something, however   *)
(* many matches it has gone over, and wherever they end.                   *)
THEOREM LinesCounted == GrepSpec => CountedRight
  <1>1. GrepInit => GrepInv
    BY DEF GrepInit, GrepInv
  <1>2. TypeOK /\ GrepInv /\ [GrepNext]_<<vars, grep>> => GrepInv'
    BY GrepStep
  <1>3. TypeOK /\ GrepInv /\ [GrepNext]_<<vars, grep>> =>
          [found' = IF stage' = "read" THEN Counted ELSE found]_<<vars, grep>>
    BY CountStep
  <1>4. GrepSpec => []TypeOK
    BY GrepCompiles, TypeCorrect, PTL
  <1> QED BY <1>1, <1>2, <1>3, <1>4, PTL DEF GrepSpec, CountedRight
=============================================================================
