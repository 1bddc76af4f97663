----------------------------- MODULE AbstractMap -----------------------------
(***************************************************************************)
(* What src/examples/util-hashmap.h promises of a hash map: a partial      *)
(* function from names to values.  A call that has to add a name may fail  *)
(* for lack of memory instead; nothing else may go wrong.                  *)
(***************************************************************************)
CONSTANTS Name, Value, NULL

VARIABLES
  map,       (* The names that are in the map, with their values.          *)
  call,      (* The last call: the function and its arguments,             *)
  returned,  (* what it returned                                           *)
  errno      (* and whether memory ran out in it.                          *)

mvars == <<map, call, returned, errno>>

Known(n) == n \in DOMAIN map
At(n) == IF Known(n) THEN map[n] ELSE NULL
With(n, v) == [m \in DOMAIN map \cup {n} |-> IF m = n THEN v ELSE map[m]]
Without(n) == [m \in DOMAIN map \ {n} |-> map[m]]

MInit ==
  /\ map = [n \in {} |-> NULL]
  /\ call = <<"create", NULL, NULL>>
  /\ returned = NULL
  /\ errno = FALSE

Returns(f, n, v, r) == call' = <<f, n, v>> /\ returned' = r /\ errno' = FALSE

NoMemory(n, v) ==
  /\ ~Known(n)
  /\ \E f \in {"put", "memoize"} : call' = <<f, n, v>>
  /\ returned' = NULL /\ errno' = TRUE
  /\ UNCHANGED map

Put(n, v) == map' = With(n, v) /\ Returns("put", n, v, At(n))

Get(n) == Returns("get", n, NULL, At(n)) /\ UNCHANGED map

Contains(n) == Returns("contains", n, NULL, Known(n)) /\ UNCHANGED map

Memoize(n, v) ==
  LET w == IF Known(n) THEN map[n] ELSE v
  IN  map' = With(n, w) /\ Returns("memoize", n, v, w)

Remove(n) == map' = Without(n) /\ Returns("remove", n, NULL, At(n))

(* Nothing may be asked of a map that was freed.                           *)
Free == call' = <<"free", NULL, NULL>> /\ map' = [n \in {} |-> NULL]
        /\ returned' = NULL /\ errno' = FALSE

MNext ==
  /\ call[1] # "free"
  /\ \/ \E n \in Name :
          \/ \E v \in Value : Put(n, v) \/ Memoize(n, v) \/ NoMemory(n, v)
          \/ Get(n)
          \/ Contains(n)
          \/ Remove(n)
     \/ Free

MSpec == MInit /\ [][MNext]_mvars
=============================================================================
