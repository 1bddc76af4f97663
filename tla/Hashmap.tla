------------------------------- MODULE Hashmap -------------------------------
(***************************************************************************)
(* src/examples/util-hashmap.c: chains of entries in a table of buckets    *)
(* that doubles when it is three quarters full.  Keys are pointers; two of *)
(* them may stand for one name.  Any allocation may fail.                  *)
(***************************************************************************)
EXTENDS Integers, Sequences, FiniteSets

CONSTANTS
  Key,             (* Pointers to keys,                                    *)
  Name,            (* what they stand for                                  *)
  NameOf,          (* (two keys are equals() if it is the same)            *)
  HashOf,          (* and _hash_from_key, the caller's hash stirred.       *)
  Value,           (* Values of the entries.                               *)
  NULL,            (* A null pointer, also as a value.                     *)
  initialCapacity, (* hashmapCreate's argument.                            *)
  MaxBuckets       (* Bound: beyond it the table cannot be allocated.      *)

ASSUME KeyAssumption ==
  /\ NameOf \in [Key -> Name]
  /\ HashOf \in [Key -> Nat]
  /\ \A k, l \in Key : NameOf[k] = NameOf[l] => HashOf[k] = HashOf[l]
  /\ NULL \in Value /\ NULL \notin Key
ASSUME SizeAssumption == initialCapacity \in Nat /\ MaxBuckets \in Nat

VARIABLES
  buckets,   (* The chain of each bucket, from its first entry.            *)
  size,      (* map->size                                                  *)
  call,      (* The last call: the function and its arguments,             *)
  returned,  (* what it returned                                           *)
  errno,     (* and whether it set errno to ENOMEM.                        *)
  cursor,    (* Where a hashmapForEach under way is,                       *)
  begun,     (* the names that were in the map when it began               *)
  visited    (* and those that it has called back with.                    *)

hvars == <<buckets, size, call, returned, errno, cursor, begun, visited>>

Entry == [key: Key, hash: Nat, value: Value]

bucketCount == Cardinality(DOMAIN buckets)
IndexFromHash(count, hash) == hash % count
Entries == UNION {{buckets[i][p] : p \in DOMAIN buckets[i]} : i \in DOMAIN buckets}
Home(k) == IndexFromHash(bucketCount, HashOf[k])

EqualHash(entry, k) == entry.hash = HashOf[k]   (* mutant: no equals()     *)
EqualKeys(entry, k) ==
  entry.key = k \/ (entry.hash = HashOf[k] /\ NameOf[entry.key] = NameOf[k])

(* The place of key k in its chain: the first entry that is equal to it.   *)
Hits(k) == {p \in DOMAIN buckets[Home(k)] : EqualKeys(buckets[Home(k)][p], k)}
IsFound(k) == Hits(k) # {}
Place(k) == CHOOSE p \in Hits(k) : \A q \in Hits(k) : p <= q
Found(k) == buckets[Home(k)][Place(k)]

-----------------------------------------------------------------------------
IndexKept(entry, count) == IndexFromHash(count \div 2, entry.hash)  (* mutant: old mask *)
NewIndex(entry, count) == IndexFromHash(count, entry.hash)

(* "Move over existing entries": what the first p entries of a chain leave *)
(* in bucket j, as each one that belongs there is put in front.            *)
Moved(chain, count, j) ==
  LET moved[p \in 0 .. Len(chain)] ==
        IF p = 0 THEN <<>>
        ELSE IF NewIndex(chain[p], count) = j THEN <<chain[p]>> \o moved[p - 1]
        ELSE moved[p - 1]
  IN  moved[Len(chain)]

(* With twice as many buckets each chain splits in two.                    *)
Expanded(old, count) ==
  [j \in 0 .. count - 1 |-> Moved(old[j % (count \div 2)], count, j)]

Loaded(s, count) == s > (count * 3) \div 4

NewBucketCount == 2 * bucketCount

(* expandIfNecessary, which carries on with the old table if calloc fails. *)
ExpandIfNecessary(new, s) ==
  \/ /\ Loaded(s, bucketCount)
     /\ NewBucketCount <= MaxBuckets
     /\ buckets' = Expanded(new, NewBucketCount)
  \/ buckets' = new

Appended(k, v) ==
  [buckets EXCEPT ![Home(k)] = Append(@, [key |-> k, hash |-> HashOf[k], value |-> v])]

(* "*p = current->next"                                                    *)
Cut(chain, p) == SubSeq(chain, 1, p - 1) \o SubSeq(chain, p + 1, Len(chain))

-----------------------------------------------------------------------------
(* hashmapCreate: from 1 on, "bucketCount <<= 1" until it is above 4/3 of  *)
(* the capacity, which takes no more rounds than that is.                  *)
InitialCount ==
  LET minimum == (initialCapacity * 4) \div 3
      doubled[n \in 0 .. minimum] == IF n = 0 THEN 1 ELSE 2 * doubled[n - 1]
      rounds == {n \in 0 .. minimum : doubled[n] > minimum}
  IN  doubled[CHOOSE n \in rounds : \A m \in rounds : n <= m]

MapInit ==
  /\ buckets = [i \in 0 .. InitialCount - 1 |-> <<>>]
  /\ size = 0
  /\ call = <<"create", NULL, NULL>>
  /\ returned = NULL
  /\ errno = FALSE
  /\ cursor = NULL
  /\ begun = {}
  /\ visited = <<>>

Idle == cursor = NULL
Quiet == UNCHANGED <<cursor, begun, visited>>
Asks(f, k, v) == call' = <<f, NameOf[k], v>>
Answer(r) == returned' = r /\ errno' = FALSE
Unmoved == UNCHANGED <<buckets, size>>

NoMemory == returned' = NULL /\ errno' = TRUE /\ Unmoved

(* _create_entry at the end of the chain, or ENOMEM.                       *)
AddEntry(k, v, answer) ==
  \/ /\ size' = size + 1
     /\ ExpandIfNecessary(Appended(k, v), size')
     /\ Answer(answer)
  \/ NoMemory

hashmapPut(k, v) ==
  /\ Idle /\ Quiet
  /\ Asks("put", k, v)
  /\ IF IsFound(k)
       THEN /\ buckets' = [buckets EXCEPT ![Home(k)][Place(k)].value = v]
            /\ Answer(Found(k).value)
            /\ UNCHANGED size
       ELSE AddEntry(k, v, NULL)

ValueAt(k) == IF IsFound(k) THEN Found(k).value ELSE NULL

hashmapGet(k) ==
  Idle /\ Quiet /\ Unmoved /\ Asks("get", k, NULL) /\ Answer(ValueAt(k))

hashmapContainsKey(k) ==
  Idle /\ Quiet /\ Unmoved /\ Asks("contains", k, NULL) /\ Answer(IsFound(k))

(* The callback returns v and leaves the map alone.                        *)
hashmapMemoize(k, v) ==
  /\ Idle /\ Quiet
  /\ Asks("memoize", k, v)
  /\ IF IsFound(k) THEN Unmoved /\ Answer(Found(k).value)
     ELSE AddEntry(k, v, v)

RemoveEntry(k) ==
  /\ Asks("remove", k, NULL)
  /\ IF IsFound(k)
       THEN /\ buckets' = [buckets EXCEPT ![Home(k)] = Cut(@, Place(k))]
            /\ size' = size - 1
            /\ Answer(Found(k).value)
       ELSE Unmoved /\ Answer(NULL)

hashmapRemove(k) == Idle /\ Quiet /\ RemoveEntry(k)

-----------------------------------------------------------------------------
(* The first entry of bucket i, named by its key, or NULL.                 *)
FirstEntry(i) ==
  IF i < bucketCount /\ buckets[i] # <<>> THEN Head(buckets[i]).key ELSE NULL

SecondBucket == 1   (* mutant: i = 1                                        *)
FirstBucket == 0

NamesIn == {NameOf[e.key] : e \in Entries}

BeginForEach ==
  /\ Idle
  /\ cursor' = [bucket |-> FirstBucket, entry |-> FirstEntry(FirstBucket)]
  /\ begun' = NamesIn
  /\ visited' = <<>>
  /\ Unmoved /\ UNCHANGED <<call, returned, errno>>

NextBucket ==
  /\ ~Idle
  /\ cursor.entry = NULL
  /\ cursor.bucket < bucketCount
  /\ cursor' = [bucket |-> cursor.bucket + 1, entry |-> FirstEntry(cursor.bucket + 1)]
  /\ Unmoved /\ UNCHANGED <<call, returned, errno, begun, visited>>

(* "Entry *next = entry->next" comes before the callback.                  *)
Successor(chain) ==
  LET here == CHOOSE p \in DOMAIN chain : chain[p].key = cursor.entry
  IN  IF here < Len(chain) THEN chain[here + 1].key ELSE NULL

Finish ==
  /\ cursor' = NULL /\ begun' = {} /\ visited' = <<>>
  /\ Unmoved /\ UNCHANGED <<call, returned, errno>>

CallbackLate ==   (* mutant: reads entry->next after the callback          *)
  /\ ~Idle
  /\ cursor.entry # NULL
  /\ visited' = Append(visited, NameOf[cursor.entry])
  /\ UNCHANGED begun
  /\ RemoveEntry(cursor.entry)
  /\ \E k \in Key \cup {NULL} : cursor' = [cursor EXCEPT !.entry = k]
(* The callback goes on, goes on after it has removed the entry it was     *)
(* given, or stops.                                                        *)
Callback ==
  /\ ~Idle
  /\ cursor.entry # NULL
  /\ LET further ==
           /\ cursor' = [cursor EXCEPT !.entry = Successor(buckets[cursor.bucket])]
           /\ visited' = Append(visited, NameOf[cursor.entry])
           /\ UNCHANGED begun
     IN  \/ further /\ Unmoved /\ UNCHANGED <<call, returned, errno>>
         \/ further /\ RemoveEntry(cursor.entry)
         \/ Finish

EndForEach ==
  /\ ~Idle
  /\ cursor.bucket = bucketCount
  /\ Finish

(* hashmapFree.  No call may follow it.                                    *)
hashmapFree ==
  /\ Idle /\ Quiet
  /\ buckets' = <<>> /\ size' = 0
  /\ call' = <<"free", NULL, NULL>> /\ Answer(NULL)

Exists == bucketCount # 0

MapNext ==
  /\ Exists
  /\ \/ \E k \in Key :
          \/ \E v \in Value : hashmapPut(k, v) \/ hashmapMemoize(k, v)
          \/ hashmapGet(k)
          \/ hashmapContainsKey(k)
          \/ hashmapRemove(k)
     \/ BeginForEach
     \/ NextBucket
     \/ Callback
     \/ EndForEach
     \/ hashmapFree

MapSpec == MapInit /\ [][MapNext]_hvars

-----------------------------------------------------------------------------
(* A lookup reaches every entry in the table: however often the table has  *)
(* grown, or failed to grow, each entry is in the bucket of its hash, with *)
(* no entry for the same name before it, and is counted once.              *)
Slots == UNION {{<<i, p>> : p \in DOMAIN buckets[i]} : i \in DOMAIN buckets}
EveryEntryFound ==
  /\ \A t \in Slots : LET k == buckets[t[1]][t[2]].key
                     IN  IsFound(k) /\ <<Home(k), Place(k)>> = t
  /\ size = Cardinality(Slots)

(* The entry that hashmapForEach holds on to is never one that was freed.  *)
CursorAlive ==
  ~Idle /\ cursor.entry # NULL =>
    \E p \in DOMAIN buckets[cursor.bucket] : buckets[cursor.bucket][p].key = cursor.entry

(* When hashmapForEach gets to the end, it has called back once for each   *)
(* name, whichever entries the callback has removed on the way.            *)
EachVisitedOnce ==
  ~Idle /\ cursor.bucket = bucketCount =>
    /\ {visited[p] : p \in DOMAIN visited} = begun
    /\ Len(visited) = Cardinality(begun)

(* The table is a map from names to values, collisions, growth and lack of *)
(* memory notwithstanding: each call returns what util-hashmap.h says.     *)
ValueOf(n) == (CHOOSE e \in Entries : NameOf[e.key] = n).value
Promise == INSTANCE AbstractMap WITH map <- [n \in NamesIn |-> ValueOf(n)]
ActsAsMap == Promise!MSpec
=============================================================================
