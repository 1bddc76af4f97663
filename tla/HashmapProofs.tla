---------------------------- MODULE HashmapProofs ----------------------------
(***************************************************************************)
(* The hash map, for every set of keys and values, every hash, every       *)
(* initial capacity and every sequence of calls.                           *)
(***************************************************************************)
EXTENDS Hashmap, InductionLemmas, FunctionTheorems, SequenceTheorems

-----------------------------------------------------------------------------
(* The chains are sequences, and what is said of them is about their       *)
(* entries and the names of these.                                         *)
InTable(table) == UNION {{table[i][p] : p \in DOMAIN table[i]} : i \in DOMAIN table}

Distinct(chain) ==
  \A p, q \in 1 .. Len(chain) :
    NameOf[chain[p].key] = NameOf[chain[q].key] => p = q

(* Every entry is in the bucket of its hash, and no two entries of a chain *)
(* are for one name.                                                       *)
Belongs(chain, count, i) ==
  \A p \in 1 .. Len(chain) :
    chain[p].hash = HashOf[chain[p].key] /\ HashOf[chain[p].key] % count = i

IsTable(table, count) ==
  /\ table \in [0 .. count - 1 -> Seq(Entry)]
  /\ \A i \in 0 .. count - 1 : Distinct(table[i]) /\ Belongs(table[i], count, i)

-----------------------------------------------------------------------------
(* The chain that expandIfNecessary builds in bucket j has the entries of  *)
(* the old chain that belong there, and still no two for one name.         *)
LEMMA MovedChain ==
  ASSUME NEW chain \in Seq(Entry), NEW count \in Nat \ {0}, NEW j \in Nat, Distinct(chain)
  PROVE  /\ Moved(chain, count, j) \in Seq(Entry)
         /\ Distinct(Moved(chain, count, j))
         /\ \A e : (\E p \in 1 .. Len(Moved(chain, count, j)) : Moved(chain, count, j)[p] = e)
                   <=> (\E p \in 1 .. Len(chain) : chain[p] = e /\ e.hash % count = j)
  <1> DEFINE N == Len(chain)
             Goes(p) == chain[p].hash % count = j
             Chain(f) == f = [p \in 0 .. N |->
                                IF p = 0 THEN <<>>
                                ELSE IF Goes(p) THEN <<chain[p]>> \o f[p - 1]
                                ELSE f[p - 1]]
             moved == CHOOSE f : Chain(f)
  <1>1. N \in Nat /\ \A p \in 1 .. N : chain[p] \in Entry
    BY LenProperties, ElementOfSeq
  <1>2. Moved(chain, count, j) = moved[N]
    BY DEF Moved, NewIndex, IndexFromHash
  <1> HIDE DEF N
  <1>3. Chain(moved)
    <2> DEFINE step == [n \in 1 .. N |-> [s \in Seq(Entry) |->
                          IF Goes(n) THEN <<chain[n]>> \o s ELSE s]]
    <2>1. step \in [1 .. N -> [Seq(Entry) -> Seq(Entry)]]
      <3>1. ASSUME NEW n \in 1 .. N, NEW s \in Seq(Entry)
            PROVE  (IF Goes(n) THEN <<chain[n]>> \o s ELSE s) \in Seq(Entry)
        <4>1. <<chain[n]>> \in Seq(Entry)
          BY <1>1
        <4> QED BY <4>1, ConcatProperties
      <3> QED BY <3>1
    <2>2. <<>> \in Seq(Entry)
      OBVIOUS
    <2>3. PICK f \in [0 .. N -> Seq(Entry)] :
            f[0] = <<>> /\ \A n \in 1 .. N : f[n] = step[n][f[n - 1]]
      <3> DEFINE empty == <<>>
                 S == Seq(Entry)
      <3>1. empty \in S /\ step \in [1 .. N -> [S -> S]] /\ N \in Nat
        BY <1>1, <2>1, <2>2
      <3> HIDE DEF step, empty, S
      <3>2. \E f \in [0 .. N -> S] :
              f[0] = empty /\ \A n \in 1 .. N : f[n] = step[n][f[n - 1]]
        BY <3>1, Recursion DEF Recursive
      <3> QED BY <3>2 DEF empty, S
    <2>4. ASSUME NEW n \in 1 .. N
          PROVE  step[n][f[n - 1]] = IF Goes(n) THEN <<chain[n]>> \o f[n - 1] ELSE f[n - 1]
      <3>1. n - 1 \in 0 .. N
        BY <1>1
      <3>2. f[n - 1] \in Seq(Entry)
        BY <2>3, <3>1
      <3> HIDE DEF Goes
      <3> QED BY <3>2
    <2>5. Chain(f)
      <3> HIDE DEF step, Goes
      <3>1. ASSUME NEW p \in 0 .. N
            PROVE  f[p] = IF p = 0 THEN <<>>
                          ELSE IF Goes(p) THEN <<chain[p]>> \o f[p - 1]
                          ELSE f[p - 1]
        <4>1. p = 0 \/ p \in 1 .. N
          BY <1>1
        <4> QED BY <2>3, <2>4, <4>1
      <3> QED BY <3>1
    <2> HIDE DEF Chain
    <2> QED BY <2>5
  <1> HIDE DEF moved
  <1> DEFINE Good(n) ==
               /\ moved[n] \in Seq(Entry)
               /\ Distinct(moved[n])
               /\ \A e : (\E p \in 1 .. Len(moved[n]) : moved[n][p] = e)
                         <=> (\E p \in 1 .. n : chain[p] = e /\ Goes(p))
             P == {n \in 0 .. N : Good(n)}
  <1>4. 0 \in P
    <2>1. moved[0] = <<>>
      BY <1>1, <1>3
    <2>2. Good(0)
      BY <2>1 DEF Distinct
    <2> HIDE DEF Good
    <2> QED BY <1>1, <2>2
  <1>5. ASSUME NEW n \in P, n < N PROVE n + 1 \in P
    <2> DEFINE old == moved[n]
               e1 == chain[n + 1]
               new == moved[n + 1]
    <2>1. n + 1 \in 1 .. N /\ n \in 0 .. N /\ e1 \in Entry /\ Good(n)
      <3>1. n + 1 \in 1 .. N /\ n \in 0 .. N
        <4> HIDE DEF Good
        <4> QED BY <1>1, <1>5
      <3>2. Good(n)
        <4> HIDE DEF Good
        <4> QED OBVIOUS
      <3> HIDE DEF Good
      <3> QED BY <1>1, <3>1, <3>2
    <2>2. new = IF Goes(n + 1) THEN <<e1>> \o old ELSE old
      <3> HIDE DEF Goes, Good
      <3>1. n + 1 \in 0 .. N /\ n + 1 # 0 /\ (n + 1) - 1 = n
        BY <1>1, <2>1
      <3> QED BY <1>3, <3>1
    <2>3. old \in Seq(Entry) /\ Len(old) \in Nat /\ Distinct(old)
      BY <2>1, LenProperties
    <2>4. \A e : (\E p \in 1 .. Len(old) : old[p] = e)
                   <=> (\E p \in 1 .. n : chain[p] = e /\ Goes(p))
      BY <2>1
    <2> HIDE DEF old, new
    <2>5. CASE ~Goes(n + 1)
      <3>1. new = old
        BY <2>2, <2>5
      <3>2. \A e : (\E p \in 1 .. n + 1 : chain[p] = e /\ Goes(p))
                     <=> (\E p \in 1 .. n : chain[p] = e /\ Goes(p))
        BY <2>1, <2>5
      <3>3. \A e : (\E p \in 1 .. Len(new) : new[p] = e)
                     <=> (\E p \in 1 .. n + 1 : chain[p] = e /\ Goes(p))
        <4> HIDE DEF Goes
        <4> QED BY <2>4, <3>1, <3>2
      <3>4. Good(n + 1)
        <4> HIDE DEF Goes
        <4> QED BY <2>3, <3>1, <3>3 DEF new
      <3> HIDE DEF Good
      <3> QED BY <1>1, <2>1, <3>4
    <2>6. CASE Goes(n + 1)
      <3>1. <<e1>> \in Seq(Entry) /\ Len(<<e1>>) = 1 /\ <<e1>>[1] = e1
        BY <2>1
      <3>2. /\ new \in Seq(Entry) /\ Len(new) = Len(old) + 1 /\ new[1] = e1
            /\ \A p \in 2 .. Len(new) : new[p] = old[p - 1]
        <4>1. new = <<e1>> \o old
          BY <2>2, <2>6
        <4> HIDE DEF e1
        <4> QED BY <2>3, <3>1, <4>1, ConcatProperties
      <3>3. \A p \in 1 .. Len(old) : new[p + 1] = old[p]
        BY <2>3, <3>2
      <3>4. \A e : (\E p \in 1 .. Len(new) : new[p] = e)
                     <=> (e = e1 \/ \E p \in 1 .. Len(old) : old[p] = e)
        <4> HIDE DEF e1, Goes
        <4>1. ASSUME NEW p \in 1 .. Len(new) PROVE p = 1 \/ p - 1 \in 1 .. Len(old)
          BY <2>3, <3>2
        <4>2. \A p \in 1 .. Len(old) : p + 1 \in 1 .. Len(new)
          BY <2>3, <3>2
        <4>3. 1 \in 1 .. Len(new)
          BY <2>3, <3>2
        <4>4. ASSUME NEW e, NEW p \in 1 .. Len(new), new[p] = e
              PROVE e = e1 \/ \E q \in 1 .. Len(old) : old[q] = e
          <5>1. CASE p = 1
            BY <5>1, <4>4, <3>2
          <5>2. CASE p # 1
            <6>1. p \in 2 .. Len(new) /\ p - 1 \in 1 .. Len(old)
              BY <4>1, <5>2, <2>3, <3>2
            <6> QED BY <6>1, <4>4, <3>2
          <5> QED BY <5>1, <5>2
        <4> QED BY <3>2, <3>3, <4>2, <4>3, <4>4
      <3>5. \A e : (\E p \in 1 .. n + 1 : chain[p] = e /\ Goes(p))
                     <=> (e = e1 \/ \E p \in 1 .. n : chain[p] = e /\ Goes(p))
        BY <2>1, <2>6
      <3>6. \A e : (\E p \in 1 .. Len(new) : new[p] = e)
                     <=> (\E p \in 1 .. n + 1 : chain[p] = e /\ Goes(p))
        <4> HIDE DEF Goes, e1
        <4> QED BY <2>4, <3>4, <3>5
      <3>7. \A p \in 1 .. Len(old) : NameOf[old[p].key] # NameOf[e1.key]
        <4>1. ASSUME NEW p \in 1 .. Len(old), NameOf[old[p].key] = NameOf[e1.key]
              PROVE  FALSE
          <5> DEFINE d == old[p]
          <5>1. PICK q \in 1 .. n : chain[q] = d
            <6>1. \E r \in 1 .. Len(old) : old[r] = d
              OBVIOUS
            <6> HIDE DEF Goes, d
            <6>2. \E r \in 1 .. n : chain[r] = d /\ Goes(r)
              BY <2>4, <6>1
            <6> QED BY <6>2
          <5>2. q \in 1 .. N /\ n + 1 \in 1 .. N /\ q # n + 1
            BY <1>1, <2>1
          <5>3. Distinct(chain)
            OBVIOUS
          <5> QED BY <5>1, <5>2, <5>3, <4>1 DEF Distinct, N
        <4> QED BY <4>1
      <3>8. Distinct(new)
        <4>1. SUFFICES ASSUME NEW p \in 1 .. Len(new), NEW q \in 1 .. Len(new),
                              NameOf[new[p].key] = NameOf[new[q].key], p < q
                       PROVE  FALSE
          BY <3>2, <2>3 DEF Distinct
        <4>2. q \in 2 .. Len(new) /\ q - 1 \in 1 .. Len(old) /\ new[q] = old[q - 1]
          BY <4>1, <3>2, <2>3
        <4>3. CASE p = 1
          BY <4>1, <4>2, <4>3, <3>2, <3>7
        <4>4. CASE p # 1
          <5>1. p - 1 \in 1 .. Len(old) /\ new[p] = old[p - 1]
            BY <4>4, <3>2, <2>3
          <5>2. p - 1 = q - 1
            <6>1. NameOf[old[p - 1].key] = NameOf[old[q - 1].key]
              BY <4>1, <4>2, <5>1
            <6> HIDE DEF old
            <6> QED BY <2>3, <4>2, <5>1, <6>1 DEF Distinct
          <5> QED BY <4>1, <5>2
        <4> QED BY <4>3, <4>4
      <3>9. Good(n + 1)
        <4> HIDE DEF Goes
        <4> QED BY <3>2, <3>6, <3>8 DEF new
      <3> HIDE DEF Good
      <3> QED BY <1>1, <2>1, <3>9
    <2> QED BY <2>5, <2>6
  <1>6. P = 0 .. N
    <2>1. P \in SUBSET (0 .. N)
      OBVIOUS
    <2> HIDE DEF P
    <2> QED BY <1>1, <1>4, <1>5, <2>1, BoundedInduction
  <1>7. Good(N)
    <2>1. N \in P
      <3> HIDE DEF P
      <3> QED BY <1>1, <1>6
    <2> HIDE DEF Good
    <2> QED BY <2>1
  <1>8. \A e : (\E p \in 1 .. N : chain[p] = e /\ Goes(p))
               <=> (\E p \in 1 .. N : chain[p] = e /\ e.hash % count = j)
    OBVIOUS
  <1> HIDE DEF Goes
  <1> QED BY <1>2, <1>7, <1>8 DEF N

-----------------------------------------------------------------------------
(* The members of a table, by bucket and place.                            *)
LEMMA Members ==
  ASSUME NEW table, NEW n \in Nat, IsTable(table, n), NEW e
  PROVE  /\ e \in InTable(table) <=>
              \E i \in 0 .. n - 1 : \E p \in 1 .. Len(table[i]) : table[i][p] = e
         /\ e \in InTable(table) =>
              e \in Entry /\ e.hash = HashOf[e.key] /\ e.key \in Key
         /\ \A i \in 0 .. n - 1 :
              e \in InTable(table) /\ HashOf[e.key] % n = i <=>
                \E p \in 1 .. Len(table[i]) : table[i][p] = e
  <1>1. DOMAIN table = 0 .. n - 1
    BY DEF IsTable
  <1>2. \A i \in 0 .. n - 1 : DOMAIN table[i] = 1 .. Len(table[i])
    BY DEF IsTable
  <1>3. e \in InTable(table) <=>
          \E i \in 0 .. n - 1 : \E p \in 1 .. Len(table[i]) : table[i][p] = e
    BY <1>1, <1>2 DEF InTable
  <1>4. ASSUME NEW i \in 0 .. n - 1, NEW p \in 1 .. Len(table[i])
        PROVE  /\ table[i][p] \in Entry
               /\ table[i][p].hash = HashOf[table[i][p].key]
               /\ HashOf[table[i][p].key] % n = i
    BY DEF IsTable, Belongs
  <1>5. e \in InTable(table) => e \in Entry /\ e.hash = HashOf[e.key] /\ e.key \in Key
    BY <1>3, <1>4 DEF Entry
  <1>6. ASSUME NEW i \in 0 .. n - 1
        PROVE  e \in InTable(table) /\ HashOf[e.key] % n = i <=>
                 \E p \in 1 .. Len(table[i]) : table[i][p] = e
    BY <1>3, <1>4
  <1> QED BY <1>3, <1>5, <1>6

(* No two entries of a table are for one name: their hashes are the same,  *)
(* so that they would be in the same chain.                                *)
LEMMA OneEntry ==
  ASSUME NEW table, NEW n \in Nat, IsTable(table, n),
         NEW e \in InTable(table), NEW f \in InTable(table),
         NameOf[e.key] = NameOf[f.key]
  PROVE  e = f
  <1>1. e.key \in Key /\ f.key \in Key
    BY Members
  <1>2. HashOf[e.key] = HashOf[f.key]
    BY <1>1, KeyAssumption
  <1>3. PICK i \in 0 .. n - 1 : \E p \in 1 .. Len(table[i]) : table[i][p] = e
    BY Members
  <1>4. HashOf[e.key] % n = i
    BY <1>3, Members
  <1>5. PICK q \in 1 .. Len(table[i]) : table[i][q] = f
    <2>1. f \in InTable(table) /\ HashOf[f.key] % n = i
      BY <1>2, <1>4
    <2> QED BY <2>1, Members
  <1>6. Distinct(table[i])
    BY DEF IsTable
  <1> QED BY <1>3, <1>5, <1>6 DEF Distinct

(* Another chain in one of the buckets.                                    *)
WithChain(table, i, chain) == [table EXCEPT ![i] = chain]

LEMMA OtherChain ==
  ASSUME NEW table, NEW n \in Nat, IsTable(table, n), NEW i \in 0 .. n - 1,
         NEW chain \in Seq(Entry), Distinct(chain), Belongs(chain, n, i)
  PROVE  /\ IsTable(WithChain(table, i, chain), n)
         /\ \A e : e \in InTable(WithChain(table, i, chain)) <=>
                    \/ \E p \in 1 .. Len(chain) : chain[p] = e
                    \/ e \in InTable(table) /\ HashOf[e.key] % n # i
  <1> DEFINE new == WithChain(table, i, chain)
  <1>1. /\ new \in [0 .. n - 1 -> Seq(Entry)]
        /\ new[i] = chain
        /\ \A j \in 0 .. n - 1 : j # i => new[j] = table[j]
    BY DEF IsTable, WithChain
  <1> HIDE DEF new
  <1>2. IsTable(new, n)
    <2>1. ASSUME NEW j \in 0 .. n - 1
          PROVE  Distinct(new[j]) /\ Belongs(new[j], n, j)
      BY <1>1 DEF IsTable
    <2> QED BY <1>1, <2>1 DEF IsTable
  <1>3. ASSUME NEW e
        PROVE  e \in InTable(new) <=>
                 \/ \E p \in 1 .. Len(chain) : chain[p] = e
                 \/ e \in InTable(table) /\ HashOf[e.key] % n # i
    <2>1. ASSUME \E p \in 1 .. Len(chain) : chain[p] = e
          PROVE  e \in InTable(new)
      BY <1>1, <1>2, <2>1, Members
    <2>2. ASSUME e \in InTable(table), HashOf[e.key] % n # i
          PROVE  e \in InTable(new)
      <3>1. PICK j \in 0 .. n - 1 : \E p \in 1 .. Len(table[j]) : table[j][p] = e
        BY <2>2, Members
      <3>2. j # i
        BY <2>2, <3>1, Members
      <3>3. new[j] = table[j]
        BY <1>1, <3>2
      <3> QED BY <1>2, <3>1, <3>3, Members
    <2>3. ASSUME e \in InTable(new), ~ \E p \in 1 .. Len(chain) : chain[p] = e
          PROVE  e \in InTable(table) /\ HashOf[e.key] % n # i
      <3>1. PICK j \in 0 .. n - 1 : \E p \in 1 .. Len(new[j]) : new[j][p] = e
        BY <1>2, <2>3, Members
      <3>2. j # i
        BY <1>1, <2>3, <3>1
      <3>3. new[j] = table[j]
        BY <1>1, <3>2
      <3>4. HashOf[e.key] % n = j
        BY <1>2, <3>1, Members
      <3> QED BY <3>1, <3>2, <3>3, <3>4, Members
    <2> QED BY <2>1, <2>2, <2>3
  <1> QED BY <1>2, <1>3 DEF new

-----------------------------------------------------------------------------
(* An entry behind those of its bucket, for a name that is not there.      *)
LEMMA AppendedEntry ==
  ASSUME NEW table, NEW n \in Nat, IsTable(table, n), NEW i \in 0 .. n - 1,
         NEW e \in Entry, e.hash = HashOf[e.key], HashOf[e.key] % n = i,
         \A d \in InTable(table) : NameOf[d.key] # NameOf[e.key]
  PROVE  LET new == WithChain(table, i, Append(table[i], e))
         IN  IsTable(new, n) /\ InTable(new) = InTable(table) \cup {e}
  <1> DEFINE old == table[i]
             chain == Append(old, e)
             new == WithChain(table, i, chain)
  <1>1. old \in Seq(Entry) /\ Len(old) \in Nat /\ Distinct(old)
    BY LenProperties DEF IsTable
  <1>2. /\ chain \in Seq(Entry) /\ Len(chain) = Len(old) + 1
        /\ \A p \in 1 .. Len(old) : chain[p] = old[p]
        /\ chain[Len(old) + 1] = e
    <2> HIDE DEF old
    <2> QED BY <1>1, AppendProperties
  <1>3. \A d : d \in InTable(table) /\ HashOf[d.key] % n = i <=>
                 \E p \in 1 .. Len(old) : old[p] = d
    BY Members
  <1> HIDE DEF chain, old
  <1>4. ASSUME NEW p \in 1 .. Len(chain)
        PROVE  p = Len(old) + 1 \/ p \in 1 .. Len(old)
    BY <1>1, <1>2
  <1>5. ASSUME NEW p \in 1 .. Len(old)
        PROVE  NameOf[old[p].key] # NameOf[e.key]
    BY <1>3
  <1>6. Distinct(chain)
    <2>1. SUFFICES ASSUME NEW p \in 1 .. Len(chain), NEW q \in 1 .. Len(chain),
                          NameOf[chain[p].key] = NameOf[chain[q].key]
                   PROVE  p = q
      BY DEF Distinct
    <2>2. CASE p \in 1 .. Len(old) /\ q \in 1 .. Len(old)
      BY <1>1, <1>2, <2>1, <2>2 DEF Distinct
    <2> QED BY <1>2, <1>4, <1>5, <2>1, <2>2
  <1>7. Belongs(chain, n, i)
    <2>1. SUFFICES ASSUME NEW p \in 1 .. Len(chain)
                   PROVE  /\ chain[p].hash = HashOf[chain[p].key]
                          /\ HashOf[chain[p].key] % n = i
      BY DEF Belongs
    <2>2. CASE p = Len(old) + 1
      BY <1>2, <2>2
    <2>3. CASE p \in 1 .. Len(old)
      <3>1. Belongs(old, n, i)
        BY DEF IsTable, old
      <3> QED BY <1>2, <2>3, <3>1 DEF Belongs
    <2> QED BY <1>4, <2>2, <2>3
  <1>8. /\ IsTable(new, n)
        /\ \A d : d \in InTable(new) <=>
                    \/ \E p \in 1 .. Len(chain) : chain[p] = d
                    \/ d \in InTable(table) /\ HashOf[d.key] % n # i
    BY <1>2, <1>6, <1>7, OtherChain
  <1>9. \A d : (\E p \in 1 .. Len(chain) : chain[p] = d) <=>
                 d = e \/ \E p \in 1 .. Len(old) : old[p] = d
    BY <1>1, <1>2, <1>4
  <1>10. \A d : d \in InTable(new) <=> d = e \/ d \in InTable(table)
    <2> HIDE DEF new
    <2> QED BY <1>3, <1>8, <1>9
  <1>11. InTable(new) = InTable(table) \cup {e}
    <2> HIDE DEF new
    <2> QED BY <1>10
  <1> QED BY <1>8, <1>11 DEF new, chain, old

(* Another value for an entry.                                             *)
Revalued(e, v) == [e EXCEPT !.value = v]
WithValue(table, i, p, v) == [table EXCEPT ![i][p].value = v]

LEMMA ReplacedEntry ==
  ASSUME NEW table, NEW n \in Nat, IsTable(table, n), NEW i \in 0 .. n - 1,
         NEW p \in 1 .. Len(table[i]), NEW v \in Value
  PROVE  LET new == WithValue(table, i, p, v)
             d == table[i][p]
         IN  /\ IsTable(new, n)
             /\ InTable(new) = (InTable(table) \ {d}) \cup {Revalued(d, v)}
  <1> DEFINE old == table[i]
             d == old[p]
             e == Revalued(d, v)
             chain == [old EXCEPT ![p] = e]
             new == WithChain(table, i, chain)
  <1>1. old \in Seq(Entry) /\ Len(old) \in Nat /\ Distinct(old)
    BY LenProperties DEF IsTable
  <1>2. d \in Entry /\ d.hash = HashOf[d.key] /\ HashOf[d.key] % n = i
    BY <1>1, ElementOfSeq DEF IsTable, Belongs
  <1>3. e \in Entry /\ e.hash = d.hash /\ e.key = d.key
    <2> HIDE DEF d
    <2> QED BY <1>2 DEF Entry, Revalued
  <1>4. WithValue(table, i, p, v) = new
    BY <1>1 DEF IsTable, WithChain, WithValue, Revalued
  <1>5. \A c : c \in InTable(table) /\ HashOf[c.key] % n = i <=>
                 \E q \in 1 .. Len(old) : old[q] = c
    <2>1. ASSUME NEW c
          PROVE  \A j \in 0 .. n - 1 :
                   c \in InTable(table) /\ HashOf[c.key] % n = j <=>
                     \E q \in 1 .. Len(table[j]) : table[j][q] = c
      <3> HIDE DEF old, d, e, chain, new
      <3> QED BY Members
    <2> QED BY <2>1
  <1>6. d \in InTable(table) /\ HashOf[d.key] % n = i
    BY <1>2, <1>5
  <1>7. p \in 1 .. Len(old) /\ d = old[p]
    OBVIOUS
  <1>8. \A c \in InTable(table) : NameOf[c.key] = NameOf[d.key] => c = d
    BY <1>6, OneEntry
  <1> HIDE DEF e
  <1>9. /\ chain \in Seq(Entry) /\ Len(chain) = Len(old)
        /\ \A q \in 1 .. Len(old) : chain[q] = IF q = p THEN e ELSE old[q]
    <2> HIDE DEF old, d
    <2> QED BY <1>1, <1>3, <1>7, ExceptSeq
  <1>10. \A q \in 1 .. Len(old) : chain[q].key = old[q].key
    BY <1>3, <1>9
  <1> HIDE DEF chain
  <1>11. Distinct(chain)
    BY <1>1, <1>9, <1>10 DEF Distinct
  <1>12. Belongs(chain, n, i)
    <2>1. Belongs(old, n, i)
      BY DEF IsTable
    <2> QED BY <1>2, <1>3, <1>9, <1>10, <2>1 DEF Belongs
  <1> HIDE DEF old, d
  <1>13. /\ IsTable(new, n)
         /\ \A c : c \in InTable(new) <=>
                    \/ \E q \in 1 .. Len(chain) : chain[q] = c
                    \/ c \in InTable(table) /\ HashOf[c.key] % n # i
    BY <1>9, <1>11, <1>12, OtherChain
  <1> HIDE DEF new
  <1>14. ASSUME NEW c
         PROVE  (\E q \in 1 .. Len(chain) : chain[q] = c) <=>
                  c = e \/ (c # d /\ c \in InTable(table) /\ HashOf[c.key] % n = i)
    <2>1. ASSUME NEW q \in 1 .. Len(chain), chain[q] = c, c # e
          PROVE  c # d /\ c \in InTable(table) /\ HashOf[c.key] % n = i
      <3>1. q # p /\ old[q] = c /\ q \in 1 .. Len(old)
        BY <1>9, <2>1
      <3>2. c # d
        BY <1>1, <1>7, <3>1 DEF Distinct
      <3> QED BY <1>5, <3>1, <3>2
    <2>2. ASSUME c # d, c \in InTable(table), HashOf[c.key] % n = i
          PROVE  \E q \in 1 .. Len(chain) : chain[q] = c
      <3>1. PICK q \in 1 .. Len(old) : old[q] = c
        BY <1>5, <2>2
      <3> QED BY <1>7, <1>9, <2>2, <3>1
    <2>3. chain[p] = e /\ p \in 1 .. Len(chain)
      BY <1>7, <1>9
    <2> QED BY <2>1, <2>2, <2>3
  <1>15. \A c : c \in InTable(new) <=> c = e \/ (c \in InTable(table) /\ c # d)
    BY <1>6, <1>13, <1>14
  <1>16. InTable(new) = (InTable(table) \ {d}) \cup {e}
    BY <1>15
  <1> QED BY <1>4, <1>13, <1>16 DEF e, d, old

(* What unlinking the entry at p leaves.                                   *)
LEMMA CutChain ==
  ASSUME NEW chain \in Seq(Entry), NEW p \in 1 .. Len(chain)
  PROVE  /\ Cut(chain, p) \in Seq(Entry)
         /\ Len(Cut(chain, p)) = Len(chain) - 1
         /\ \A q \in 1 .. Len(chain) - 1 :
              Cut(chain, p)[q] = IF q < p THEN chain[q] ELSE chain[q + 1]
  <1> DEFINE left == SubSeq(chain, 1, p - 1)
             right == SubSeq(chain, p + 1, Len(chain))
  <1>1. Len(chain) \in Nat /\ \A q \in 1 .. Len(chain) : chain[q] \in Entry
    BY LenProperties, ElementOfSeq
  <1>2. /\ left \in Seq(Entry) /\ Len(left) = p - 1
        /\ \A q \in 1 .. p - 1 : left[q] = chain[q]
    <2>1. \A q \in 1 .. p - 1 : chain[q] \in Entry
      BY <1>1
    <2>2. /\ left \in Seq(Entry)
          /\ Len(left) = IF 1 <= p - 1 THEN (p - 1) - 1 + 1 ELSE 0
          /\ \A q \in 1 .. (p - 1) - 1 + 1 : left[q] = chain[1 + q - 1]
      BY <1>1, <2>1, SubSeqProperties
    <2> HIDE DEF left
    <2> QED BY <1>1, <2>2
  <1>3. /\ right \in Seq(Entry) /\ Len(right) = Len(chain) - p
        /\ \A q \in 1 .. Len(chain) - p : right[q] = chain[p + q]
    <2>1. \A q \in p + 1 .. Len(chain) : chain[q] \in Entry
      BY <1>1
    <2>2. /\ right \in Seq(Entry)
          /\ Len(right) = IF p + 1 <= Len(chain) THEN Len(chain) - (p + 1) + 1 ELSE 0
          /\ \A q \in 1 .. Len(chain) - (p + 1) + 1 : right[q] = chain[(p + 1) + q - 1]
      BY <1>1, <2>1, SubSeqProperties
    <2> HIDE DEF right
    <2> QED BY <1>1, <2>2
  <1>4. Cut(chain, p) = left \o right
    BY DEF Cut
  <1> HIDE DEF left, right
  <1>5. /\ left \o right \in Seq(Entry)
        /\ Len(left \o right) = Len(left) + Len(right)
        /\ \A q \in 1 .. Len(left) + Len(right) :
             (left \o right)[q] = IF q <= Len(left) THEN left[q] ELSE right[q - Len(left)]
    BY <1>2, <1>3, ConcatProperties
  <1>6. ASSUME NEW q \in 1 .. Len(chain) - 1
        PROVE  (left \o right)[q] = IF q < p THEN chain[q] ELSE chain[q + 1]
    <2>1. CASE q < p
      BY <1>1, <1>2, <1>3, <1>5, <2>1
    <2>2. CASE ~(q < p)
      <3>1. q - (p - 1) \in 1 .. Len(chain) - p /\ p + (q - (p - 1)) = q + 1
        BY <1>1, <2>2
      <3>2. (left \o right)[q] = right[q - (p - 1)]
        BY <1>1, <1>2, <1>3, <1>5, <2>2
      <3> QED BY <1>3, <2>2, <3>1, <3>2
    <2> QED BY <2>1, <2>2
  <1>7. Len(left) + Len(right) = Len(chain) - 1
    BY <1>1, <1>2, <1>3
  <1> QED BY <1>4, <1>5, <1>6, <1>7

(* Without the entry at one place of a bucket.                             *)
LEMMA RemovedEntry ==
  ASSUME NEW table, NEW n \in Nat, IsTable(table, n), NEW i \in 0 .. n - 1,
         NEW p \in 1 .. Len(table[i])
  PROVE  LET new == WithChain(table, i, Cut(table[i], p))
         IN  IsTable(new, n) /\ InTable(new) = InTable(table) \ {table[i][p]}
  <1> DEFINE old == table[i]
             d == old[p]
             chain == Cut(old, p)
             new == WithChain(table, i, chain)
  <1>1. old \in Seq(Entry) /\ Len(old) \in Nat /\ Distinct(old) /\ Belongs(old, n, i)
    BY LenProperties DEF IsTable
  <1>3. \A c : c \in InTable(table) /\ HashOf[c.key] % n = i <=>
                 \E q \in 1 .. Len(old) : old[q] = c
    BY Members
  <1>4. p \in 1 .. Len(old)
    OBVIOUS
  <1> HIDE DEF old
  <1>5. /\ chain \in Seq(Entry) /\ Len(chain) = Len(old) - 1
        /\ \A q \in 1 .. Len(old) - 1 : chain[q] = IF q < p THEN old[q] ELSE old[q + 1]
    BY <1>1, <1>4, CutChain
  <1> HIDE DEF chain
  <1>6. Distinct(chain)
    <2>1. SUFFICES ASSUME NEW q \in 1 .. Len(chain), NEW r \in 1 .. Len(chain), q # r,
                          NameOf[chain[q].key] = NameOf[chain[r].key]
                   PROVE  FALSE
      BY DEF Distinct
    <2> DEFINE at(s) == IF s < p THEN s ELSE s + 1
    <2>2. at(q) \in 1 .. Len(old) /\ at(r) \in 1 .. Len(old) /\ at(q) # at(r)
      BY <1>1, <1>4, <1>5, <2>1
    <2>3. chain[q] = old[at(q)] /\ chain[r] = old[at(r)]
      BY <1>1, <1>4, <1>5
    <2> HIDE DEF at
    <2> QED BY <1>1, <2>1, <2>2, <2>3 DEF Distinct
  <1>7. Belongs(chain, n, i)
    <2>1. SUFFICES ASSUME NEW q \in 1 .. Len(chain)
                   PROVE  /\ chain[q].hash = HashOf[chain[q].key]
                          /\ HashOf[chain[q].key] % n = i
      BY DEF Belongs
    <2>2. PICK r \in 1 .. Len(old) : chain[q] = old[r]
      BY <1>1, <1>4, <1>5
    <2> QED BY <1>1, <2>2 DEF Belongs
  <1>8. /\ IsTable(new, n)
        /\ \A c : c \in InTable(new) <=>
                    \/ \E q \in 1 .. Len(chain) : chain[q] = c
                    \/ c \in InTable(table) /\ HashOf[c.key] % n # i
    BY <1>5, <1>6, <1>7, OtherChain
  <1>9. ASSUME NEW c
        PROVE  (\E q \in 1 .. Len(chain) : chain[q] = c) <=>
                 c # d /\ c \in InTable(table) /\ HashOf[c.key] % n = i
    <2>1. ASSUME NEW q \in 1 .. Len(chain), chain[q] = c
          PROVE  c # d /\ c \in InTable(table) /\ HashOf[c.key] % n = i
      <3> DEFINE r == IF q < p THEN q ELSE q + 1
      <3>1. r \in 1 .. Len(old) /\ r # p /\ c = old[r]
        BY <1>1, <1>4, <1>5, <2>1
      <3> HIDE DEF r
      <3>2. c # d
        BY <1>1, <1>4, <3>1 DEF Distinct
      <3> QED BY <1>3, <3>1, <3>2
    <2>2. ASSUME c # d, c \in InTable(table), HashOf[c.key] % n = i
          PROVE  \E q \in 1 .. Len(chain) : chain[q] = c
      <3>1. PICK r \in 1 .. Len(old) : old[r] = c
        BY <1>3, <2>2
      <3>2. CASE r < p
        BY <1>1, <1>4, <1>5, <3>1, <3>2
      <3>3. CASE r > p
        <4>1. r - 1 \in 1 .. Len(chain) /\ chain[r - 1] = old[r]
          BY <1>1, <1>4, <1>5, <3>3
        <4> QED BY <3>1, <4>1
      <3>4. r # p
        BY <2>2, <3>1
      <3> QED BY <1>1, <1>4, <3>2, <3>3, <3>4
    <2> QED BY <2>1, <2>2
  <1>10. HashOf[d.key] % n = i
    BY <1>1, <1>4 DEF Belongs
  <1> HIDE DEF new, d
  <1>11. \A c : c \in InTable(new) <=> c \in InTable(table) /\ c # d
    BY <1>8, <1>9, <1>10
  <1>12. InTable(new) = InTable(table) \ {d}
    BY <1>11
  <1> QED BY <1>8, <1>12 DEF new, chain, d, old

(* expandIfNecessary leaves a table, of the same entries.                  *)
LEMMA ExpandedTable ==
  ASSUME NEW table, NEW n \in Nat \ {0}, IsTable(table, n)
  PROVE  /\ IsTable(Expanded(table, 2 * n), 2 * n)
         /\ InTable(Expanded(table, 2 * n)) = InTable(table)
  <1> DEFINE m == 2 * n
             new == Expanded(table, m)
             chain(j) == table[j % n]
  <1>1. m \in Nat \ {0} /\ m \div 2 = n
    OBVIOUS
  <1>2. new = [j \in 0 .. m - 1 |-> Moved(chain(j), m, j)]
    BY <1>1 DEF Expanded
  <1>3. \A h \in Nat : h % m \in 0 .. m - 1 /\ (h % m) % n = h % n /\ h % n \in 0 .. n - 1
    <2>1. ASSUME NEW h \in Nat
          PROVE  h % m \in 0 .. m - 1 /\ h % n \in 0 .. n - 1
      <3> HIDE DEF m
      <3> QED BY <1>1, Remainder
    <2> QED BY <2>1, HalvedRemainder
  <1> HIDE DEF m, new
  <1>4. ASSUME NEW j \in 0 .. m - 1
        PROVE  /\ j % n \in 0 .. n - 1 /\ chain(j) \in Seq(Entry)
               /\ Distinct(chain(j)) /\ Belongs(chain(j), n, j % n)
    <2> DEFINE i == j % n
    <2>1. i \in 0 .. n - 1
      BY <1>1, <1>3
    <2> HIDE DEF i
    <2>2. table[i] \in Seq(Entry) /\ Distinct(table[i]) /\ Belongs(table[i], n, i)
      BY <2>1 DEF IsTable
    <2> QED BY <2>1, <2>2 DEF i
  <1>5. ASSUME NEW j \in 0 .. m - 1
        PROVE  /\ new[j] \in Seq(Entry) /\ Distinct(new[j])
               /\ \A e : (\E p \in 1 .. Len(new[j]) : new[j][p] = e) <=>
                            \E p \in 1 .. Len(chain(j)) : chain(j)[p] = e /\ e.hash % m = j
    <2>1. new[j] = Moved(chain(j), m, j)
      BY <1>2
    <2>2. j \in Nat /\ chain(j) \in Seq(Entry) /\ Distinct(chain(j))
      BY <1>4
    <2> DEFINE s == chain(j)
    <2>3. new[j] = Moved(s, m, j) /\ s \in Seq(Entry) /\ Distinct(s)
      BY <2>1, <2>2
    <2> HIDE DEF s, chain
    <2>4. /\ Moved(s, m, j) \in Seq(Entry)
          /\ Distinct(Moved(s, m, j))
          /\ \A e : (\E p \in 1 .. Len(Moved(s, m, j)) : Moved(s, m, j)[p] = e)
                    <=> (\E p \in 1 .. Len(s) : s[p] = e /\ e.hash % m = j)
      <3>1. m \in Nat \ {0} /\ j \in Nat
        BY <1>1, <2>2
      <3>2. s \in Seq(Entry) /\ Distinct(s)
        BY <2>3
      <3> QED BY ONLY <3>1, <3>2, MovedChain
    <2> QED BY <2>3, <2>4 DEF s
  <1>6. ASSUME NEW j \in 0 .. m - 1
        PROVE  Belongs(new[j], m, j)
    <2>1. SUFFICES ASSUME NEW p \in 1 .. Len(new[j])
                   PROVE  /\ new[j][p].hash = HashOf[new[j][p].key]
                          /\ HashOf[new[j][p].key] % m = j
      BY DEF Belongs
    <2> DEFINE e == new[j][p]
    <2>2. e.hash % m = j /\ \E q \in 1 .. Len(chain(j)) : chain(j)[q] = e
      <3>1. \E q \in 1 .. Len(new[j]) : new[j][q] = e
        OBVIOUS
      <3> HIDE DEF e, chain
      <3> QED BY <1>5, <3>1
    <2>3. e.hash = HashOf[e.key]
      <3>1. Belongs(chain(j), n, j % n)
        BY <1>4
      <3> HIDE DEF e, chain
      <3> QED BY <2>2, <3>1 DEF Belongs
    <2> QED BY <2>2, <2>3
  <1>7. IsTable(new, m)
    <2>1. new \in [0 .. m - 1 -> Seq(Entry)]
      BY <1>2, <1>5
    <2> QED BY <1>5, <1>6, <2>1 DEF IsTable
  <1>8. ASSUME NEW e
        PROVE  e \in InTable(new) <=> e \in InTable(table)
    <2>1. ASSUME e \in InTable(new)
          PROVE  e \in InTable(table)
      <3>1. PICK j \in 0 .. m - 1 : \E p \in 1 .. Len(new[j]) : new[j][p] = e
        BY <1>1, <1>7, <2>1, Members
      <3>2. \E p \in 1 .. Len(chain(j)) : chain(j)[p] = e
        <4> HIDE DEF chain
        <4> QED BY <1>5, <3>1
      <3>3. j % n \in 0 .. n - 1
        BY <1>4
      <3> QED BY <3>2, <3>3, Members
    <2>2. ASSUME e \in InTable(table)
          PROVE  e \in InTable(new)
      <3> DEFINE h == HashOf[e.key]
                 j == h % m
      <3>1. e.hash = h /\ h \in Nat
        BY <2>2, Members, KeyAssumption
      <3> HIDE DEF h
      <3>2. j \in 0 .. m - 1 /\ j % n = h % n /\ h % n \in 0 .. n - 1
        BY <1>3, <3>1
      <3>3. \E p \in 1 .. Len(table[h % n]) : table[h % n][p] = e
        <4> DEFINE i == h % n
        <4>1. i \in 0 .. n - 1 /\ HashOf[e.key] % n = i
          BY <3>2 DEF h
        <4> HIDE DEF i
        <4>2. \E p \in 1 .. Len(table[i]) : table[i][p] = e
          BY <2>2, <4>1, Members
        <4> QED BY <4>2 DEF i
      <3>4. \E p \in 1 .. Len(chain(j)) : chain(j)[p] = e /\ e.hash % m = j
        BY <3>1, <3>2, <3>3
      <3> HIDE DEF j, chain
      <3>5. \E p \in 1 .. Len(new[j]) : new[j][p] = e
        BY <1>5, <3>2, <3>4
      <3> QED BY <1>1, <1>7, <3>2, <3>5, Members
    <2> QED BY <2>1, <2>2
  <1>9. InTable(new) = InTable(table)
    BY <1>8
  <1> QED BY <1>7, <1>9 DEF new, m

-----------------------------------------------------------------------------
(* hashmapCreate comes to a number of buckets: n rounds of doubling lead   *)
(* above n.                                                                *)
LEMMA InitialCountPositive == InitialCount \in Nat \ {0}
  <1> DEFINE N == (initialCapacity * 4) \div 3
             Doubles(f) == f = [n \in 0 .. N |-> IF n = 0 THEN 1 ELSE 2 * f[n - 1]]
             doubled == CHOOSE f : Doubles(f)
             rounds == {n \in 0 .. N : doubled[n] > N}
             last == CHOOSE n \in rounds : \A m \in rounds : n <= m
  <1>1. N \in Nat
    BY SizeAssumption
  <1>2. InitialCount = doubled[last]
    BY DEF InitialCount
  <1> HIDE DEF N
  <1>3. Doubles(doubled)
    <2> DEFINE step == [n \in 1 .. N |-> [s \in Nat |-> 2 * s]]
    <2>1. step \in [1 .. N -> [Nat -> Nat]] /\ 1 \in Nat
      OBVIOUS
    <2>2. PICK f \in [0 .. N -> Nat] : f[0] = 1 /\ \A n \in 1 .. N : f[n] = step[n][f[n - 1]]
      <3> DEFINE one == 1
                 S == Nat
      <3>1. one \in S /\ step \in [1 .. N -> [S -> S]]
        BY <2>1
      <3> HIDE DEF step, one, S
      <3>2. \E f \in [0 .. N -> S] : f[0] = one /\ \A n \in 1 .. N : f[n] = step[n][f[n - 1]]
        BY <1>1, <3>1, Recursion DEF Recursive
      <3> QED BY <3>2 DEF one, S
    <2>3. ASSUME NEW n \in 0 .. N
          PROVE  f[n] = IF n = 0 THEN 1 ELSE 2 * f[n - 1]
      <3>1. CASE n = 0
        BY <2>2, <3>1
      <3>2. CASE n # 0
        <4>1. n \in 1 .. N /\ n - 1 \in 0 .. N
          BY <1>1, <3>2
        <4>2. f[n - 1] \in Nat
          BY <4>1
        <4> QED BY <2>2, <3>2, <4>1, <4>2
      <3> QED BY <3>1, <3>2
    <2>4. Doubles(f)
      BY <2>3
    <2> HIDE DEF Doubles
    <2> QED BY <2>4
  <1> HIDE DEF doubled
  <1> DEFINE P == {n \in 0 .. N : doubled[n] \in Nat /\ doubled[n] > n}
  <1>4. P = 0 .. N
    <2>1. P \in SUBSET (0 .. N)
      OBVIOUS
    <2>2. 0 \in P
      BY <1>1, <1>3
    <2>3. ASSUME NEW n \in P, n < N PROVE n + 1 \in P
      <3>1. n + 1 \in 0 .. N /\ n + 1 # 0 /\ (n + 1) - 1 = n
        BY <1>1, <2>3
      <3>2. doubled[n + 1] = 2 * doubled[n]
        BY <1>3, <3>1
      <3> QED BY <3>1, <3>2
    <2> HIDE DEF P
    <2> QED BY <1>1, <2>1, <2>2, <2>3, BoundedInduction
  <1>5. \A n \in 0 .. N : doubled[n] \in Nat /\ doubled[n] > n
    BY <1>4
  <1>6. rounds \in SUBSET Nat /\ rounds # {}
    BY <1>1, <1>5
  <1>7. last \in rounds
    <2> HIDE DEF rounds
    <2>1. \E n \in rounds : \A m \in rounds : n <= m
      BY <1>6, LeastNatural
    <2> QED BY <2>1
  <1> HIDE DEF last
  <1> QED BY <1>1, <1>2, <1>5, <1>7

(* The number of buckets is the length of the table.                       *)
LEMMA Counted ==
  ASSUME NEW table, NEW n \in Nat, IsTable(table, n)
  PROVE  DOMAIN table = 0 .. n - 1 /\ Cardinality(DOMAIN table) = n
  <1>1. DOMAIN table = 0 .. n - 1
    BY DEF IsTable
  <1>2. Cardinality(0 .. n - 1) = n
    <2>1. 0 \in Int /\ n - 1 \in Int
      OBVIOUS
    <2>2. Cardinality(0 .. n - 1) = IF 0 > n - 1 THEN 0 ELSE (n - 1) - 0 + 1
      BY <2>1, FS_Interval
    <2> QED BY <2>2
  <1> QED BY <1>1, <1>2

(* Nothing is in the empty table, of any number of buckets.                *)
LEMMA EmptyTable ==
  ASSUME NEW n \in Nat
  PROVE  /\ IsTable([i \in 0 .. n - 1 |-> <<>>], n)
         /\ InTable([i \in 0 .. n - 1 |-> <<>>]) = {}
  <1>1. <<>> \in Seq(Entry) /\ Len(<<>>) = 0
    OBVIOUS
  <1> DEFINE table == [i \in 0 .. n - 1 |-> <<>>]
  <1>2. table \in [0 .. n - 1 -> Seq(Entry)]
    BY <1>1
  <1>3. \A i \in 0 .. n - 1 : table[i] = <<>>
    OBVIOUS
  <1> HIDE DEF table
  <1>4. IsTable(table, n)
    BY <1>1, <1>2, <1>3 DEF IsTable, Distinct, Belongs
  <1>5. ASSUME NEW e \in InTable(table) PROVE FALSE
    BY <1>1, <1>3, <1>4, Members
  <1> QED BY <1>4, <1>5 DEF table

-----------------------------------------------------------------------------
(* The state of the map: a table whose entries are counted.                *)
Table == bucketCount \in Nat /\ IsTable(buckets, bucketCount)
Counts == IsFiniteSet(Entries) /\ size = Cardinality(Entries)

LEMMA EntriesInTable == Entries = InTable(buckets)
  BY DEF Entries, InTable

(* What a lookup finds: an entry for the name of the key, if there is one. *)
LEMMA Lookup ==
  ASSUME Table, Exists, NEW k \in Key
  PROVE  /\ Home(k) \in 0 .. bucketCount - 1
         /\ IsFound(k) <=> NameOf[k] \in NamesIn
         /\ IsFound(k) =>
              /\ Place(k) \in 1 .. Len(buckets[Home(k)])
              /\ Found(k) \in Entries
              /\ NameOf[Found(k).key] = NameOf[k]
         /\ \A p \in 1 .. Len(buckets[Home(k)]) :
              NameOf[buckets[Home(k)][p].key] = NameOf[k] => IsFound(k) /\ Place(k) = p
  <1> DEFINE n == bucketCount
             i == Home(k)
             chain == buckets[i]
  <1>1. n \in Nat \ {0} /\ IsTable(buckets, n) /\ HashOf[k] \in Nat
    BY KeyAssumption DEF Table, Exists
  <1>2. i = HashOf[k] % n /\ i \in 0 .. n - 1
    <2> HIDE DEF n
    <2>1. HashOf[k] % n \in 0 .. n - 1
      BY <1>1, Remainder
    <2> QED BY <2>1 DEF Home, IndexFromHash, n
  <1> HIDE DEF n, i
  <1>3. chain \in Seq(Entry) /\ Distinct(chain) /\ Belongs(chain, n, i)
    BY <1>1, <1>2 DEF IsTable
  <1>4. DOMAIN chain = 1 .. Len(chain) /\ Len(chain) \in Nat
    BY <1>3, LenProperties
  <1>5. ASSUME NEW p \in 1 .. Len(chain)
        PROVE  EqualKeys(chain[p], k) <=> NameOf[chain[p].key] = NameOf[k]
    <2>1. chain[p] \in Entry /\ chain[p].hash = HashOf[chain[p].key]
      <3> HIDE DEF chain
      <3> QED BY <1>3, ElementOfSeq DEF Belongs
    <2>2. chain[p].key \in Key
      BY <2>1 DEF Entry
    <2> QED BY <2>1, <2>2, KeyAssumption DEF EqualKeys
  <1>6. Hits(k) = {p \in 1 .. Len(chain) : NameOf[chain[p].key] = NameOf[k]}
    BY <1>4, <1>5 DEF Hits, i
  <1>7. ASSUME NEW p \in Hits(k)
        PROVE  Hits(k) = {p} /\ Place(k) = p /\ IsFound(k)
    <2>1. \A q \in Hits(k) : q = p
      BY <1>3, <1>6 DEF Distinct
    <2>2. Hits(k) = {p} /\ p <= p
      BY <1>4, <1>6, <2>1
    <2> QED BY <2>2 DEF Place, IsFound
  <1>8. \A e : e \in Entries /\ HashOf[e.key] % n = i <=>
                 \E p \in 1 .. Len(chain) : chain[p] = e
    BY <1>1, <1>2, EntriesInTable, Members
  <1>9. ASSUME IsFound(k)
        PROVE  /\ Place(k) \in 1 .. Len(chain)
               /\ Found(k) = chain[Place(k)]
               /\ Found(k) \in Entries
               /\ NameOf[Found(k).key] = NameOf[k]
    <2>1. PICK p : p \in Hits(k)
      BY <1>9 DEF IsFound
    <2>2. Place(k) \in 1 .. Len(chain) /\ NameOf[chain[Place(k)].key] = NameOf[k]
      BY <1>6, <1>7, <2>1
    <2>3. Found(k) = chain[Place(k)]
      BY DEF Found, i
    <2> QED BY <1>8, <2>2, <2>3
  <1>10. ASSUME NameOf[k] \in NamesIn
         PROVE  IsFound(k)
    <2>1. PICK e \in Entries : NameOf[e.key] = NameOf[k]
      BY <1>10 DEF NamesIn
    <2>2. e.key \in Key
      BY <1>1, EntriesInTable, Members
    <2>3. HashOf[e.key] % n = i
      BY <1>2, <2>1, <2>2, KeyAssumption
    <2>4. PICK p \in 1 .. Len(chain) : chain[p] = e
      BY <1>8, <2>3
    <2>5. p \in Hits(k)
      BY <1>6, <2>1, <2>4
    <2> QED BY <2>5 DEF IsFound
  <1>11. IsFound(k) => NameOf[k] \in NamesIn
    BY <1>9 DEF NamesIn
  <1>12. \A p \in 1 .. Len(chain) : NameOf[chain[p].key] = NameOf[k] => IsFound(k) /\ Place(k) = p
    BY <1>6, <1>7
  <1> QED BY <1>2, <1>9, <1>10, <1>11, <1>12 DEF n, i

(* In such a state every entry is found, and the slots of the table, which *)
(* are as many as its entries, are counted right.                          *)
LEMMA TableFinds ==
  ASSUME Table, Counts
  PROVE  EveryEntryFound
  <1> DEFINE n == bucketCount
             at == [t \in Slots |-> buckets[t[1]][t[2]]]
  <1>1. n \in Nat /\ IsTable(buckets, n) /\ DOMAIN buckets = 0 .. n - 1
    BY Counted DEF Table
  <1>2. \A i \in 0 .. n - 1 : /\ DOMAIN buckets[i] = 1 .. Len(buckets[i])
                             /\ buckets[i] \in Seq(Entry)
    BY <1>1 DEF IsTable
  <1> HIDE DEF n
  <1>3. ASSUME NEW t \in Slots
        PROVE  /\ t = <<t[1], t[2]>>
               /\ t[1] \in 0 .. n - 1
               /\ t[2] \in 1 .. Len(buckets[t[1]])
    BY <1>1, <1>2 DEF Slots
  <1>4. ASSUME NEW t \in Slots
        PROVE  LET e == buckets[t[1]][t[2]]
               IN  /\ e \in Entries
                   /\ e.key \in Key
                   /\ IsFound(e.key)
                   /\ <<Home(e.key), Place(e.key)>> = t
    <2> DEFINE i == t[1]
               p == t[2]
               e == buckets[i][p]
    <2>1. i \in 0 .. n - 1 /\ p \in 1 .. Len(buckets[i])
      BY <1>3
    <2> HIDE DEF i, p
    <2>2. e \in Entries /\ e.key \in Key
      BY <1>1, <2>1, EntriesInTable, Members
    <2>3. Home(e.key) = i
      <3>1. Belongs(buckets[i], n, i)
        BY <1>1, <2>1 DEF IsTable
      <3> QED BY <2>1, <3>1 DEF Belongs, Home, IndexFromHash, n
    <2>4. Exists
      BY <1>1, <2>1 DEF Exists, n
    <2>5. IsFound(e.key) /\ Place(e.key) = p
      BY <2>1, <2>2, <2>3, <2>4, Lookup
    <2>6. t = <<i, p>>
      BY <1>3 DEF i, p
    <2> QED BY <2>2, <2>3, <2>5, <2>6 DEF i, p
  <1>5. at \in Bijection(Slots, Entries)
    <2>1. at \in [Slots -> Entries]
      BY <1>4
    <2>2. ASSUME NEW s \in Slots, NEW t \in Slots, at[s] = at[t]
          PROVE  s = t
      <3>1. buckets[s[1]][s[2]] = buckets[t[1]][t[2]]
        BY <2>2
      <3> QED BY <1>4, <3>1
    <2>3. ASSUME NEW e \in Entries
          PROVE  \E t \in Slots : at[t] = e
      <3>1. PICK i \in 0 .. n - 1 : \E p \in 1 .. Len(buckets[i]) : buckets[i][p] = e
        BY <1>1, EntriesInTable, Members
      <3>2. PICK p \in 1 .. Len(buckets[i]) : buckets[i][p] = e
        BY <3>1
      <3>3. <<i, p>> \in Slots
        BY <1>1, <1>2 DEF Slots
      <3> QED BY <3>2, <3>3
    <2> HIDE DEF at
    <2> QED BY <2>1, <2>2, <2>3 DEF Bijection, Injection, Surjection, IsInjective
  <1>6. Cardinality(Slots) = Cardinality(Entries)
    <2> HIDE DEF at
    <2>1. ExistsBijection(Entries, Slots)
      BY <1>5, Fun_ExistsBijSymmetric DEF ExistsBijection
    <2> QED BY <2>1, FS_Bijection DEF Counts
  <1> QED BY <1>4, <1>6 DEF EveryEntryFound, Counts

-----------------------------------------------------------------------------
(* What each kind of change to the table does to its entries.              *)
LEMMA NextTable ==
  ASSUME NEW n \in Nat, IsTable(buckets', n)
  PROVE  Table' /\ bucketCount' = n /\ Entries' = InTable(buckets')
  <1>1. bucketCount' = n
    BY Counted DEF bucketCount
  <1> QED BY <1>1 DEF Table, Entries, InTable

(* _create_entry at the end of its chain, with or without growth.          *)
NewEntry(k, v) == [key |-> k, hash |-> HashOf[k], value |-> v]

LEMMA Added ==
  ASSUME Table, Counts, Exists, NEW k \in Key, NEW v \in Value, ~IsFound(k),
         size' = size + 1, ExpandIfNecessary(Appended(k, v), size')
  PROVE  Table' /\ Counts' /\ Exists' /\ Entries' = Entries \cup {NewEntry(k, v)}
  <1> DEFINE n == bucketCount
             i == Home(k)
             e == NewEntry(k, v)
             new == Appended(k, v)
  <1>1. n \in Nat \ {0} /\ IsTable(buckets, n) /\ i \in 0 .. n - 1
    BY Lookup DEF Table, Exists
  <1>2. e \in Entry /\ e.key = k /\ e.hash = HashOf[k] /\ HashOf[k] % n = i
    BY KeyAssumption DEF Entry, NewEntry, Home, IndexFromHash
  <1>3. \A d \in Entries : NameOf[d.key] # NameOf[k]
    BY Lookup DEF NamesIn
  <1>4. new = WithChain(buckets, i, Append(buckets[i], e))
    BY DEF Appended, NewEntry, WithChain
  <1> HIDE DEF n, i, e, new
  <1>5. IsTable(new, n) /\ InTable(new) = Entries \cup {e}
    BY <1>1, <1>2, <1>3, <1>4, EntriesInTable, AppendedEntry
  <1>6. /\ IsTable(Expanded(new, 2 * n), 2 * n)
        /\ InTable(Expanded(new, 2 * n)) = Entries \cup {e}
    BY <1>1, <1>5, ExpandedTable
  <1>7. \/ buckets' = new
        \/ buckets' = Expanded(new, 2 * n)
    BY DEF ExpandIfNecessary, NewBucketCount, n, new
  <1>8. Table' /\ bucketCount' # 0 /\ Entries' = Entries \cup {e}
    <2>1. CASE buckets' = new
      BY <1>1, <1>5, <2>1, NextTable
    <2>2. CASE buckets' = Expanded(new, 2 * n)
      <3> DEFINE m == 2 * n
      <3>1. m \in Nat /\ m # 0
        BY <1>1
      <3>2. IsTable(buckets', m) /\ InTable(buckets') = Entries \cup {e}
        BY <1>6, <2>2
      <3> HIDE DEF m
      <3> QED BY <3>1, <3>2, NextTable
    <2> QED BY <1>7, <2>1, <2>2
  <1>9. e \notin Entries
    BY <1>2, <1>3
  <1>10. Counts'
    BY <1>8, <1>9, FS_AddElement DEF Counts
  <1> QED BY <1>8, <1>10 DEF Exists, e

(* hashmapPut's new value for a name that is there.                        *)
LEMMA Updated ==
  ASSUME Table, Counts, Exists, NEW k \in Key, NEW v \in Value, IsFound(k),
         buckets' = [buckets EXCEPT ![Home(k)][Place(k)].value = v], UNCHANGED size
  PROVE  /\ Table' /\ Counts' /\ Exists'
         /\ Entries' = (Entries \ {Found(k)}) \cup {Revalued(Found(k), v)}
  <1> DEFINE n == bucketCount
             i == Home(k)
             p == Place(k)
             d == Found(k)
             e == Revalued(d, v)
  <1>1. /\ n \in Nat \ {0} /\ IsTable(buckets, n) /\ i \in 0 .. n - 1
        /\ p \in 1 .. Len(buckets[i]) /\ d \in Entries
        /\ NameOf[d.key] = NameOf[k]
    BY Lookup DEF Table, Exists
  <1>2. d = buckets[i][p]
    BY DEF Found
  <1>3. buckets' = WithValue(buckets, i, p, v)
    BY DEF WithValue
  <1>4. d \in Entry
    BY <1>1, EntriesInTable, Members
  <1> HIDE DEF n, i, p, d
  <1>5. /\ IsTable(buckets', n)
        /\ InTable(buckets') = (InTable(buckets) \ {d}) \cup {e}
    <2> DEFINE new == WithValue(buckets, i, p, v)
               f == buckets[i][p]
    <2>1. n \in Nat /\ p \in 1 .. Len(buckets[i])
      BY <1>1
    <2>2. IsTable(new, n) /\ InTable(new) = (InTable(buckets) \ {f}) \cup {Revalued(f, v)}
      BY <1>1, <2>1, ReplacedEntry
    <2> QED BY <1>2, <1>3, <2>2
  <1>6. Table' /\ bucketCount' = n /\ Entries' = (Entries \ {d}) \cup {e}
    BY <1>1, <1>2, <1>5, NextTable, EntriesInTable
  <1>7. e.key = d.key
    BY <1>4 DEF Entry, Revalued
  <1>8. e \notin Entries \ {d}
    <2>1. SUFFICES ASSUME e \in Entries PROVE e = d
      OBVIOUS
    <2> HIDE DEF e
    <2> QED BY <1>1, <1>7, <2>1, EntriesInTable, OneEntry
  <1> HIDE DEF e
  <1>9. Counts'
    <2>1. /\ IsFiniteSet(Entries \ {d})
          /\ Cardinality(Entries \ {d}) = Cardinality(Entries) - 1
      BY <1>1, FS_RemoveElement DEF Counts
    <2>2. /\ IsFiniteSet((Entries \ {d}) \cup {e})
          /\ Cardinality((Entries \ {d}) \cup {e}) = Cardinality(Entries \ {d}) + 1
      BY <1>8, <2>1, FS_AddElement
    <2>3. Cardinality(Entries) \in Nat
      BY FS_CardinalityType DEF Counts
    <2> QED BY <1>6, <2>1, <2>2, <2>3 DEF Counts
  <1> QED BY <1>1, <1>6, <1>9 DEF Exists, e, d

(* hashmapRemove of a name that is there.                                  *)
LEMMA Removed ==
  ASSUME Table, Counts, Exists, NEW k \in Key, IsFound(k),
         buckets' = [buckets EXCEPT ![Home(k)] = Cut(@, Place(k))], size' = size - 1
  PROVE  /\ Table' /\ Counts' /\ Exists' /\ bucketCount' = bucketCount
         /\ Entries' = Entries \ {Found(k)}
  <1> DEFINE n == bucketCount
             i == Home(k)
             p == Place(k)
             d == Found(k)
  <1>1. /\ n \in Nat \ {0} /\ IsTable(buckets, n) /\ i \in 0 .. n - 1
        /\ p \in 1 .. Len(buckets[i]) /\ d \in Entries
    BY Lookup DEF Table, Exists
  <1>2. d = buckets[i][p]
    BY DEF Found
  <1>3. buckets' = WithChain(buckets, i, Cut(buckets[i], p))
    BY DEF WithChain
  <1> HIDE DEF n, i, p, d
  <1>4. IsTable(buckets', n) /\ InTable(buckets') = InTable(buckets) \ {d}
    <2> DEFINE new == WithChain(buckets, i, Cut(buckets[i], p))
    <2>1. n \in Nat /\ p \in 1 .. Len(buckets[i])
      BY <1>1
    <2>2. IsTable(new, n) /\ InTable(new) = InTable(buckets) \ {buckets[i][p]}
      BY <1>1, <2>1, RemovedEntry
    <2> QED BY <1>2, <1>3, <2>2
  <1>5. Table' /\ bucketCount' = n /\ Entries' = Entries \ {d}
    BY <1>1, <1>4, NextTable, EntriesInTable
  <1>6. Counts'
    BY <1>1, <1>5, FS_RemoveElement DEF Counts
  <1> QED BY <1>1, <1>5, <1>6 DEF Exists, n, d

(* A call that leaves the table alone.                                     *)
LEMMA LeftAlone ==
  ASSUME Table, Counts, Exists, Unmoved
  PROVE  Table' /\ Counts' /\ Exists' /\ bucketCount' = bucketCount /\ Entries' = Entries
  BY DEF Table, Counts, Exists, Unmoved, Entries, bucketCount

-----------------------------------------------------------------------------
(* hashmapForEach with its entry at place h of bucket b: what it has still *)
(* to call back with, the entry it holds, and why this goes down by one    *)
(* name with each callback, and not from one bucket to the next.           *)
ChainAt(table, n, b) == IF b < n THEN table[b] ELSE <<>>

NamesAhead(table, n, b, h) ==
  {NameOf[e.key] : e \in {d \in InTable(table) : HashOf[d.key] % n > b}}
    \cup {NameOf[ChainAt(table, n, b)[p].key] : p \in h .. Len(ChainAt(table, n, b))}

KeyAt(table, n, b, h) ==
  IF h <= Len(ChainAt(table, n, b)) THEN ChainAt(table, n, b)[h].key ELSE NULL

NamesOf(table) == {NameOf[e.key] : e \in InTable(table)}

LEMMA AllAhead ==
  ASSUME NEW table, NEW n \in Nat \ {0}, IsTable(table, n)
  PROVE  NamesAhead(table, n, 0, 1) = NamesOf(table)
  <1> DEFINE chain == table[0]
  <1>1. ChainAt(table, n, 0) = chain
    BY DEF ChainAt
  <1>2. \A e : e \in InTable(table) /\ HashOf[e.key] % n = 0 <=>
                 \E p \in 1 .. Len(chain) : chain[p] = e
    BY 0 \in 0 .. n - 1, n \in Nat, Members
  <1>3. ASSUME NEW e \in InTable(table)
        PROVE  HashOf[e.key] % n > 0 \/ HashOf[e.key] % n = 0
    <2>1. HashOf[e.key] \in Nat
      BY Members, KeyAssumption
    <2> DEFINE h == HashOf[e.key]
    <2> HIDE DEF h
    <2>2. h % n \in 0 .. n - 1
      BY <2>1, Remainder DEF h
    <2>3. h % n > 0 \/ h % n = 0
      BY <2>2
    <2> QED BY <2>3 DEF h
  <1> HIDE DEF chain
  <1>4. ASSUME NEW x
        PROVE  x \in NamesAhead(table, n, 0, 1) <=> x \in NamesOf(table)
    BY <1>1, <1>2, <1>3 DEF NamesAhead, NamesOf
  <1> QED BY <1>4

LEMMA NoneAhead ==
  ASSUME NEW table, NEW n \in Nat, IsTable(table, n)
  PROVE  NamesAhead(table, n, n, 1) = {}
  <1>1. ChainAt(table, n, n) = <<>> /\ Len(<<>>) = 0
    BY DEF ChainAt
  <1>2. ASSUME NEW e \in InTable(table)
        PROVE  ~(HashOf[e.key] % n > n)
    <2>1. PICK i \in 0 .. n - 1 : \E p \in 1 .. Len(table[i]) : table[i][p] = e
      BY Members
    <2>2. HashOf[e.key] % n = i
      BY <2>1, Members
    <2> QED BY <2>2
  <1> QED BY <1>1, <1>2 DEF NamesAhead

LEMMA BucketDone ==
  ASSUME NEW table, NEW n \in Nat, IsTable(table, n), NEW b \in 0 .. n - 1
  PROVE  NamesAhead(table, n, b, Len(table[b]) + 1) = NamesAhead(table, n, b + 1, 1)
  <1> DEFINE chain == ChainAt(table, n, b + 1)
  <1>1. ChainAt(table, n, b) = table[b] /\ Len(table[b]) \in Nat
    BY LenProperties DEF ChainAt, IsTable
  <1>2. \A x : x \in NamesAhead(table, n, b, Len(table[b]) + 1) <=>
                 \E e \in InTable(table) : HashOf[e.key] % n > b /\ NameOf[e.key] = x
    BY <1>1 DEF NamesAhead
  <1>3. \A e : e \in InTable(table) /\ HashOf[e.key] % n = b + 1 <=>
                 \E p \in 1 .. Len(chain) : chain[p] = e
    <2>1. CASE b + 1 < n
      <3>1. b + 1 \in 0 .. n - 1 /\ chain = table[b + 1]
        BY <2>1 DEF ChainAt
      <3> HIDE DEF chain
      <3> QED BY <3>1, Members
    <2>2. CASE b + 1 = n
      <3>1. chain = <<>> /\ Len(<<>>) = 0
        BY <2>2 DEF ChainAt
      <3>2. ASSUME NEW e \in InTable(table)
            PROVE  HashOf[e.key] % n # b + 1
        <4>1. PICK i \in 0 .. n - 1 : \E p \in 1 .. Len(table[i]) : table[i][p] = e
          BY Members
        <4>2. HashOf[e.key] % n = i
          BY <4>1, Members
        <4> QED BY <2>2, <4>2
      <3> HIDE DEF chain
      <3> QED BY <3>1, <3>2
    <2> QED BY <2>1, <2>2
  <1>4. ASSUME NEW e \in InTable(table)
        PROVE  HashOf[e.key] % n > b <=>
                 HashOf[e.key] % n > b + 1 \/ HashOf[e.key] % n = b + 1
    <2>1. PICK i \in 0 .. n - 1 : \E p \in 1 .. Len(table[i]) : table[i][p] = e
      BY Members
    <2>2. HashOf[e.key] % n = i
      BY <2>1, Members
    <2> QED BY <2>2
  <1>5. ASSUME NEW x
        PROVE  x \in NamesAhead(table, n, b + 1, 1) <=>
                 \E e \in InTable(table) : HashOf[e.key] % n > b /\ NameOf[e.key] = x
    <2>1. x \in NamesAhead(table, n, b + 1, 1) <=>
            \/ \E e \in InTable(table) : HashOf[e.key] % n > b + 1 /\ NameOf[e.key] = x
            \/ \E p \in 1 .. Len(chain) : NameOf[chain[p].key] = x
      BY DEF NamesAhead
    <2> HIDE DEF chain
    <2>2. (\E p \in 1 .. Len(chain) : NameOf[chain[p].key] = x) <=>
            \E e \in InTable(table) : HashOf[e.key] % n = b + 1 /\ NameOf[e.key] = x
      BY <1>3
    <2> QED BY <1>4, <2>1, <2>2
  <1> QED BY <1>2, <1>5

LEMMA EntryDone ==
  ASSUME NEW table, NEW n \in Nat, IsTable(table, n), NEW b \in 0 .. n - 1,
         NEW h \in 1 .. Len(table[b])
  PROVE  LET x == NameOf[table[b][h].key]
         IN  /\ NamesAhead(table, n, b, h) = {x} \cup NamesAhead(table, n, b, h + 1)
             /\ x \notin NamesAhead(table, n, b, h + 1)
  <1> DEFINE chain == table[b]
             x == NameOf[chain[h].key]
             later == {NameOf[e.key] : e \in {d \in InTable(table) : HashOf[d.key] % n > b}}
  <1>1. /\ ChainAt(table, n, b) = chain /\ Len(chain) \in Nat /\ h \in 1 .. Len(chain)
        /\ Distinct(chain)
    BY LenProperties DEF ChainAt, IsTable
  <1>2. chain[h] \in InTable(table) /\ HashOf[chain[h].key] % n = b
    BY Members
  <1>3. x \notin later
    <2>1. SUFFICES ASSUME NEW e \in InTable(table), HashOf[e.key] % n > b,
                          NameOf[e.key] = x
                   PROVE  FALSE
      OBVIOUS
    <2>2. e = chain[h]
      BY <1>2, <2>1, OneEntry
    <2> QED BY <1>2, <2>1, <2>2
  <1>4. NamesAhead(table, n, b, h) = later \cup {NameOf[chain[p].key] : p \in h .. Len(chain)}
    BY <1>1 DEF NamesAhead
  <1>5. NamesAhead(table, n, b, h + 1)
          = later \cup {NameOf[chain[p].key] : p \in h + 1 .. Len(chain)}
    BY <1>1 DEF NamesAhead
  <1> HIDE DEF chain, later
  <1>6. \A p : p \in h .. Len(chain) <=> p = h \/ p \in h + 1 .. Len(chain)
    BY <1>1
  <1>7. \A p \in h + 1 .. Len(chain) : NameOf[chain[p].key] # x
    BY <1>1 DEF Distinct
  <1>8. NamesAhead(table, n, b, h) = {x} \cup NamesAhead(table, n, b, h + 1)
    <2>1. {NameOf[chain[p].key] : p \in h .. Len(chain)}
            = {x} \cup {NameOf[chain[p].key] : p \in h + 1 .. Len(chain)}
      BY <1>6
    <2> QED BY <1>4, <1>5, <2>1
  <1>9. x \notin NamesAhead(table, n, b, h + 1)
    BY <1>3, <1>5, <1>7
  <1> QED BY <1>8, <1>9 DEF chain

LEMMA EntryRemoved ==
  ASSUME NEW table, NEW n \in Nat, IsTable(table, n), NEW b \in 0 .. n - 1,
         NEW h \in 1 .. Len(table[b])
  PROVE  LET new == WithChain(table, b, Cut(table[b], h))
         IN  /\ NamesAhead(new, n, b, h) = NamesAhead(table, n, b, h + 1)
             /\ KeyAt(new, n, b, h) = KeyAt(table, n, b, h + 1)
             /\ h \in 1 .. Len(ChainAt(new, n, b)) + 1
  <1> DEFINE chain == table[b]
             cut == Cut(chain, h)
             new == WithChain(table, b, cut)
  <1>1. chain \in Seq(Entry) /\ Len(chain) \in Nat /\ h \in 1 .. Len(chain)
    BY LenProperties DEF IsTable
  <1>2. ChainAt(table, n, b) = chain /\ ChainAt(new, n, b) = cut
    BY DEF ChainAt, IsTable, WithChain
  <1>3. InTable(new) = InTable(table) \ {chain[h]}
    BY RemovedEntry
  <1>4. HashOf[chain[h].key] % n = b
    <2>1. \E p \in 1 .. Len(chain) : chain[p] = chain[h]
      OBVIOUS
    <2> DEFINE d == chain[h]
    <2> HIDE DEF d
    <2>2. HashOf[d.key] % n = b
      BY <2>1, Members DEF d
    <2> QED BY <2>2 DEF d
  <1> HIDE DEF chain
  <1>5. /\ Len(cut) = Len(chain) - 1
        /\ \A q \in 1 .. Len(chain) - 1 : cut[q] = IF q < h THEN chain[q] ELSE chain[q + 1]
    BY <1>1, CutChain
  <1> HIDE DEF cut, new
  <1>6. \A q \in h .. Len(cut) : cut[q] = chain[q + 1] /\ q + 1 \in h + 1 .. Len(chain)
    BY <1>1, <1>5
  <1>7. \A q \in h + 1 .. Len(chain) : cut[q - 1] = chain[q] /\ q - 1 \in h .. Len(cut)
    BY <1>1, <1>5
  <1>8. {NameOf[cut[q].key] : q \in h .. Len(cut)}
          = {NameOf[chain[q].key] : q \in h + 1 .. Len(chain)}
    <2>1. ASSUME NEW q \in h .. Len(cut)
          PROVE  \E r \in h + 1 .. Len(chain) : NameOf[cut[q].key] = NameOf[chain[r].key]
      BY <1>6
    <2>2. ASSUME NEW q \in h + 1 .. Len(chain)
          PROVE  \E r \in h .. Len(cut) : NameOf[chain[q].key] = NameOf[cut[r].key]
      <3>1. cut[q - 1] = chain[q] /\ q - 1 \in h .. Len(cut)
        BY <1>7
      <3> QED BY <3>1
    <2> DEFINE left == {NameOf[cut[q].key] : q \in h .. Len(cut)}
               right == {NameOf[chain[q].key] : q \in h + 1 .. Len(chain)}
    <2>3. left \subseteq right
      BY <2>1
    <2>4. right \subseteq left
      BY <2>2
    <2> QED BY <2>3, <2>4
  <1>9. \A d : d \in InTable(new) /\ HashOf[d.key] % n > b <=>
                 d \in InTable(table) /\ HashOf[d.key] % n > b
    BY <1>3, <1>4
  <1>10. {NameOf[e.key] : e \in {d \in InTable(new) : HashOf[d.key] % n > b}}
           = {NameOf[e.key] : e \in {d \in InTable(table) : HashOf[d.key] % n > b}}
    BY <1>9
  <1>11. NamesAhead(new, n, b, h) = NamesAhead(table, n, b, h + 1)
    <2>1. NamesAhead(new, n, b, h)
            = {NameOf[e.key] : e \in {d \in InTable(new) : HashOf[d.key] % n > b}}
                \cup {NameOf[cut[q].key] : q \in h .. Len(cut)}
      BY <1>2 DEF NamesAhead
    <2>2. NamesAhead(table, n, b, h + 1)
            = {NameOf[e.key] : e \in {d \in InTable(table) : HashOf[d.key] % n > b}}
                \cup {NameOf[chain[q].key] : q \in h + 1 .. Len(chain)}
      BY <1>2 DEF NamesAhead
    <2> QED BY <1>8, <1>10, <2>1, <2>2
  <1>12. KeyAt(new, n, b, h) = KeyAt(table, n, b, h + 1)
    <2>1. h <= Len(cut) <=> h + 1 <= Len(chain)
      BY <1>1, <1>5
    <2>2. CASE h <= Len(cut)
      BY <1>1, <1>2, <1>6, <2>1, <2>2 DEF KeyAt
    <2>3. CASE ~(h <= Len(cut))
      BY <1>2, <2>1, <2>3 DEF KeyAt
    <2> QED BY <2>2, <2>3
  <1>13. h \in 1 .. Len(cut) + 1
    BY <1>1, <1>5
  <1> QED BY <1>2, <1>11, <1>12, <1>13 DEF new, cut, chain

-----------------------------------------------------------------------------
(* A hashmapForEach under way holds the entry at some place of its bucket, *)
(* and what it began with is what it has called back with, each name once, *)
(* and what it has still ahead.                                            *)
Called == {visited[p] : p \in DOMAIN visited}

Once == \A p, q \in 1 .. Len(visited) : visited[p] = visited[q] => p = q

StandsAt(h) ==
  /\ h \in 1 .. Len(ChainAt(buckets, bucketCount, cursor.bucket)) + 1
  /\ cursor.entry = KeyAt(buckets, bucketCount, cursor.bucket, h)
  /\ Called \cap NamesAhead(buckets, bucketCount, cursor.bucket, h) = {}
  /\ begun = Called \cup NamesAhead(buckets, bucketCount, cursor.bucket, h)

Going ==
  /\ cursor \in [bucket: 0 .. bucketCount, entry: Key \cup {NULL}]
  /\ visited \in Seq(Name)
  /\ Once
  /\ \E h \in Nat : StandsAt(h)

CursorInv == ~Idle => Going

NotFreed == Exists => call[1] # "free"

MapInv == Table /\ Counts /\ NotFreed /\ CursorInv

LEMMA MapInitInv == MapInit => MapInv
  <1> SUFFICES ASSUME MapInit PROVE MapInv
    OBVIOUS
  <1> DEFINE n == InitialCount
  <1>1. n \in Nat
    BY InitialCountPositive
  <1>2. buckets = [i \in 0 .. n - 1 |-> <<>>]
    BY DEF MapInit
  <1> HIDE DEF n
  <1>3. IsTable(buckets, n) /\ InTable(buckets) = {}
    BY <1>1, <1>2, EmptyTable
  <1>4. bucketCount = n
    BY <1>1, <1>3, Counted DEF bucketCount
  <1>5. Table
    BY <1>1, <1>3, <1>4 DEF Table
  <1>6. Counts
    BY <1>3, EntriesInTable, FS_EmptySet DEF Counts, MapInit
  <1>7. NotFreed
    BY DEF NotFreed, MapInit
  <1>8. CursorInv
    BY DEF CursorInv, Idle, MapInit
  <1> QED BY <1>5, <1>6, <1>7, <1>8 DEF MapInv

(* The first entry of a bucket is the one at its first place.              *)
LEMMA FirstOfBucket ==
  ASSUME Table, NEW i \in 0 .. bucketCount
  PROVE  /\ FirstEntry(i) = KeyAt(buckets, bucketCount, i, 1)
         /\ FirstEntry(i) \in Key \cup {NULL}
         /\ 1 \in 1 .. Len(ChainAt(buckets, bucketCount, i)) + 1
  <1> DEFINE n == bucketCount
             chain == buckets[i]
  <1>1. n \in Nat /\ IsTable(buckets, n)
    BY DEF Table
  <1>2. CASE i = n
    <2>1. ChainAt(buckets, n, i) = <<>> /\ Len(<<>>) = 0
      BY <1>2 DEF ChainAt
    <2> QED BY <1>1, <1>2, <2>1 DEF FirstEntry, KeyAt
  <1>3. CASE i < n
    <2> HIDE DEF n
    <2>1. ChainAt(buckets, n, i) = chain /\ i \in 0 .. n - 1
      BY <1>1, <1>3 DEF ChainAt, n
    <2>2. chain \in Seq(Entry) /\ Len(chain) \in Nat
      BY <1>1, <2>1, LenProperties DEF IsTable
    <2> HIDE DEF chain
    <2>3. CASE chain = <<>>
      <3>1. Len(chain) = 0
        BY <2>3
      <3> QED BY <2>1, <2>3, <3>1 DEF FirstEntry, KeyAt, n, chain
    <2>4. CASE chain # <<>>
      <3>1. Len(chain) >= 1 /\ Head(chain) = chain[1] /\ chain[1] \in Entry
        BY <2>2, <2>4
      <3>2. chain[1].key \in Key
        BY <3>1 DEF Entry
      <3>3. FirstEntry(i) = chain[1].key
        BY <1>3, <2>4, <3>1 DEF FirstEntry, n, chain
      <3> QED BY <2>1, <2>2, <3>1, <3>2, <3>3 DEF KeyAt, n
    <2> QED BY <2>3, <2>4
  <1> QED BY <1>1, <1>2, <1>3

-----------------------------------------------------------------------------
(* Calls between two hashmapForEach: the cursor is at rest and stays so.   *)
LEMMA AtRest ==
  ASSUME Idle, Quiet
  PROVE  CursorInv'
  BY DEF CursorInv, Idle, Quiet

LEMMA NotFreedBy ==
  ASSUME NEW f, f # "free", NEW k, NEW v, Asks(f, k, v)
  PROVE  NotFreed'
  BY DEF NotFreed, Asks

(* hashmapPut and hashmapMemoize of a name that is not there.              *)
LEMMA AddEntryInv ==
  ASSUME Table, Counts, Exists, NEW k \in Key, NEW v \in Value, ~IsFound(k),
         NEW answer, AddEntry(k, v, answer)
  PROVE  Table' /\ Counts'
  BY Added, LeftAlone DEF AddEntry, NoMemory

LEMMA RemoveEntryInv ==
  ASSUME Table, Counts, Exists, NEW k \in Key, RemoveEntry(k)
  PROVE  Table' /\ Counts'
  BY Removed, LeftAlone DEF RemoveEntry

LEMMA PutInv ==
  ASSUME MapInv, Exists, NEW k \in Key, NEW v \in Value, hashmapPut(k, v)
  PROVE  MapInv'
  <1>1. Table' /\ Counts'
    BY Updated, AddEntryInv DEF MapInv, hashmapPut
  <1>2. NotFreed'
    BY NotFreedBy, "put" # "free" DEF hashmapPut
  <1> QED BY <1>1, <1>2, AtRest DEF MapInv, hashmapPut

LEMMA MemoizeInv ==
  ASSUME MapInv, Exists, NEW k \in Key, NEW v \in Value, hashmapMemoize(k, v)
  PROVE  MapInv'
  <1>1. Table' /\ Counts'
    BY LeftAlone, AddEntryInv DEF MapInv, hashmapMemoize
  <1>2. NotFreed'
    BY NotFreedBy, "memoize" # "free" DEF hashmapMemoize
  <1> QED BY <1>1, <1>2, AtRest DEF MapInv, hashmapMemoize

LEMMA ReadInv ==
  ASSUME MapInv, Exists, NEW k \in Key, hashmapGet(k) \/ hashmapContainsKey(k)
  PROVE  MapInv'
  <1>1. Idle /\ Quiet /\ Unmoved
    BY DEF hashmapGet, hashmapContainsKey
  <1>2. Table' /\ Counts'
    BY <1>1, LeftAlone DEF MapInv
  <1>3. NotFreed'
    BY NotFreedBy, "get" # "free", "contains" # "free" DEF hashmapGet, hashmapContainsKey
  <1> QED BY <1>1, <1>2, <1>3, AtRest DEF MapInv

LEMMA RemoveInv ==
  ASSUME MapInv, Exists, NEW k \in Key, hashmapRemove(k)
  PROVE  MapInv'
  <1>1. Table' /\ Counts'
    BY RemoveEntryInv DEF MapInv, hashmapRemove
  <1>2. NotFreed'
    BY NotFreedBy, "remove" # "free" DEF hashmapRemove, RemoveEntry
  <1> QED BY <1>1, <1>2, AtRest DEF MapInv, hashmapRemove

LEMMA FreeInv ==
  ASSUME MapInv, hashmapFree
  PROVE  MapInv'
  <1> DEFINE empty == [i \in 0 .. 0 - 1 |-> <<>>]
  <1>1. buckets' = empty
    <2>1. 0 .. 0 - 1 = {}
      OBVIOUS
    <2> QED BY <2>1 DEF hashmapFree
  <1>2. 0 \in Nat
    OBVIOUS
  <1>3. IsTable(empty, 0) /\ InTable(empty) = {}
    BY <1>2, EmptyTable
  <1> HIDE DEF empty
  <1>4. Table' /\ bucketCount' = 0 /\ Entries' = {}
    BY <1>1, <1>2, <1>3, NextTable
  <1>5. Counts'
    BY <1>4, FS_EmptySet DEF Counts, hashmapFree
  <1>6. NotFreed'
    BY <1>4 DEF NotFreed, Exists
  <1> QED BY <1>4, <1>5, <1>6, AtRest DEF MapInv, hashmapFree

-----------------------------------------------------------------------------
(* Where a hashmapForEach stands when it is about to call back: at an      *)
(* entry of the bucket of its hash, which a lookup of its key would find.  *)
LEMMA Standing ==
  ASSUME Table, Going, cursor.entry # NULL, NEW h \in Nat, StandsAt(h)
  PROVE  /\ cursor.bucket \in 0 .. bucketCount - 1
         /\ h \in 1 .. Len(buckets[cursor.bucket])
         /\ h + 1 \in 1 .. Len(ChainAt(buckets, bucketCount, cursor.bucket)) + 1
         /\ cursor.entry \in Key
         /\ buckets[cursor.bucket][h].key = cursor.entry
         /\ Successor(buckets[cursor.bucket])
              = KeyAt(buckets, bucketCount, cursor.bucket, h + 1)
         /\ Successor(buckets[cursor.bucket]) \in Key \cup {NULL}
         /\ IsFound(cursor.entry)
         /\ Home(cursor.entry) = cursor.bucket
         /\ Place(cursor.entry) = h
  <1> DEFINE n == bucketCount
             b == cursor.bucket
             k == cursor.entry
             chain == buckets[b]
  <1>1. n \in Nat /\ IsTable(buckets, n) /\ b \in 0 .. n /\ k \in Key
    BY DEF Table, Going
  <1>2. k = KeyAt(buckets, n, b, h) /\ k # NULL /\ h \in 1 .. Len(ChainAt(buckets, n, b)) + 1
    BY DEF StandsAt
  <1> HIDE DEF n, b, k
  <1>3. b < n
    <2>1. SUFFICES ASSUME ~(b < n) PROVE FALSE
      OBVIOUS
    <2>2. ChainAt(buckets, n, b) = <<>> /\ Len(<<>>) = 0
      BY <2>1 DEF ChainAt
    <2>3. ~(h <= 0)
      BY <1>2, <2>2
    <2> QED BY <1>2, <2>2, <2>3 DEF KeyAt
  <1>4. ChainAt(buckets, n, b) = chain /\ b \in 0 .. n - 1
    BY <1>1, <1>3 DEF ChainAt
  <1>5. /\ chain \in Seq(Entry) /\ Len(chain) \in Nat /\ DOMAIN chain = 1 .. Len(chain)
        /\ Distinct(chain) /\ Belongs(chain, n, b)
    BY <1>1, <1>4, LenProperties DEF IsTable
  <1> HIDE DEF chain
  <1>6. h \in 1 .. Len(chain) /\ k = chain[h].key
    <2>1. h <= Len(chain)
      BY <1>2, <1>4 DEF KeyAt
    <2> QED BY <1>2, <1>4, <1>5, <2>1 DEF KeyAt
  <1>7. h + 1 \in 1 .. Len(ChainAt(buckets, n, b)) + 1
    BY <1>4, <1>5, <1>6
  <1> DEFINE here == CHOOSE p \in DOMAIN chain : chain[p].key = k
  <1>8. here = h
    <2>1. \A p \in DOMAIN chain : chain[p].key = k => p = h
      BY <1>5, <1>6 DEF Distinct
    <2>2. h \in DOMAIN chain /\ chain[h].key = k
      BY <1>5, <1>6
    <2>3. here \in DOMAIN chain /\ chain[here].key = k
      BY <2>2
    <2> HIDE DEF here
    <2> QED BY <2>1, <2>3
  <1>9. Successor(chain) = IF h < Len(chain) THEN chain[h + 1].key ELSE NULL
    <2>1. Successor(chain) = IF here < Len(chain) THEN chain[here + 1].key ELSE NULL
      BY DEF Successor, k
    <2> HIDE DEF here
    <2> QED BY <1>8, <2>1
  <1> HIDE DEF here
  <1>10. Successor(chain) = KeyAt(buckets, n, b, h + 1) /\ Successor(chain) \in Key \cup {NULL}
    <2>1. h < Len(chain) <=> h + 1 <= Len(chain)
      BY <1>5, <1>6
    <2>2. CASE h < Len(chain)
      <3>1. h + 1 \in 1 .. Len(chain)
        BY <1>5, <1>6, <2>2
      <3>2. chain[h + 1] \in Entry
        BY <1>5, <3>1, ElementOfSeq
      <3>3. chain[h + 1].key \in Key
        BY <3>2 DEF Entry
      <3> QED BY <1>4, <1>9, <2>1, <2>2, <3>3 DEF KeyAt
    <2>3. CASE ~(h < Len(chain))
      BY <1>4, <1>9, <2>1, <2>3 DEF KeyAt
    <2> QED BY <2>2, <2>3
  <1>11. Home(k) = b
    BY <1>5, <1>6 DEF Belongs, Home, IndexFromHash, n
  <1>12. Exists
    BY <1>1, <1>3 DEF Exists, n
  <1>13. IsFound(k) /\ Place(k) = h
    BY <1>1, <1>6, <1>11, <1>12, Lookup DEF chain
  <1> QED BY <1>1, <1>4, <1>6, <1>7, <1>10, <1>11, <1>13 DEF n, b, k, chain

(* A callback with a name it was not called with before.                   *)
LEMMA CalledOnce ==
  ASSUME visited \in Seq(Name), Once, NEW x \in Name, x \notin Called,
         visited' = Append(visited, x)
  PROVE  visited' \in Seq(Name) /\ Once' /\ Called' = Called \cup {x}
  <1> DEFINE s == visited
             t == visited'
  <1>1. Len(s) \in Nat /\ DOMAIN s = 1 .. Len(s)
    BY LenProperties
  <1>2. /\ t \in Seq(Name) /\ Len(t) = Len(s) + 1
        /\ \A p \in 1 .. Len(s) : t[p] = s[p]
        /\ t[Len(s) + 1] = x
    BY AppendProperties
  <1>3. DOMAIN t = 1 .. Len(t)
    BY <1>2, LenProperties
  <1>4. Called = {s[p] : p \in 1 .. Len(s)} /\ Called' = {t[p] : p \in 1 .. Len(t)}
    BY <1>1, <1>3 DEF Called
  <1>5. \A p, q \in 1 .. Len(s) : s[p] = s[q] => p = q
    BY DEF Once
  <1>6. Once' <=> \A p, q \in 1 .. Len(t) : t[p] = t[q] => p = q
    BY DEF Once
  <1>7. \A p \in 1 .. Len(s) : s[p] # x
    BY <1>4
  <1> HIDE DEF s, t
  <1>8. \A p : p \in 1 .. Len(t) <=> p \in 1 .. Len(s) \/ p = Len(s) + 1
    BY <1>1, <1>2
  <1>9. \A p, q \in 1 .. Len(t) : t[p] = t[q] => p = q
    <2>1. SUFFICES ASSUME NEW p \in 1 .. Len(t), NEW q \in 1 .. Len(t), t[p] = t[q]
                   PROVE  p = q
      OBVIOUS
    <2>2. CASE p \in 1 .. Len(s) /\ q \in 1 .. Len(s)
      BY <1>2, <1>5, <2>1, <2>2
    <2>3. CASE p = Len(s) + 1 /\ q \in 1 .. Len(s)
      BY <1>2, <1>7, <2>1, <2>3
    <2>4. CASE p \in 1 .. Len(s) /\ q = Len(s) + 1
      BY <1>2, <1>7, <2>1, <2>4
    <2> QED BY <1>8, <2>2, <2>3, <2>4
  <1>10. {t[p] : p \in 1 .. Len(t)} = {s[p] : p \in 1 .. Len(s)} \cup {x}
    <2>1. ASSUME NEW y \in {t[p] : p \in 1 .. Len(t)}
          PROVE  y \in {s[p] : p \in 1 .. Len(s)} \cup {x}
      BY <1>2, <1>8
    <2>2. ASSUME NEW y \in {s[p] : p \in 1 .. Len(s)}
          PROVE  y \in {t[p] : p \in 1 .. Len(t)}
      BY <1>2, <1>8
    <2>3. x \in {t[p] : p \in 1 .. Len(t)}
      BY <1>2, <1>8
    <2> QED BY <2>1, <2>2, <2>3
  <1> QED BY <1>2, <1>4, <1>6, <1>9, <1>10 DEF s, t

LEMMA BeginInv ==
  ASSUME MapInv, Exists, BeginForEach
  PROVE  MapInv'
  <1> DEFINE n == bucketCount
  <1>1. Table' /\ Counts' /\ bucketCount' = n /\ buckets' = buckets
    BY LeftAlone DEF MapInv, BeginForEach, Unmoved
  <1>2. NotFreed'
    BY <1>1 DEF MapInv, NotFreed, Exists, BeginForEach
  <1>3. n \in Nat \ {0} /\ IsTable(buckets, n) /\ 0 \in 0 .. n
    BY DEF MapInv, Table, Exists
  <1>4. /\ FirstEntry(0) = KeyAt(buckets, n, 0, 1)
        /\ FirstEntry(0) \in Key \cup {NULL}
        /\ 1 \in 1 .. Len(ChainAt(buckets, n, 0)) + 1
    BY <1>3, FirstOfBucket DEF MapInv
  <1>5. cursor' = [bucket |-> 0, entry |-> FirstEntry(0)]
    BY DEF BeginForEach, FirstBucket
  <1>6. visited' = <<>> /\ Called' = {} /\ Once'
    BY DEF BeginForEach, Called, Once
  <1>7. begun' = NamesAhead(buckets, n, 0, 1)
    BY <1>3, AllAhead, EntriesInTable DEF BeginForEach, NamesIn, NamesOf
  <1> HIDE DEF n
  <1>8. StandsAt(1)'
    BY <1>1, <1>4, <1>5, <1>6, <1>7 DEF StandsAt
  <1>9. Going'
    <2>1. cursor' \in [bucket: 0 .. n, entry: Key \cup {NULL}]
      BY <1>3, <1>4, <1>5
    <2>2. visited' \in Seq(Name)
      BY <1>6
    <2> QED BY <1>1, <1>6, <1>8, <2>1, <2>2, 1 \in Nat DEF Going
  <1> QED BY <1>1, <1>2, <1>9 DEF MapInv, CursorInv

LEMMA NextBucketInv ==
  ASSUME MapInv, Exists, NextBucket
  PROVE  MapInv'
  <1> DEFINE n == bucketCount
             b == cursor.bucket
  <1>1. Table' /\ Counts' /\ bucketCount' = n /\ buckets' = buckets
    BY LeftAlone DEF MapInv, NextBucket, Unmoved
  <1>2. NotFreed'
    BY <1>1 DEF MapInv, NotFreed, Exists, NextBucket
  <1>3. Going /\ cursor.entry = NULL /\ b < n
    BY DEF MapInv, CursorInv, NextBucket
  <1>4. n \in Nat /\ IsTable(buckets, n) /\ b \in 0 .. n - 1 /\ b + 1 \in 0 .. n
    BY <1>3 DEF MapInv, Table, Going
  <1>5. cursor' = [bucket |-> b + 1, entry |-> FirstEntry(b + 1)]
    BY DEF NextBucket
  <1>6. visited' = visited /\ begun' = begun /\ Called' = Called /\ Once'
    BY <1>3 DEF NextBucket, Called, Once, Going
  <1>7. /\ FirstEntry(b + 1) = KeyAt(buckets, n, b + 1, 1)
        /\ FirstEntry(b + 1) \in Key \cup {NULL}
        /\ 1 \in 1 .. Len(ChainAt(buckets, n, b + 1)) + 1
    BY <1>4, FirstOfBucket DEF MapInv
  <1>8. PICK h \in Nat : StandsAt(h)
    BY <1>3 DEF Going
  <1>9. h = Len(buckets[b]) + 1
    <2> DEFINE chain == buckets[b]
    <2>1. ChainAt(buckets, n, b) = chain
      BY <1>4 DEF ChainAt
    <2>2. chain \in Seq(Entry) /\ Len(chain) \in Nat
      BY <1>4, LenProperties DEF IsTable
    <2> HIDE DEF chain, n, b
    <2>3. h \in 1 .. Len(chain) + 1 /\ NULL = KeyAt(buckets, n, b, h)
      BY <1>3, <1>8, <2>1 DEF StandsAt, n, b
    <2>4. ASSUME h <= Len(chain) PROVE FALSE
      <3>1. h \in 1 .. Len(chain)
        BY <2>2, <2>3, <2>4
      <3>2. chain[h] \in Entry
        BY <2>2, <3>1, ElementOfSeq
      <3>3. chain[h].key \in Key
        BY <3>2 DEF Entry
      <3>4. NULL = chain[h].key
        BY <2>1, <2>3, <2>4 DEF KeyAt
      <3> QED BY <3>3, <3>4, KeyAssumption
    <2> QED BY <2>2, <2>3, <2>4 DEF chain
  <1>10. NamesAhead(buckets, n, b, h) = NamesAhead(buckets, n, b + 1, 1)
    <2> HIDE DEF n, b
    <2> QED BY <1>4, <1>9, BucketDone
  <1>11. /\ Called \cap NamesAhead(buckets, n, b, h) = {}
         /\ begun = Called \cup NamesAhead(buckets, n, b, h)
    BY <1>8 DEF StandsAt
  <1> HIDE DEF n, b
  <1>12. StandsAt(1)'
    BY <1>1, <1>5, <1>6, <1>7, <1>10, <1>11 DEF StandsAt
  <1>13. Going'
    <2>1. cursor' \in [bucket: 0 .. n, entry: Key \cup {NULL}]
      BY <1>4, <1>5, <1>7
    <2>2. visited' \in Seq(Name)
      BY <1>3, <1>6 DEF Going
    <2> QED BY <1>1, <1>6, <1>12, <2>1, <2>2, 1 \in Nat DEF Going
  <1> QED BY <1>1, <1>2, <1>13 DEF MapInv, CursorInv

(* hashmapForEach is over, at the last bucket or because a callback said.  *)
LEMMA FinishInv ==
  ASSUME MapInv, Exists, Finish
  PROVE  MapInv'
  <1>1. Table' /\ Counts' /\ bucketCount' = bucketCount
    BY LeftAlone DEF MapInv, Finish
  <1>2. NotFreed'
    BY <1>1 DEF MapInv, NotFreed, Exists, Finish
  <1>3. CursorInv'
    BY DEF CursorInv, Idle, Finish
  <1> QED BY <1>1, <1>2, <1>3 DEF MapInv

(* A callback that goes on, and may have removed its entry: the name it is *)
(* called with is behind it then, and the rest is ahead as it was.         *)
LEMMA CallbackInv ==
  ASSUME MapInv, Exists, ~Idle, cursor.entry # NULL,
         cursor' = [cursor EXCEPT !.entry = Successor(buckets[cursor.bucket])],
         visited' = Append(visited, NameOf[cursor.entry]),
         UNCHANGED begun,
         \/ Unmoved /\ UNCHANGED <<call, returned, errno>>
         \/ RemoveEntry(cursor.entry)
  PROVE  MapInv'
  <1> DEFINE n == bucketCount
             b == cursor.bucket
             k == cursor.entry
             next == Successor(buckets[b])
             x == NameOf[k]
  <1>1. Table /\ Counts /\ Going
    BY DEF MapInv, CursorInv
  <1>2. PICK h \in Nat : StandsAt(h)
    BY <1>1 DEF Going
  <1>3. /\ b \in 0 .. n - 1 /\ h \in 1 .. Len(buckets[b])
        /\ h + 1 \in 1 .. Len(ChainAt(buckets, n, b)) + 1
        /\ k \in Key /\ buckets[b][h].key = k
        /\ next = KeyAt(buckets, n, b, h + 1) /\ next \in Key \cup {NULL}
        /\ IsFound(k) /\ Home(k) = b /\ Place(k) = h
    BY <1>1, <1>2, Standing
  <1>4. n \in Nat /\ IsTable(buckets, n) /\ x \in Name
    BY <1>1, <1>3, KeyAssumption DEF Table
  <1>5. cursor' = [bucket |-> b, entry |-> next]
    BY <1>1 DEF Going
  <1>6. /\ visited' = Append(visited, x) /\ begun' = begun
        /\ Called \cap NamesAhead(buckets, n, b, h) = {}
        /\ begun = Called \cup NamesAhead(buckets, n, b, h)
    BY <1>2 DEF StandsAt
  <1>7. (Unmoved /\ UNCHANGED <<call, returned, errno>>) \/ RemoveEntry(k)
    OBVIOUS
  <1>8. /\ NamesAhead(buckets, n, b, h) = {x} \cup NamesAhead(buckets, n, b, h + 1)
        /\ x \notin NamesAhead(buckets, n, b, h + 1)
    <2> HIDE DEF n, b, k
    <2>1. x = NameOf[buckets[b][h].key]
      BY <1>3
    <2> HIDE DEF x
    <2> QED BY <1>3, <1>4, <2>1, EntryDone
  <1> HIDE DEF n, b, k, next, x
  <1>9. visited' \in Seq(Name) /\ Once' /\ Called' = Called \cup {x}
    BY <1>1, <1>4, <1>6, <1>8, CalledOnce DEF Going
  <1>10. /\ Called' \cap NamesAhead(buckets, n, b, h + 1) = {}
         /\ begun' = Called' \cup NamesAhead(buckets, n, b, h + 1)
    BY <1>6, <1>8, <1>9
  <1>11. /\ Table' /\ Counts' /\ Exists' /\ bucketCount' = n
         /\ \E g \in Nat :
              /\ g \in 1 .. Len(ChainAt(buckets', n, b)) + 1
              /\ NamesAhead(buckets', n, b, g) = NamesAhead(buckets, n, b, h + 1)
              /\ next = KeyAt(buckets', n, b, g)
    <2>1. CASE Unmoved
      <3>1. Table' /\ Counts' /\ Exists' /\ bucketCount' = n
        BY <1>1, <2>1, LeftAlone DEF n
      <3> QED BY <1>3, <2>1, <3>1, h + 1 \in Nat DEF Unmoved
    <2>2. CASE RemoveEntry(k)
      <3>1. /\ buckets' = [buckets EXCEPT ![Home(k)] = Cut(@, Place(k))]
            /\ size' = size - 1
        BY <1>3, <2>2 DEF RemoveEntry
      <3>2. Table' /\ Counts' /\ Exists' /\ bucketCount' = n
        BY <1>1, <1>3, <3>1, Removed DEF n
      <3>3. buckets' = WithChain(buckets, b, Cut(buckets[b], h))
        BY <1>3, <3>1 DEF WithChain
      <3>4. /\ NamesAhead(buckets', n, b, h) = NamesAhead(buckets, n, b, h + 1)
            /\ KeyAt(buckets', n, b, h) = KeyAt(buckets, n, b, h + 1)
            /\ h \in 1 .. Len(ChainAt(buckets', n, b)) + 1
        BY <1>3, <1>4, <3>3, EntryRemoved
      <3> QED BY <1>3, <3>2, <3>4
    <2> QED BY <1>7, <2>1, <2>2
  <1>12. PICK g \in Nat :
           /\ g \in 1 .. Len(ChainAt(buckets', n, b)) + 1
           /\ NamesAhead(buckets', n, b, g) = NamesAhead(buckets, n, b, h + 1)
           /\ next = KeyAt(buckets', n, b, g)
    BY <1>11
  <1>13. StandsAt(g)'
    BY <1>5, <1>10, <1>11, <1>12 DEF StandsAt
  <1>14. Going'
    <2>1. cursor' \in [bucket: 0 .. n, entry: Key \cup {NULL}]
      <3>1. b \in 0 .. n /\ next \in Key \cup {NULL}
        BY <1>3, <1>4
      <3>2. [bucket |-> b, entry |-> next] \in [bucket: 0 .. n, entry: Key \cup {NULL}]
        BY <3>1
      <3> QED BY <1>5, <3>2
    <2> QED BY <1>9, <1>11, <1>13, <2>1 DEF Going
  <1>15. NotFreed'
    <2>1. CASE UNCHANGED call
      BY <2>1 DEF MapInv, NotFreed
    <2>2. CASE RemoveEntry(k)
      BY <2>2, NotFreedBy, "remove" # "free" DEF RemoveEntry
    <2> QED BY <1>7, <2>1, <2>2
  <1> QED BY <1>11, <1>14, <1>15 DEF MapInv, CursorInv

-----------------------------------------------------------------------------
LEMMA MapNextInv == MapInv /\ [MapNext]_hvars => MapInv'
  <1> SUFFICES ASSUME MapInv, [MapNext]_hvars PROVE MapInv'
    OBVIOUS
  <1>1. CASE MapNext
    <2>1. Exists
      BY <1>1 DEF MapNext
    <2>2. ASSUME NEW k \in Key, NEW v \in Value, hashmapPut(k, v) \/ hashmapMemoize(k, v)
          PROVE  MapInv'
      BY <2>1, <2>2, PutInv, MemoizeInv
    <2>3. ASSUME NEW k \in Key, hashmapGet(k) \/ hashmapContainsKey(k)
          PROVE  MapInv'
      BY <2>1, <2>3, ReadInv
    <2>4. ASSUME NEW k \in Key, hashmapRemove(k)
          PROVE  MapInv'
      BY <2>1, <2>4, RemoveInv
    <2>5. CASE BeginForEach
      BY <2>1, <2>5, BeginInv
    <2>6. CASE NextBucket
      BY <2>1, <2>6, NextBucketInv
    <2>7. CASE Callback
      <3>1. CASE Finish
        BY <2>1, <3>1, FinishInv
      <3>2. CASE ~Finish
        BY <2>1, <2>7, <3>2, CallbackInv DEF Callback
      <3> QED BY <3>1, <3>2
    <2>8. CASE EndForEach
      BY <2>1, <2>8, FinishInv DEF EndForEach
    <2>9. CASE hashmapFree
      BY <2>9, FreeInv
    <2> QED BY <1>1, <2>2, <2>3, <2>4, <2>5, <2>6, <2>7, <2>8, <2>9 DEF MapNext
  <1>2. CASE UNCHANGED hvars
    BY <1>2 DEF hvars, MapInv, Table, Counts, NotFreed, Exists, CursorInv, Idle, Going,
                StandsAt, Called, Once, Entries, bucketCount
  <1> QED BY <1>1, <1>2

(* The invariant of the map.                                               *)
THEOREM MapInductive == MapSpec => []MapInv
  BY MapInitInv, MapNextInv, PTL DEF MapSpec

(* Every entry is found by a lookup of its key and counted once, however   *)
(* often the table has grown, or failed to: hashmapPut and the others.     *)
THEOREM AlwaysFound == MapSpec => []EveryEntryFound
  <1>1. MapInv => EveryEntryFound
    BY TableFinds DEF MapInv
  <1> QED BY <1>1, MapInductive, PTL

(* hashmapForEach never holds on to an entry that was freed.               *)
THEOREM NeverDangling == MapSpec => []CursorAlive
  <1>1. MapInv => CursorAlive
    <2> SUFFICES ASSUME MapInv, ~Idle, cursor.entry # NULL
                 PROVE  \E p \in DOMAIN buckets[cursor.bucket] :
                          buckets[cursor.bucket][p].key = cursor.entry
      BY DEF CursorAlive
    <2>1. Table /\ Going
      BY DEF MapInv, CursorInv
    <2>2. PICK h \in Nat : StandsAt(h)
      BY <2>1 DEF Going
    <2>3. /\ cursor.bucket \in 0 .. bucketCount - 1
          /\ h \in 1 .. Len(buckets[cursor.bucket])
          /\ buckets[cursor.bucket][h].key = cursor.entry
      BY <2>1, <2>2, Standing
    <2>4. DOMAIN buckets[cursor.bucket] = 1 .. Len(buckets[cursor.bucket])
      BY <2>1, <2>3 DEF Table, IsTable
    <2> QED BY <2>3, <2>4
  <1> QED BY <1>1, MapInductive, PTL

(* A hashmapForEach that gets to its end has called back once for each     *)
(* name that was there, although callbacks removed entries.                *)
THEOREM EachCalledOnce == MapSpec => []EachVisitedOnce
  <1>1. MapInv => EachVisitedOnce
    <2> SUFFICES ASSUME MapInv, ~Idle, cursor.bucket = bucketCount
                 PROVE  Called = begun /\ Len(visited) = Cardinality(begun)
      BY DEF EachVisitedOnce, Called
    <2> DEFINE n == bucketCount
               N == Len(visited)
    <2>1. Table /\ Going
      BY DEF MapInv, CursorInv
    <2>2. n \in Nat /\ IsTable(buckets, n)
      BY <2>1 DEF Table
    <2>3. PICK h \in Nat : StandsAt(h)
      BY <2>1 DEF Going
    <2>4. h = 1
      <3>1. ChainAt(buckets, n, n) = <<>> /\ Len(<<>>) = 0
        BY <2>2 DEF ChainAt
      <3> QED BY <2>3, <3>1 DEF StandsAt
    <2>5. begun = Called
      BY <2>2, <2>3, <2>4, NoneAhead DEF StandsAt
    <2>6. visited \in Seq(Name) /\ N \in Nat /\ DOMAIN visited = 1 .. N
      BY <2>1, LenProperties DEF Going
    <2>7. visited \in Bijection(1 .. N, Called)
      <3>1. visited \in [1 .. N -> Called]
        BY <2>6 DEF Called
      <3>2. \A p, q \in 1 .. N : visited[p] = visited[q] => p = q
        BY <2>1 DEF Going, Once
      <3>3. \A x \in Called : \E p \in 1 .. N : visited[p] = x
        BY <2>6 DEF Called
      <3> HIDE DEF N
      <3> QED BY <3>1, <3>2, <3>3 DEF Bijection, Injection, Surjection, IsInjective
    <2>8. Cardinality(Called) = N
      <3>1. ExistsBijection(1 .. N, Called)
        BY <2>7 DEF ExistsBijection
      <3> QED BY <2>6, <3>1, FS_CountingElements
    <2> QED BY <2>5, <2>8
  <1> QED BY <1>1, MapInductive, PTL

-----------------------------------------------------------------------------
(* The function from names to values that a set of entries stands for.     *)
MapOf(entries) ==
  [n \in {NameOf[e.key] : e \in entries} |->
     (CHOOSE e \in entries : NameOf[e.key] = n).value]

Single(entries) == \A e, f \in entries : NameOf[e.key] = NameOf[f.key] => e = f

LEMMA MapOfEntry ==
  ASSUME NEW entries, Single(entries), NEW e \in entries
  PROVE  NameOf[e.key] \in DOMAIN MapOf(entries) /\ MapOf(entries)[NameOf[e.key]] = e.value
  <1> DEFINE x == NameOf[e.key]
             f == CHOOSE d \in entries : NameOf[d.key] = x
  <1>1. f \in entries /\ NameOf[f.key] = x
    OBVIOUS
  <1> HIDE DEF f
  <1>2. f = e
    BY <1>1 DEF Single
  <1>3. MapOf(entries)[x] = f.value
    BY DEF MapOf, f
  <1> QED BY <1>2, <1>3 DEF MapOf

(* One entry more, or another one for its name.                            *)
LEMMA MapOfWith ==
  ASSUME NEW old, NEW new, Single(old), Single(new), NEW e \in new,
         \A d : d \in new /\ NameOf[d.key] # NameOf[e.key]
                  <=> d \in old /\ NameOf[d.key] # NameOf[e.key]
  PROVE  MapOf(new) = [m \in DOMAIN MapOf(old) \cup {NameOf[e.key]} |->
                         IF m = NameOf[e.key] THEN e.value ELSE MapOf(old)[m]]
  <1> DEFINE x == NameOf[e.key]
             S == DOMAIN MapOf(old) \cup {x}
             F(m) == IF m = x THEN e.value ELSE MapOf(old)[m]
  <1>1. \A d : d \in new /\ NameOf[d.key] # x <=> d \in old /\ NameOf[d.key] # x
    OBVIOUS
  <1>2. \A d \in old : NameOf[d.key] \in DOMAIN MapOf(old) /\ MapOf(old)[NameOf[d.key]] = d.value
    BY MapOfEntry
  <1>3. \A m \in DOMAIN MapOf(old) : \E d \in old : NameOf[d.key] = m
    BY DEF MapOf
  <1>4. ASSUME NEW d \in new
        PROVE  NameOf[d.key] \in S /\ F(NameOf[d.key]) = d.value
    <2>1. CASE NameOf[d.key] = x
      <3>1. d = e
        BY <2>1 DEF Single
      <3> QED BY <2>1, <3>1
    <2>2. CASE NameOf[d.key] # x
      BY <1>1, <1>2, <2>2
    <2> QED BY <2>1, <2>2
  <1>5. ASSUME NEW m \in S
        PROVE  \E d \in new : NameOf[d.key] = m
    BY <1>1, <1>3
  <1>6. MapOf(new) = [m \in S |-> F(m)]
    <2> HIDE DEF S, F
    <2>1. DOMAIN MapOf(new) = S
      BY <1>4, <1>5 DEF MapOf
    <2>2. ASSUME NEW m \in S
          PROVE  MapOf(new)[m] = F(m)
      BY <1>4, <1>5, MapOfEntry
    <2>3. MapOf(new) = [m \in DOMAIN MapOf(new) |-> MapOf(new)[m]]
      BY DEF MapOf
    <2> QED BY <2>1, <2>2, <2>3
  <1> QED BY <1>6

(* One entry less.                                                         *)
Lacking(new, old, x) == \A d : d \in new <=> d \in old /\ NameOf[d.key] # x

LEMMA MapOfWithout ==
  ASSUME NEW old, NEW new, Single(old), Single(new), NEW x, Lacking(new, old, x)
  PROVE  MapOf(new) = [m \in DOMAIN MapOf(old) \ {x} |-> MapOf(old)[m]]
  <1> DEFINE S == DOMAIN MapOf(old) \ {x}
  <1>1. DOMAIN MapOf(new) = S
    BY DEF MapOf, Lacking
  <1>2. ASSUME NEW m \in S
        PROVE  MapOf(new)[m] = MapOf(old)[m]
    <2>1. PICK d \in new : NameOf[d.key] = m
      BY <1>1 DEF MapOf
    <2>2. d \in old
      BY DEF Lacking
    <2> QED BY <2>1, <2>2, MapOfEntry
  <1>3. MapOf(new) = [m \in DOMAIN MapOf(new) |-> MapOf(new)[m]]
    BY DEF MapOf
  <1> HIDE DEF S
  <1>4. MapOf(new) = [m \in S |-> MapOf(old)[m]]
    BY <1>1, <1>2, <1>3
  <1> QED BY <1>4 DEF S

(* A table stands for one.                                                 *)
LEMMA TableSingle ==
  ASSUME NEW table, NEW n \in Nat, IsTable(table, n)
  PROVE  Single(InTable(table))
  BY OneEntry DEF Single

-----------------------------------------------------------------------------
(* The refinement: the map that the table stands for, and each call as a   *)
(* call of AbstractMap.                                                    *)
TheMap == [n \in NamesIn |-> ValueOf(n)]

LEMMA TheMapIs == TheMap = MapOf(Entries)
  BY DEF TheMap, MapOf, NamesIn, ValueOf

LEMMA SingleEntries ==
  ASSUME Table
  PROVE  Single(Entries)
  BY TableSingle, EntriesInTable DEF Table

LEMMA SingleNext ==
  ASSUME Table'
  PROVE  Single(Entries') /\ TheMap' = MapOf(Entries')
  <1>1. bucketCount' \in Nat /\ IsTable(buckets', bucketCount')
    BY DEF Table
  <1>2. Entries' = InTable(buckets')
    BY DEF Entries, InTable
  <1>3. TheMap' = MapOf(Entries')
    BY DEF TheMap, MapOf, NamesIn, ValueOf
  <1> QED BY <1>1, <1>2, <1>3, TableSingle

(* What a lookup finds is what the map has for the name.                   *)
LEMMA LookupPromise ==
  ASSUME Table, Exists, NEW k \in Key
  PROVE  /\ NameOf[k] \in Name
         /\ NameOf[k] \in DOMAIN TheMap <=> IsFound(k)
         /\ IsFound(k) => TheMap[NameOf[k]] = Found(k).value
  <1>1. DOMAIN TheMap = NamesIn
    BY DEF TheMap
  <1>2. ASSUME IsFound(k)
        PROVE  TheMap[NameOf[k]] = Found(k).value
    <2> DEFINE e == Found(k)
    <2>1. e \in Entries /\ NameOf[e.key] = NameOf[k]
      BY <1>2, Lookup
    <2> HIDE DEF e
    <2>2. MapOf(Entries)[NameOf[e.key]] = e.value
      BY <2>1, SingleEntries, MapOfEntry
    <2> QED BY <2>1, <2>2, TheMapIs DEF e
  <1> QED BY <1>1, <1>2, Lookup, KeyAssumption

LEMMA AddedPromise ==
  ASSUME Table, Counts, Exists, NEW k \in Key, NEW v \in Value, ~IsFound(k),
         size' = size + 1, ExpandIfNecessary(Appended(k, v), size')
  PROVE  TheMap' = Promise!With(NameOf[k], v)
  <1> DEFINE e == NewEntry(k, v)
  <1>1. Table' /\ Entries' = Entries \cup {e}
    BY Added
  <1>2. e.key = k /\ e.value = v
    BY DEF NewEntry
  <1> HIDE DEF e
  <1>3. e \in Entries' /\ Single(Entries) /\ Single(Entries')
    BY <1>1, SingleEntries, SingleNext
  <1>4. MapOf(Entries') = [m \in DOMAIN MapOf(Entries) \cup {NameOf[e.key]} |->
                             IF m = NameOf[e.key] THEN e.value ELSE MapOf(Entries)[m]]
    <2>1. \A d : d \in Entries' /\ NameOf[d.key] # NameOf[e.key]
                   <=> d \in Entries /\ NameOf[d.key] # NameOf[e.key]
      BY <1>1
    <2> DEFINE old == Entries
               new == Entries'
    <2> HIDE DEF old, new
    <2>2. /\ Single(old) /\ Single(new) /\ e \in new
          /\ \A d : d \in new /\ NameOf[d.key] # NameOf[e.key]
                   <=> d \in old /\ NameOf[d.key] # NameOf[e.key]
      BY <1>3, <2>1 DEF old, new
    <2>3. MapOf(new) = [m \in DOMAIN MapOf(old) \cup {NameOf[e.key]} |->
                          IF m = NameOf[e.key] THEN e.value ELSE MapOf(old)[m]]
      BY <2>2, MapOfWith
    <2> QED BY <2>3 DEF old, new
  <1>5. TheMap' = [m \in DOMAIN TheMap \cup {NameOf[k]} |->
                     IF m = NameOf[k] THEN v ELSE TheMap[m]]
    BY <1>1, <1>2, <1>4, SingleNext, TheMapIs
  <1> QED BY <1>5 DEF Promise!With, TheMap

LEMMA UpdatedPromise ==
  ASSUME Table, Counts, Exists, NEW k \in Key, NEW v \in Value, IsFound(k),
         buckets' = [buckets EXCEPT ![Home(k)][Place(k)].value = v], UNCHANGED size
  PROVE  TheMap' = Promise!With(NameOf[k], v)
  <1> DEFINE d == Found(k)
             e == Revalued(d, v)
  <1>1. Table' /\ Entries' = (Entries \ {d}) \cup {e}
    BY Updated
  <1>2. d \in Entries /\ NameOf[d.key] = NameOf[k]
    BY Lookup
  <1>3. d \in Entry
    BY <1>2, EntriesInTable, Members DEF Table
  <1> HIDE DEF d
  <1>4. e.key = d.key /\ e.value = v
    BY <1>3 DEF Revalued, Entry
  <1> HIDE DEF e
  <1>5. e \in Entries' /\ Single(Entries) /\ Single(Entries')
    BY <1>1, SingleEntries, SingleNext
  <1>6. MapOf(Entries') = [m \in DOMAIN MapOf(Entries) \cup {NameOf[e.key]} |->
                             IF m = NameOf[e.key] THEN e.value ELSE MapOf(Entries)[m]]
    <2>1. \A c : c \in Entries' /\ NameOf[c.key] # NameOf[e.key]
                   <=> c \in Entries /\ NameOf[c.key] # NameOf[e.key]
      BY <1>1, <1>4
    <2> QED BY <1>5, <2>1, MapOfWith
  <1>7. NameOf[e.key] = NameOf[k]
    BY <1>2, <1>4
  <1>8. TheMap' = [m \in DOMAIN TheMap \cup {NameOf[k]} |->
                     IF m = NameOf[k] THEN v ELSE TheMap[m]]
    BY <1>1, <1>4, <1>6, <1>7, SingleNext, TheMapIs
  <1> QED BY <1>8 DEF Promise!With, TheMap

LEMMA RemovedPromise ==
  ASSUME Table, Counts, Exists, NEW k \in Key, IsFound(k),
         buckets' = [buckets EXCEPT ![Home(k)] = Cut(@, Place(k))], size' = size - 1
  PROVE  TheMap' = Promise!Without(NameOf[k])
  <1> DEFINE d == Found(k)
             x == NameOf[k]
  <1>1. Table' /\ Entries' = Entries \ {d}
    BY Removed
  <1>2. d \in Entries /\ NameOf[d.key] = x
    BY Lookup
  <1> HIDE DEF d, x
  <1>3. Single(Entries) /\ Single(Entries')
    BY <1>1, SingleEntries, SingleNext
  <1>4. \A c : c \in Entries' <=> c \in Entries /\ NameOf[c.key] # x
    BY <1>1, <1>2, <1>3 DEF Single
  <1>5. MapOf(Entries') = [m \in DOMAIN MapOf(Entries) \ {x} |-> MapOf(Entries)[m]]
    <2> DEFINE old == Entries
               new == Entries'
    <2> HIDE DEF old, new
    <2>1. Single(old) /\ Single(new) /\ Lacking(new, old, x)
      BY <1>3, <1>4 DEF old, new, Lacking
    <2>2. MapOf(new) = [m \in DOMAIN MapOf(old) \ {x} |-> MapOf(old)[m]]
      BY <2>1, MapOfWithout
    <2> QED BY <2>2 DEF old, new
  <1>6. TheMap' = [m \in DOMAIN TheMap \ {x} |-> TheMap[m]]
    BY <1>1, <1>5, SingleNext, TheMapIs
  <1> QED BY <1>6 DEF Promise!Without, TheMap, x

LEMMA SameMap ==
  ASSUME Unmoved
  PROVE  TheMap' = TheMap
  BY DEF Unmoved, TheMap, NamesIn, ValueOf, Entries

(* Each call does to the map what AbstractMap says, and answers that.      *)
LEMMA PutPromise ==
  ASSUME Table, Counts, Exists, NEW k \in Key, NEW v \in Value, hashmapPut(k, v)
  PROVE  Promise!Put(NameOf[k], v) \/ Promise!NoMemory(NameOf[k], v)
  <1> DEFINE x == NameOf[k]
  <1>1. call' = <<"put", x, v>>
    BY DEF hashmapPut, Asks
  <1>2. (x \in DOMAIN TheMap <=> IsFound(k)) /\ (IsFound(k) => TheMap[x] = Found(k).value)
    BY LookupPromise
  <1>3. CASE IsFound(k)
    <2>1. /\ buckets' = [buckets EXCEPT ![Home(k)][Place(k)].value = v] /\ UNCHANGED size
          /\ Answer(Found(k).value)
      BY <1>3 DEF hashmapPut
    <2>2. TheMap' = Promise!With(x, v)
      BY <1>3, <2>1, UpdatedPromise
    <2>3. Promise!At(x) = Found(k).value
      BY <1>2, <1>3 DEF Promise!At, Promise!Known, TheMap
    <2> QED BY <1>1, <2>1, <2>2, <2>3 DEF Promise!Put, Promise!Returns, Answer, TheMap
  <1>4. CASE ~IsFound(k)
    <2>1. AddEntry(k, v, NULL)
      BY <1>4 DEF hashmapPut
    <2>2. Promise!At(x) = NULL /\ ~Promise!Known(x)
      BY <1>2, <1>4 DEF Promise!At, Promise!Known, TheMap
    <2>3. CASE NoMemory
      <3>1. TheMap' = TheMap
        BY <2>3, SameMap DEF NoMemory
      <3> QED BY <1>1, <2>2, <2>3, <3>1 DEF Promise!NoMemory, NoMemory, TheMap
    <2>4. CASE ~NoMemory
      <3>1. size' = size + 1 /\ ExpandIfNecessary(Appended(k, v), size') /\ Answer(NULL)
        BY <2>1, <2>4 DEF AddEntry
      <3>2. TheMap' = Promise!With(x, v)
        BY <1>4, <3>1, AddedPromise
      <3> QED BY <1>1, <2>2, <3>1, <3>2 DEF Promise!Put, Promise!Returns, Answer, TheMap
    <2> QED BY <2>3, <2>4
  <1> QED BY <1>3, <1>4

LEMMA MemoizePromise ==
  ASSUME Table, Counts, Exists, NEW k \in Key, NEW v \in Value, hashmapMemoize(k, v)
  PROVE  Promise!Memoize(NameOf[k], v) \/ Promise!NoMemory(NameOf[k], v)
  <1> DEFINE x == NameOf[k]
  <1>1. call' = <<"memoize", x, v>>
    BY DEF hashmapMemoize, Asks
  <1>2. (x \in DOMAIN TheMap <=> IsFound(k)) /\ (IsFound(k) => TheMap[x] = Found(k).value)
    BY LookupPromise
  <1>3. CASE IsFound(k)
    <2>1. Unmoved /\ Answer(Found(k).value)
      BY <1>3 DEF hashmapMemoize
    <2> DEFINE w == TheMap[x]
    <2>2. TheMap' = Promise!With(x, w)
      <3>1. TheMap' = TheMap
        BY <2>1, SameMap
      <3>2. TheMap = [m \in DOMAIN TheMap \cup {x} |-> IF m = x THEN TheMap[x] ELSE TheMap[m]]
        <4>1. TheMap = [m \in DOMAIN TheMap |-> TheMap[m]]
          BY DEF TheMap
        <4> HIDE DEF x
        <4> QED BY <1>2, <1>3, <4>1
      <3> QED BY <3>1, <3>2 DEF Promise!With, TheMap
    <2>3. Promise!Known(x) /\ w = Found(k).value
      BY <1>2, <1>3 DEF Promise!Known, TheMap
    <2> QED BY <1>1, <2>1, <2>2, <2>3 DEF Promise!Memoize, Promise!Returns, Answer, TheMap
  <1>4. CASE ~IsFound(k)
    <2>1. AddEntry(k, v, v)
      BY <1>4 DEF hashmapMemoize
    <2>2. ~Promise!Known(x)
      BY <1>2, <1>4 DEF Promise!Known, TheMap
    <2>3. CASE NoMemory
      <3>1. TheMap' = TheMap
        BY <2>3, SameMap DEF NoMemory
      <3> QED BY <1>1, <2>2, <2>3, <3>1 DEF Promise!NoMemory, NoMemory, TheMap
    <2>4. CASE ~NoMemory
      <3>1. size' = size + 1 /\ ExpandIfNecessary(Appended(k, v), size') /\ Answer(v)
        BY <2>1, <2>4 DEF AddEntry
      <3>2. TheMap' = Promise!With(x, v)
        BY <1>4, <3>1, AddedPromise
      <3> QED BY <1>1, <2>2, <3>1, <3>2 DEF Promise!Memoize, Promise!Returns, Answer, TheMap
    <2> QED BY <2>3, <2>4
  <1> QED BY <1>3, <1>4

LEMMA ReadPromise ==
  ASSUME Table, Counts, Exists, NEW k \in Key, hashmapGet(k) \/ hashmapContainsKey(k)
  PROVE  Promise!Get(NameOf[k]) \/ Promise!Contains(NameOf[k])
  <1> DEFINE x == NameOf[k]
  <1>1. (x \in DOMAIN TheMap <=> IsFound(k)) /\ (IsFound(k) => TheMap[x] = Found(k).value)
    BY LookupPromise
  <1>2. TheMap' = TheMap
    BY SameMap DEF hashmapGet, hashmapContainsKey
  <1>3. CASE hashmapGet(k)
    <2>1. Promise!At(x) = ValueAt(k)
      BY <1>1 DEF Promise!At, Promise!Known, TheMap, ValueAt
    <2>2. call' = <<"get", x, NULL>> /\ Answer(ValueAt(k))
      BY <1>3 DEF hashmapGet, Asks
    <2> QED BY <1>2, <2>1, <2>2 DEF Promise!Get, Promise!Returns, Answer, TheMap
  <1>4. CASE hashmapContainsKey(k)
    <2>1. Promise!Known(x) = IsFound(k)
      BY <1>1 DEF Promise!Known, TheMap, IsFound
    <2>2. call' = <<"contains", x, NULL>> /\ Answer(IsFound(k))
      BY <1>4 DEF hashmapContainsKey, Asks
    <2> QED BY <1>2, <2>1, <2>2 DEF Promise!Contains, Promise!Returns, Answer, TheMap
  <1> QED BY <1>3, <1>4

LEMMA RemovePromise ==
  ASSUME Table, Counts, Exists, NEW k \in Key, RemoveEntry(k)
  PROVE  Promise!Remove(NameOf[k])
  <1> DEFINE x == NameOf[k]
  <1>1. (x \in DOMAIN TheMap <=> IsFound(k)) /\ (IsFound(k) => TheMap[x] = Found(k).value)
    BY LookupPromise
  <1>2. call' = <<"remove", x, NULL>>
    BY DEF RemoveEntry, Asks
  <1>3. CASE IsFound(k)
    <2>1. /\ buckets' = [buckets EXCEPT ![Home(k)] = Cut(@, Place(k))] /\ size' = size - 1
          /\ Answer(Found(k).value)
      BY <1>3 DEF RemoveEntry
    <2>2. TheMap' = Promise!Without(x)
      BY <1>3, <2>1, RemovedPromise
    <2>3. Promise!At(x) = Found(k).value
      BY <1>1, <1>3 DEF Promise!At, Promise!Known, TheMap
    <2> QED BY <1>2, <2>1, <2>2, <2>3 DEF Promise!Remove, Promise!Returns, Answer, TheMap
  <1>4. CASE ~IsFound(k)
    <2>1. Unmoved /\ Answer(NULL)
      BY <1>4 DEF RemoveEntry
    <2>2. TheMap' = Promise!Without(x)
      <3>1. TheMap' = TheMap
        BY <2>1, SameMap
      <3>2. TheMap = [m \in DOMAIN TheMap \ {x} |-> TheMap[m]]
        <4>1. TheMap = [m \in DOMAIN TheMap |-> TheMap[m]]
          BY DEF TheMap
        <4> HIDE DEF x
        <4>2. DOMAIN TheMap \ {x} = DOMAIN TheMap
          BY <1>1, <1>4
        <4> QED BY <4>1, <4>2
      <3> QED BY <3>1, <3>2 DEF Promise!Without, TheMap
    <2>3. Promise!At(x) = NULL
      BY <1>1, <1>4 DEF Promise!At, Promise!Known, TheMap
    <2> QED BY <1>2, <2>1, <2>2, <2>3 DEF Promise!Remove, Promise!Returns, Answer, TheMap
  <1> QED BY <1>3, <1>4

LEMMA FreePromise ==
  ASSUME hashmapFree
  PROVE  Promise!Free
  <1>1. DOMAIN buckets' = {}
    BY DEF hashmapFree
  <1>2. Entries' = {}
    BY <1>1 DEF Entries
  <1>3. NamesIn' = {}
    BY <1>2 DEF NamesIn
  <1>4. TheMap' = [n \in {} |-> NULL]
    BY <1>3 DEF TheMap
  <1>5. TheMap' = [n \in NamesIn' |-> ValueOf(n)']
    BY DEF TheMap
  <1> QED BY <1>4, <1>5 DEF hashmapFree, Answer, Promise!Free

LEMMA InitPromise == MapInit => Promise!MInit
  <1> SUFFICES ASSUME MapInit PROVE Promise!MInit
    OBVIOUS
  <1>1. NamesIn = {}
    <2>1. Entries = {}
      <3> DEFINE n == InitialCount
      <3>1. n \in Nat /\ buckets = [i \in 0 .. n - 1 |-> <<>>]
        BY InitialCountPositive DEF MapInit
      <3> HIDE DEF n
      <3> QED BY <3>1, EmptyTable, EntriesInTable
    <2> QED BY <2>1 DEF NamesIn
  <1>2. [n \in NamesIn |-> ValueOf(n)] = [n \in {} |-> NULL]
    BY <1>1
  <1> QED BY <1>2 DEF MapInit, Promise!MInit

LEMMA StepPromise == MapInv /\ [MapNext]_hvars => [Promise!MNext]_(Promise!mvars)
  <1> SUFFICES ASSUME MapInv, [MapNext]_hvars
               PROVE  Promise!MNext \/ UNCHANGED Promise!mvars
    OBVIOUS
  <1>1. ASSUME Unmoved, UNCHANGED <<call, returned, errno>>
        PROVE  UNCHANGED Promise!mvars
    <2>1. TheMap' = TheMap
      BY <1>1, SameMap
    <2> QED BY <1>1, <2>1 DEF Promise!mvars, TheMap
  <1>2. CASE MapNext
    <2>1. Table /\ Counts /\ Exists /\ call[1] # "free"
      BY <1>2 DEF MapNext, MapInv, NotFreed
    <2>2. \A k \in Key : NameOf[k] \in Name
      BY KeyAssumption
    <2>3. ASSUME NEW k \in Key, NEW v \in Value, hashmapPut(k, v) \/ hashmapMemoize(k, v)
          PROVE  Promise!MNext
      <3>1. \/ Promise!Put(NameOf[k], v) \/ Promise!Memoize(NameOf[k], v)
            \/ Promise!NoMemory(NameOf[k], v)
        BY <2>1, <2>3, PutPromise, MemoizePromise
      <3> QED BY <2>1, <2>2, <3>1 DEF Promise!MNext
    <2>4. ASSUME NEW k \in Key, hashmapGet(k) \/ hashmapContainsKey(k)
          PROVE  Promise!MNext
      <3>1. Promise!Get(NameOf[k]) \/ Promise!Contains(NameOf[k])
        BY <2>1, <2>4, ReadPromise
      <3> QED BY <2>1, <2>2, <3>1 DEF Promise!MNext
    <2>5. ASSUME NEW k \in Key, RemoveEntry(k)
          PROVE  Promise!MNext
      <3>1. Promise!Remove(NameOf[k])
        BY <2>1, <2>5, RemovePromise
      <3> QED BY <2>1, <2>2, <3>1 DEF Promise!MNext
    <2>6. CASE BeginForEach \/ NextBucket \/ Finish
      BY <1>1, <2>6 DEF BeginForEach, NextBucket, Finish
    <2>7. CASE Callback
      <3>1. CASE Finish
        BY <2>6, <3>1
      <3>2. CASE Unmoved /\ UNCHANGED <<call, returned, errno>>
        BY <1>1, <3>2
      <3>3. CASE RemoveEntry(cursor.entry)
        <4>1. cursor.entry \in Key
          BY <2>7 DEF Callback, MapInv, CursorInv, Going
        <4> QED BY <2>5, <3>3, <4>1
      <3> QED BY <2>7, <3>1, <3>2, <3>3 DEF Callback
    <2>8. CASE hashmapFree
      BY <2>1, <2>8, FreePromise DEF Promise!MNext
    <2> QED BY <1>2, <2>3, <2>4, <2>5, <2>6, <2>7, <2>8
            DEF MapNext, hashmapRemove, EndForEach
  <1>3. CASE UNCHANGED hvars
    BY <1>1, <1>3 DEF hvars, Unmoved
  <1> QED BY <1>2, <1>3

(* The table with its collisions, its growth and its failing allocations   *)
(* is a map from names to values, as util-hashmap.h promises.              *)
THEOREM ImplementsMap == MapSpec => ActsAsMap
  BY InitPromise, StepPromise, MapInductive, PTL DEF MapSpec, ActsAsMap, Promise!MSpec
=============================================================================
