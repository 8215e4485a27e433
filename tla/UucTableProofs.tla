--------------------------- MODULE UucTableProofs ---------------------------
(***************************************************************************)
(* The table keeps its entries where lookups look for them, counts them,   *)
(* and is a map for users that know their keys, for every hash function    *)
(* and every capacity.  That every entry is in its node is what the rest   *)
(* follows from: without it a rehash could lose one or count one twice,    *)
(* and a removal could take size below zero.                               *)
(***************************************************************************)
EXTENDS UucTable, UucLemmas, WellFoundedInduction

Placed(t) ==
  \A i \in 0 .. t.cap - 1 : \A k \in DOMAIN t.nodes[i] : Index(t.cap, k) = i

Sound(t) == IsTable(t, TableValues) /\ Placed(t) /\ t.size = Cardinality(StoredKeys(t))

\* There are finitely many entries.
LEMMA EntriesFinite ==
  ASSUME NEW t
  PROVE  IsFiniteSet(StoredKeys(t)) /\ Cardinality(StoredKeys(t)) \in Nat
<1>1. StoredKeys(t) \in SUBSET Keys
  BY DEF StoredKeys
<1> QED
  BY <1>1, FS_Subset, FS_CardinalityType, TableAssumption

\* An empty table is sound.
LEMMA EmptySound ==
  ASSUME NEW cap \in Nat \ {0}
  PROVE  Sound(EmptyTable(cap)) /\ StoredKeys(EmptyTable(cap)) = {}
<1>1. \A k \in Keys : ~ Stored(EmptyTable(cap), k)
  <2> SUFFICES ASSUME NEW k \in Keys
               PROVE  ~ Stored(EmptyTable(cap), k)
    OBVIOUS
  <2>1. Index(cap, k) \in 0 .. cap - 1
    BY IndexInTable
  <2> QED
    BY <2>1 DEF Stored, NodeOf, EmptyTable, EmptyNode
<1>2. StoredKeys(EmptyTable(cap)) = {}
  BY <1>1 DEF StoredKeys
<1>3. Placed(EmptyTable(cap)) /\ EmptyTable(cap).size = 0
  BY DEF Placed, EmptyTable, EmptyNode
<1> QED
  BY <1>2, <1>3, EmptyTableTyped, FS_EmptySet DEF Sound

\* A rehash keeps the set of keys, and places every entry at the new capacity.
LEMMA ChangeCapacitySound ==
  ASSUME NEW t, Sound(t), NEW cap \in Nat \ {0}
  PROVE  /\ Sound(ChangeCapacity(t, cap))
         /\ StoredKeys(ChangeCapacity(t, cap)) = StoredKeys(t)
         /\ ChangeCapacity(t, cap).cap = cap
         /\ ChangeCapacity(t, cap).size = t.size
<1> DEFINE u == ChangeCapacity(t, cap)
           keys == {k \in Keys : Stored(t, k)}
<1>1. u.cap = cap /\ u.size = Cardinality(keys)
      /\ u.nodes = [i \in 0 .. cap - 1 |->
                     [k \in {j \in keys : Index(cap, j) = i} |-> StoredAt(t, k)]]
  BY DEF ChangeCapacity
<1>2. IsTable(t, TableValues)
  BY DEF Sound
<1>3. IsTable(u, TableValues)
  BY <1>2, ChangeCapacityTyped
<1>4. \A k \in Keys : Stored(u, k) <=> Stored(t, k)
  BY <1>2, ChangeCapacityKeeps
<1> HIDE DEF u
<1>5. StoredKeys(u) = StoredKeys(t) /\ keys = StoredKeys(t)
  BY <1>4 DEF StoredKeys
<1>6. Placed(u)
  BY <1>1 DEF Placed
<1> QED
  BY <1>1, <1>3, <1>5, <1>6 DEF Sound, u

\* Putting an entry in its node adds its key to the others, and counts it once.
LEMMA PutInNodeSound ==
  ASSUME NEW t, Sound(t), NEW k \in Keys, NEW v \in TableValues
  PROVE  /\ Sound(PutInNode(t, k, v))
         /\ StoredKeys(PutInNode(t, k, v)) = StoredKeys(t) \cup {k}
         /\ PutInNode(t, k, v).cap = t.cap
         /\ PutInNode(t, k, v).size \in {t.size, t.size + 1}
<1> DEFINE u == PutInNode(t, k, v)
           i == Index(t.cap, k)
           node == [j \in DOMAIN t.nodes[i] \cup {k} |-> IF j = k THEN v ELSE t.nodes[i][j]]
<1>1. /\ u.cap = t.cap
      /\ u.size = IF Stored(t, k) THEN t.size ELSE t.size + 1
      /\ u.nodes = [t.nodes EXCEPT ![i] = node]
  BY DEF PutInNode, Stored, NodeOf
<1>2. IsTable(t, TableValues) /\ Placed(t) /\ t.size = Cardinality(StoredKeys(t))
  BY DEF Sound
<1>3. IsTable(u, TableValues)
  BY <1>2, PutInNodeTyped
<1>4. \A j \in Keys : Stored(u, j) <=> Stored(t, j) \/ j = k
  BY <1>2, PutInNodeKeeps
<1> HIDE DEF u
<1>5. StoredKeys(u) = StoredKeys(t) \cup {k}
  BY <1>4 DEF StoredKeys
<1>6. Placed(u)
  <2> SUFFICES ASSUME NEW n \in 0 .. t.cap - 1, NEW j \in DOMAIN u.nodes[n]
               PROVE  Index(t.cap, j) = n
    BY <1>1 DEF Placed
  <2>1. n \in DOMAIN t.nodes
    BY <1>2 DEF IsTable
  <2>2. CASE n = i
    <3>1. j \in DOMAIN t.nodes[i] \cup {k}
      BY <1>1, <2>1, <2>2
    <3> QED
      BY <1>2, <2>2, <3>1 DEF Placed
  <2>3. CASE n # i
    <3>1. j \in DOMAIN t.nodes[n]
      BY <1>1, <2>1, <2>3
    <3> QED
      BY <1>2, <3>1 DEF Placed
  <2> QED
    BY <2>2, <2>3
<1>7. u.size = Cardinality(StoredKeys(u))
  <2>1. Stored(t, k) <=> k \in StoredKeys(t)
    BY DEF StoredKeys
  <2>2. IsFiniteSet(StoredKeys(t))
    BY EntriesFinite
  <2>3. Cardinality(StoredKeys(t) \cup {k}) =
          IF k \in StoredKeys(t) THEN Cardinality(StoredKeys(t))
                               ELSE Cardinality(StoredKeys(t)) + 1
    BY <2>2, FS_AddElement
  <2> QED
    BY <1>1, <1>2, <1>5, <2>1, <2>3
<1> QED
  BY <1>1, <1>3, <1>5, <1>6, <1>7 DEF Sound, u

\* A put keeps the table sound, and adds at most one entry.
LEMMA TablePutSound ==
  ASSUME NEW t, Sound(t), NEW k \in Keys, NEW v \in TableValues
  PROVE  /\ Sound(TablePut(t, k, v))
         /\ StoredKeys(TablePut(t, k, v)) = StoredKeys(t) \cup {k}
         /\ TablePut(t, k, v).size \in {t.size, t.size + 1}
         /\ TablePut(t, k, v).cap = IF Overloaded(t) THEN GrownCapacity(t.cap) ELSE t.cap
<1> DEFINE u == IF Overloaded(t) THEN ChangeCapacity(t, GrownCapacity(t.cap)) ELSE t
<1>1. GrownCapacity(t.cap) \in Nat \ {0}
  BY TableAssumption DEF Sound, IsTable, GrownCapacity
<1>2. /\ Sound(u) /\ StoredKeys(u) = StoredKeys(t) /\ u.size = t.size
      /\ u.cap = IF Overloaded(t) THEN GrownCapacity(t.cap) ELSE t.cap
  BY <1>1, ChangeCapacitySound
<1>3. TablePut(t, k, v) = PutInNode(u, k, v)
  BY DEF TablePut
<1> HIDE DEF u
<1> QED
  BY <1>2, <1>3, PutInNodeSound

-----------------------------------------------------------------------------
\* What the node of k loses in a removal: the one entry it has, or that of k.
Victims(t, k) == IF IsEntry(NodeOf(t, k)) THEN DOMAIN NodeOf(t, k) ELSE {k}

\* A removal takes exactly one entry, which the table has, and is k's if k has one.
LEMMA OneVictim ==
  ASSUME NEW t, Sound(t), NEW k \in Keys, Removes(t, k)
  PROVE  /\ \E g \in StoredKeys(t) : Victims(t, k) = {g} /\ Index(t.cap, g) = Index(t.cap, k)
         /\ Stored(t, k) => Victims(t, k) = {k}
<1>1. IsTable(t, TableValues) /\ Placed(t) /\ Index(t.cap, k) \in 0 .. t.cap - 1
  BY IndexInTable DEF Sound, IsTable
<1>2. CASE IsEntry(NodeOf(t, k))
  <2>1. PICK g \in DOMAIN NodeOf(t, k) : DOMAIN NodeOf(t, k) = {g}
    BY <1>2 DEF IsEntry
  <2>2. Index(t.cap, g) = Index(t.cap, k)
    BY <1>1, <2>1 DEF Placed, NodeOf
  <2>3. g \in Keys
    BY <1>1, <2>1 DEF IsTable, IsNode, NodeOf
  <2>4. g \in StoredKeys(t)
    BY <2>1, <2>2, <2>3 DEF StoredKeys, Stored, NodeOf
  <2> QED
    BY <1>2, <2>1, <2>2, <2>4 DEF Victims, Stored
<1>3. CASE ~ IsEntry(NodeOf(t, k))
  BY <1>3 DEF Victims, Removes, TableHas, StoredKeys
<1> QED
  BY <1>2, <1>3

\* What is left of every node after the removal.
LEMMA TakenNodes ==
  ASSUME NEW t, Sound(t), NEW k \in Keys
  PROVE  \A n \in 0 .. t.cap - 1 :
           TakeFromNode(t, k).nodes[n] =
             IF n = Index(t.cap, k)
               THEN [j \in DOMAIN t.nodes[n] \ Victims(t, k) |-> t.nodes[n][j]]
               ELSE t.nodes[n]
  BY DEF TakeFromNode, Victims, NodeOf, Sound, IsTable

\* The keys a removal leaves, with the values they had.
LEMMA TakeFromNodeKeeps ==
  ASSUME NEW t, Sound(t), NEW k \in Keys, Removes(t, k), NEW j \in Keys
  PROVE  /\ Stored(TakeFromNode(t, k), j) <=> Stored(t, j) /\ j \notin Victims(t, k)
         /\ Stored(TakeFromNode(t, k), j) => StoredAt(TakeFromNode(t, k), j) = StoredAt(t, j)
<1> DEFINE u == TakeFromNode(t, k)
<1>1. u.cap = t.cap
  BY DEF TakeFromNode
<1>2. Index(t.cap, j) \in 0 .. t.cap - 1
  BY IndexInTable DEF Sound, IsTable
<1>3. NodeOf(u, j) = IF Index(t.cap, j) = Index(t.cap, k)
                       THEN [l \in DOMAIN NodeOf(t, j) \ Victims(t, k) |-> NodeOf(t, j)[l]]
                       ELSE NodeOf(t, j)
  BY <1>1, <1>2, TakenNodes DEF NodeOf
<1>4. Index(t.cap, j) # Index(t.cap, k) => j \notin Victims(t, k)
  BY OneVictim
<1> HIDE DEF u
<1>5. Stored(u, j) <=> Stored(t, j) /\ j \notin Victims(t, k)
  BY <1>3, <1>4 DEF Stored
<1>6. Stored(u, j) => StoredAt(u, j) = StoredAt(t, j)
  BY <1>3, <1>5 DEF Stored, StoredAt
<1> QED
  BY <1>5, <1>6 DEF u

\* Taking an entry out of its node keeps the table sound: size is above zero.
LEMMA TakeFromNodeSound ==
  ASSUME NEW t, Sound(t), NEW k \in Keys, Removes(t, k)
  PROVE  /\ Sound(TakeFromNode(t, k))
         /\ StoredKeys(TakeFromNode(t, k)) = StoredKeys(t) \ Victims(t, k)
         /\ TakeFromNode(t, k).cap = t.cap
         /\ TakeFromNode(t, k).size = t.size - 1
<1> DEFINE u == TakeFromNode(t, k)
<1>1. u.cap = t.cap /\ u.size = t.size - 1
      /\ u.nodes = [t.nodes EXCEPT ![Index(t.cap, k)] = u.nodes[Index(t.cap, k)]]
  BY IndexInTable DEF TakeFromNode, Sound, IsTable
<1>2. u = [cap |-> u.cap, size |-> u.size, nodes |-> u.nodes]
  BY DEF TakeFromNode
<1>3. IsTable(t, TableValues) /\ Placed(t) /\ t.size = Cardinality(StoredKeys(t))
  BY DEF Sound
<1>4. \A n \in 0 .. t.cap - 1 :
        u.nodes[n] = IF n = Index(t.cap, k)
                       THEN [j \in DOMAIN t.nodes[n] \ Victims(t, k) |-> t.nodes[n][j]]
                       ELSE t.nodes[n]
  BY TakenNodes
<1>5. \A j \in Keys : Stored(u, j) <=> Stored(t, j) /\ j \notin Victims(t, k)
  BY TakeFromNodeKeeps
<1> HIDE DEF u
<1>6. StoredKeys(u) = StoredKeys(t) \ Victims(t, k)
  BY <1>5 DEF StoredKeys
<1>7. u.size = Cardinality(StoredKeys(u)) /\ u.size \in Nat
  <2>1. PICK g \in StoredKeys(t) : Victims(t, k) = {g}
    BY OneVictim
  <2>2. IsFiniteSet(StoredKeys(t)) /\ Cardinality(StoredKeys(u)) \in Nat
    BY EntriesFinite
  <2>3. Cardinality(StoredKeys(t) \ {g}) = Cardinality(StoredKeys(t)) - 1
    BY <2>1, <2>2, FS_RemoveElement
  <2> QED
    BY <1>1, <1>3, <1>6, <2>1, <2>2, <2>3
<1>8. Placed(u)
  <2> SUFFICES ASSUME NEW n \in 0 .. t.cap - 1, NEW j \in DOMAIN u.nodes[n]
               PROVE  Index(t.cap, j) = n
    BY <1>1 DEF Placed
  <2>1. j \in DOMAIN t.nodes[n]
    BY <1>4
  <2> QED
    BY <1>3, <2>1 DEF Placed
<1>9. \A n \in 0 .. t.cap - 1 : IsNode(u.nodes[n], TableValues)
  <2> SUFFICES ASSUME NEW n \in 0 .. t.cap - 1
               PROVE  IsNode(u.nodes[n], TableValues)
    OBVIOUS
  <2>1. IsNode(t.nodes[n], TableValues)
    BY <1>3 DEF IsTable
  <2>2. IsNode([j \in DOMAIN t.nodes[n] \ Victims(t, k) |-> t.nodes[n][j]], TableValues)
    BY <2>1 DEF IsNode
  <2> QED
    BY <1>4, <2>1, <2>2
<1>10. u.nodes = [n \in 0 .. t.cap - 1 |-> u.nodes[n]]
  BY <1>1, <1>3 DEF IsTable
<1>11. IsTable(u, TableValues)
  BY <1>1, <1>2, <1>3, <1>7, <1>9, <1>10 DEF IsTable
<1> QED
  BY <1>1, <1>6, <1>7, <1>8, <1>11 DEF Sound, u

\* A removal, rehash included, keeps the table sound.
LEMMA TableRemoveSound ==
  ASSUME NEW t, Sound(t), NEW k \in Keys
  PROVE  /\ Sound(TableRemove(t, k))
         /\ StoredKeys(TableRemove(t, k)) =
              IF Removes(t, k) THEN StoredKeys(t) \ Victims(t, k) ELSE StoredKeys(t)
         /\ TableRemove(t, k).size = IF Removes(t, k) THEN t.size - 1 ELSE t.size
         /\ \/ TableRemove(t, k).cap = t.cap
            \/ /\ TableRemove(t, k).cap = t.cap \div 4
               /\ 10 * TableRemove(t, k).size < t.cap
<1> DEFINE u == IF Removes(t, k) THEN TakeFromNode(t, k) ELSE t
<1>1. /\ Sound(u) /\ u.cap = t.cap
      /\ StoredKeys(u) = IF Removes(t, k) THEN StoredKeys(t) \ Victims(t, k)
                                          ELSE StoredKeys(t)
      /\ u.size = IF Removes(t, k) THEN t.size - 1 ELSE t.size
  BY TakeFromNodeSound
<1>2. TableRemove(t, k) = IF Underloaded(u) THEN ChangeCapacity(u, u.cap \div 4) ELSE u
  BY DEF TableRemove
<1> HIDE DEF u
<1>3. CASE Underloaded(u)
  <2>1. u.cap \in Nat /\ u.size \in Nat /\ u.size > 0 /\ 10 * u.size < u.cap
    BY <1>1, <1>3, TableAssumption DEF Underloaded, Sound, IsTable
  <2>2. PICK quarter \in Nat \ {0} : quarter = u.cap \div 4
    BY <2>1
  <2>3. /\ Sound(TableRemove(t, k)) /\ StoredKeys(TableRemove(t, k)) = StoredKeys(u)
        /\ TableRemove(t, k).size = u.size /\ TableRemove(t, k).cap = u.cap \div 4
    <3>1. TableRemove(t, k) = ChangeCapacity(u, quarter)
      BY <1>2, <1>3, <2>2
    <3>2. /\ Sound(ChangeCapacity(u, quarter))
          /\ StoredKeys(ChangeCapacity(u, quarter)) = StoredKeys(u)
          /\ ChangeCapacity(u, quarter).cap = quarter
          /\ ChangeCapacity(u, quarter).size = u.size
      BY <1>1, ChangeCapacitySound
    <3> QED
      BY <2>2, <3>1, <3>2
  <2> QED
    BY <1>1, <2>1, <2>3
<1>4. CASE ~ Underloaded(u)
  BY <1>1, <1>2, <1>4
<1> QED
  BY <1>3, <1>4

-----------------------------------------------------------------------------
Results(r) == r.call \in {"init", "get", "put", "remove"}

IInv == Sound(table) /\ status \in {"ok", "wild"} /\ Results(ret)

\* A new table is sound.
LEMMA InitIInv == Init => IInv
  BY EmptySound, ClientAssumption DEF Init, IInv, Results

\* A call of any user keeps the table sound.
LEMMA CallKeepsIInv ==
  ASSUME IInv, NEW k \in Keys, Call(k)
  PROVE  IInv'
<1>1. CASE Get(k)
  BY <1>1 DEF IInv, Get, Results, Answer
<1>2. CASE Remove(k)
  <2>1. Sound(table')
    BY <1>2, TableRemoveSound DEF IInv, Remove
  <2> QED
    BY <1>2, <2>1 DEF IInv, Remove, Results, Answer
<1>3. CASE FreeOverwritten(k)
  BY <1>3 DEF IInv, FreeOverwritten
<1>4. ASSUME NEW v \in TableValues, Put(k, v)
      PROVE  IInv'
  <2>1. Sound(table')
    BY <1>4, TablePutSound DEF IInv, Put
  <2> QED
    BY <1>4, <2>1 DEF IInv, Put, Results, Answer
<1> QED
  BY <1>1, <1>2, <1>3, <1>4 DEF Call

\* Users that know their keys make no other calls.
LEMMA KnownCallIsCall ==
  ASSUME NEW k \in Keys, KnownCall(k)
  PROVE  Call(k)
  BY DEF KnownCall, Call

LEMMA StepKeepsIInv == IInv /\ [Next]_vars => IInv'
<1> SUFFICES ASSUME IInv, [Next]_vars
             PROVE  IInv'
  OBVIOUS
<1>1. CASE \E k \in Keys : Call(k)
  BY <1>1, CallKeepsIInv
<1>2. CASE UNCHANGED vars
  BY <1>2 DEF IInv, vars
<1> QED
  BY <1>1, <1>2 DEF Next, Stopped

\* Type invariant of the table, for every hash, capacity and sequence of calls.
THEOREM TableTyped == Spec => []TypeOK
<1>1. IInv => TypeOK
  BY DEF IInv, Sound, TypeOK, Results
<1> QED
  BY InitIInv, StepKeepsIInv, <1>1, PTL DEF Spec

(***************************************************************************)
(* No rehash leaves an entry where a lookup does not look, and size never  *)
(* drifts from the number of entries (uuc_val_table.c:33-69, 109-179).     *)
(***************************************************************************)
THEOREM EntriesCounted == Spec => []Counted
<1>1. IInv => Counted
  BY DEF IInv, Sound, Placed, Counted
<1> QED
  BY InitIInv, StepKeepsIInv, <1>1, PTL DEF Spec

-----------------------------------------------------------------------------
(***************************************************************************)
(* A put grows the table enough: where capacity goes from one below        *)
(* MinCapacity to MinCapacity, the load of the former must not be one the  *)
(* latter cannot take another entry on top of.                             *)
(***************************************************************************)
GrowthFits == (7 * (MinCapacity - 1)) % 10 >= 3

Loaded(t) == 10 * (t.size - 1) <= 7 * t.cap

\* A put of at most one entry leaves a table that was not overloaded, or that grew.
LEMMA TablePutLoaded ==
  ASSUME NEW t, Sound(t), Loaded(t), GrowthFits, NEW k \in Keys, NEW v \in TableValues
  PROVE  Loaded(TablePut(t, k, v))
<1> DEFINE u == TablePut(t, k, v)
<1>1. /\ u.size \in {t.size, t.size + 1}
      /\ u.cap = IF Overloaded(t) THEN GrownCapacity(t.cap) ELSE t.cap
  BY TablePutSound
<1> HIDE DEF u
<1>5. t.size \in Nat /\ t.cap \in Nat \ {0}
  BY DEF Sound, IsTable
<1>2. ASSUME ~ Overloaded(t)
      PROVE  Loaded(u)
  BY <1>1, <1>2, <1>5 DEF Overloaded, Loaded
<1>3. ASSUME Overloaded(t), t.cap < MinCapacity
      PROVE  Loaded(u)
  <2>1. u.cap = MinCapacity /\ MinCapacity \in Nat
    BY <1>1, <1>3, <1>5, TableAssumption DEF GrownCapacity
  <2>2. CASE t.cap <= MinCapacity - 2
    BY <1>1, <1>5, <2>1, <2>2 DEF Loaded
  <2>3. CASE t.cap = MinCapacity - 1
    <3>1. PICK q \in Int, r \in 3 .. 9 : 7 * (MinCapacity - 1) = 10 * q + r
      <4> DEFINE m == 7 * (MinCapacity - 1)
      <4>1. m \in Int
        BY <2>1
      <4>2. m = 10 * (m \div 10) + (m % 10) /\ m \div 10 \in Int /\ m % 10 \in 0 .. 9
        <5> HIDE DEF m
        <5> QED
          BY <4>1
      <4>3. m % 10 >= 3
        BY DEF GrowthFits
      <4> HIDE DEF m
      <4>4. m % 10 \in 3 .. 9
        BY <4>2, <4>3
      <4>5. \E q \in Int, r \in 3 .. 9 : m = 10 * q + r
        BY <4>2, <4>4
      <4> QED
        BY <4>5 DEF m
    <3>2. t.size - 1 <= q
      BY <1>5, <2>1, <2>3, <3>1 DEF Loaded
    <3> QED
      BY <1>1, <1>5, <2>1, <3>1, <3>2 DEF Loaded
  <2> QED
    BY <1>3, <1>5, <2>1, <2>2, <2>3
<1>4. ASSUME Overloaded(t), t.cap >= MinCapacity
      PROVE  Loaded(u)
  <2>1. u.cap = 2 * t.cap
    BY <1>1, <1>4, <1>5, TableAssumption DEF GrownCapacity
  <2> QED
    BY <1>1, <1>5, <2>1 DEF Loaded
<1> QED
  BY <1>2, <1>3, <1>4, <1>5, TableAssumption DEF u

\* A removal that shrinks the table leaves it far from full.
LEMMA TableRemoveLoaded ==
  ASSUME NEW t, Sound(t), Loaded(t), NEW k \in Keys
  PROVE  Loaded(TableRemove(t, k))
<1> DEFINE u == TableRemove(t, k)
<1>1. /\ u.size = IF Removes(t, k) THEN t.size - 1 ELSE t.size
      /\ u.cap = t.cap \/ (u.cap = t.cap \div 4 /\ 10 * u.size < t.cap)
  BY TableRemoveSound
<1> HIDE DEF u
<1>5. t.size \in Nat /\ t.cap \in Nat \ {0}
  BY DEF Sound, IsTable
<1>2. u.size \in Int /\ u.size <= t.size
  BY <1>1, <1>5
<1>3. ASSUME u.cap = t.cap
      PROVE  Loaded(u)
  BY <1>2, <1>3, <1>5 DEF Loaded
<1>4. ASSUME u.cap = t.cap \div 4, 10 * u.size < t.cap
      PROVE  Loaded(u)
  BY <1>1, <1>2, <1>4, <1>5 DEF Loaded
<1> QED
  BY <1>1, <1>3, <1>4 DEF u

LEMMA StepKeepsLoaded ==
  ASSUME GrowthFits, IInv, LoadBounded, [Next]_vars
  PROVE  LoadBounded'
<1>1. Sound(table) /\ Loaded(table)
  BY DEF IInv, LoadBounded, Loaded
<1>2. ASSUME NEW k \in Keys, Call(k)
      PROVE  Loaded(table')
  <2>1. CASE Remove(k)
    BY <1>1, <2>1, TableRemoveLoaded DEF Remove
  <2>2. ASSUME NEW v \in TableValues, Put(k, v)
        PROVE  Loaded(table')
    BY <1>1, <2>2, TablePutLoaded DEF Put
  <2>3. CASE table' = table
    BY <1>1, <2>3
  <2> QED
    BY <1>2, <2>1, <2>2, <2>3 DEF Call, Get, FreeOverwritten
<1>3. Loaded(table')
  BY <1>1, <1>2 DEF Next, Stopped, vars
<1> QED
  BY <1>3 DEF Loaded, LoadBounded

(***************************************************************************)
(* The load never exceeds UUC_TABLE_MAX_LOAD by more than one entry, with  *)
(* capacities that grow as INCREASE_CAPACITY grows them: GrowthFits holds  *)
(* of its 16, and would not of 11.                                         *)
(***************************************************************************)
THEOREM LoadStaysBounded ==
  ASSUME GrowthFits
  PROVE  Spec => []LoadBounded
<1>1. Init => LoadBounded
  <2> SUFFICES ASSUME Init
               PROVE  LoadBounded
    OBVIOUS
  <2>1. PICK capacity \in InitCapacities : table = EmptyTable(capacity)
    BY DEF Init
  <2>2. table.size = 0 /\ table.cap \in Nat
    BY <2>1, ClientAssumption DEF EmptyTable
  <2> QED
    BY <2>2 DEF LoadBounded
<1>2. IInv /\ LoadBounded /\ [Next]_vars => LoadBounded'
  BY StepKeepsLoaded
<1> QED
  BY InitIInv, StepKeepsIInv, <1>1, <1>2, PTL DEF Spec

-----------------------------------------------------------------------------
(***************************************************************************)
(* A rehash as it is written.  After its first n puts the new table has    *)
(* the first n entries and no others, which is said here without the       *)
(* recursion: the keys put so far, each in its node.                       *)
(***************************************************************************)
Moved(t, cap, keys, size) ==
  [cap   |-> cap,
   size  |-> size,
   nodes |-> [i \in 0 .. cap - 1 |->
               [k \in {j \in keys : Index(cap, j) = i} |-> StoredAt(t, k)]]]

\* Putting an entry that is not there yet in its node adds it to those moved.
LEMMA PutMoves ==
  ASSUME NEW t, NEW cap \in Nat \ {0}, NEW keys \in SUBSET Keys, NEW size \in Nat,
         NEW k \in Keys \ keys
  PROVE  PutInNode(Moved(t, cap, keys, size), k, StoredAt(t, k)) =
           Moved(t, cap, keys \cup {k}, size + 1)
<1> DEFINE m == Moved(t, cap, keys, size)
           i == Index(cap, k)
           node(ks, n) == [l \in {j \in ks : Index(cap, j) = n} |-> StoredAt(t, l)]
           more == [j \in DOMAIN m.nodes[i] \cup {k} |->
                      IF j = k THEN StoredAt(t, k) ELSE m.nodes[i][j]]
<1>1. m.cap = cap /\ m.size = size /\ m.nodes = [n \in 0 .. cap - 1 |-> node(keys, n)]
  BY DEF Moved
<1>2. i \in 0 .. cap - 1
  BY IndexInTable
<1>3. m.nodes[i] = node(keys, i) /\ DOMAIN m.nodes[i] = {j \in keys : Index(cap, j) = i}
  BY <1>1, <1>2
<1>4. PutInNode(m, k, StoredAt(t, k)) =
        [cap |-> cap, size |-> size + 1, nodes |-> [m.nodes EXCEPT ![i] = more]]
  BY <1>1, <1>3 DEF PutInNode
<1>5. more = node(keys \cup {k}, i)
  <2>1. DOMAIN m.nodes[i] \cup {k} = {j \in keys \cup {k} : Index(cap, j) = i}
    BY <1>3
  <2>2. \A j \in DOMAIN m.nodes[i] : m.nodes[i][j] = StoredAt(t, j)
    BY <1>3
  <2> HIDE DEF m, i
  <2> QED
    BY <2>1, <2>2
<1>6. \A n \in 0 .. cap - 1 : n # i => node(keys, n) = node(keys \cup {k}, n)
  <2> SUFFICES ASSUME NEW n \in 0 .. cap - 1, n # i
               PROVE  {j \in keys : Index(cap, j) = n} = {j \in keys \cup {k} : Index(cap, j) = n}
    OBVIOUS
  <2> QED
    OBVIOUS
<1> HIDE DEF more, i
<1>7. [m.nodes EXCEPT ![i] = more] = [n \in 0 .. cap - 1 |-> node(keys \cup {k}, n)]
  <2> HIDE DEF m, node
  <2> QED
    BY <1>1, <1>2, <1>5, <1>6
<1> QED
  BY <1>4, <1>7 DEF Moved, m

\* None of the puts of a rehash finds the new table over its load.
LEMMA RehashFits ==
  ASSUME NEW t, Sound(t), Loaded(t), NEW cap \in NextCapacities(t)
  PROVE  /\ cap \in Nat \ {0}
         /\ \A n \in Nat : n < t.size => 10 * n <= 7 * cap
<1>1. t.size \in Nat /\ t.cap \in Nat \ {0}
  BY DEF Sound, IsTable
<1>2. 10 * (t.size - 1) <= 7 * t.cap
  BY DEF Loaded
<1>3. CASE cap = GrownCapacity(t.cap)
  <2>1. cap \in Nat /\ cap >= t.cap
    BY <1>1, <1>3, TableAssumption DEF GrownCapacity
  <2> QED
    BY <1>1, <1>2, <2>1
<1>4. CASE /\ Underloaded([t EXCEPT !.size = @ - 1])
           /\ cap = t.cap \div 4
  <2>1. [t EXCEPT !.size = @ - 1].size = t.size - 1 /\ [t EXCEPT !.size = @ - 1].cap = t.cap
    BY DEF Sound, IsTable
  <2>2. t.size - 1 > 0 /\ 10 * (t.size - 1) < t.cap
    BY <1>1, <1>4, <2>1, TableAssumption DEF Underloaded
  <2>3. cap \in Nat /\ 4 * cap >= t.cap - 3
    BY <1>1, <1>4
  <2> QED
    BY <1>1, <2>2, <2>3
<1> QED
  BY <1>3, <1>4 DEF NextCapacities

\* The keys put first: one more each time, and in the end all that are stored.
FirstKeys(order, n) == {order[i] : i \in 1 .. n}

LEMMA OrderCovers ==
  ASSUME NEW S, IsFiniteSet(S), NEW order \in Orders(S)
  PROVE  /\ Len(order) = Cardinality(S) /\ Cardinality(S) \in Nat
         /\ FirstKeys(order, Len(order)) = S
         /\ \A n \in 1 .. Len(order) :
              /\ FirstKeys(order, n - 1) \subseteq S
              /\ order[n] \in S \ FirstKeys(order, n - 1)
              /\ FirstKeys(order, n) = FirstKeys(order, n - 1) \cup {order[n]}
<1> DEFINE D == 1 .. Cardinality(S)
<1>1. /\ order \in [D -> S]
      /\ \A i, j \in D : i # j => order[i] # order[j]
      /\ \A s \in S : \E i \in D : order[i] = s
  BY DEF Orders, Bijection, Injection, Surjection, IsInjective
<1>2. Cardinality(S) \in Nat
  BY FS_CardinalityType
<1>3. Len(order) = Cardinality(S)
  BY <1>1, <1>2
<1>4. FirstKeys(order, Len(order)) = S
  BY <1>1, <1>3 DEF FirstKeys
<1>5. ASSUME NEW n \in 1 .. Len(order)
      PROVE  /\ FirstKeys(order, n - 1) \subseteq S
             /\ order[n] \in S \ FirstKeys(order, n - 1)
             /\ FirstKeys(order, n) = FirstKeys(order, n - 1) \cup {order[n]}
  <2>1. n \in D /\ \A i \in 1 .. n - 1 : i \in D /\ i # n
    BY <1>2, <1>3
  <2>2. 1 .. n = (1 .. n - 1) \cup {n}
    BY <1>2, <1>3
  <2> QED
    BY <1>1, <2>1, <2>2 DEF FirstKeys
<1> QED
  BY <1>2, <1>3, <1>4, <1>5

\* The next put of a rehash moves the next entry.
LEMMA NextPutMoves ==
  ASSUME NEW t, Sound(t), Loaded(t), NEW cap \in NextCapacities(t),
         NEW order \in Orders(StoredKeys(t)), NEW n \in 1 .. Len(order)
  PROVE  TablePut(Moved(t, cap, FirstKeys(order, n - 1), n - 1), order[n], StoredAt(t, order[n]))
           = Moved(t, cap, FirstKeys(order, n), n)
<1> DEFINE m == Moved(t, cap, FirstKeys(order, n - 1), n - 1)
<1>1. /\ t.size = Len(order) /\ t.size \in Nat
      /\ FirstKeys(order, n - 1) \subseteq Keys
      /\ order[n] \in Keys \ FirstKeys(order, n - 1)
      /\ FirstKeys(order, n) = FirstKeys(order, n - 1) \cup {order[n]}
  <2>1. StoredKeys(t) \subseteq Keys /\ IsFiniteSet(StoredKeys(t))
    BY EntriesFinite DEF StoredKeys
  <2>2. /\ Len(order) = Cardinality(StoredKeys(t)) /\ Cardinality(StoredKeys(t)) \in Nat
        /\ FirstKeys(order, n - 1) \subseteq StoredKeys(t)
        /\ order[n] \in StoredKeys(t) \ FirstKeys(order, n - 1)
        /\ FirstKeys(order, n) = FirstKeys(order, n - 1) \cup {order[n]}
    BY <2>1, OrderCovers
  <2> QED
    BY <2>1, <2>2 DEF Sound
<1>2. n - 1 \in Nat /\ n - 1 < t.size
  BY <1>1
<1>3. cap \in Nat \ {0} /\ 10 * (n - 1) <= 7 * cap
  BY <1>2, RehashFits
<1>4. ~ Overloaded(m)
  BY <1>2, <1>3 DEF Overloaded, Moved
<1>5. PutInNode(m, order[n], StoredAt(t, order[n])) =
        Moved(t, cap, FirstKeys(order, n - 1) \cup {order[n]}, (n - 1) + 1)
  <2> HIDE DEF m
  <2>1. \A size \in Nat : \A keys \in SUBSET Keys : \A k \in Keys \ keys :
          PutInNode(Moved(t, cap, keys, size), k, StoredAt(t, k)) =
            Moved(t, cap, keys \cup {k}, size + 1)
    <3>1. cap \in Nat \ {0}
      BY <1>3
    <3> QED
      BY <3>1, PutMoves
  <2> QED
    BY <1>1, <1>2, <2>1 DEF m
<1> HIDE DEF m
<1> QED
  BY <1>1, <1>2, <1>4, <1>5 DEF TablePut, m

\* A set of natural numbers has a least element.
LEMMA LeastNumber ==
  ASSUME NEW S \in SUBSET Nat, S # {}
  PROVE  \E m \in S : \A k \in S : m <= k
<1> DEFINE T == {0 .. n : n \in S}
           R == StrictSubsetOrdering(Nat)
<1>1. T \subseteq FiniteSubsetsOf(Nat)
  <2> SUFFICES ASSUME NEW n \in S PROVE 0 .. n \in FiniteSubsetsOf(Nat)
    OBVIOUS
  <2>1. IsFiniteSet(0 .. n)
    BY FS_Interval
  <2> QED
    BY <2>1 DEF FiniteSubsetsOf
<1>2. PICK I \in T : \A J \in T : ~ (<<J, I>> \in R)
  <2>1. IsWellFoundedOn(R, FiniteSubsetsOf(Nat))
    BY FS_StrictSubsetOrderingWellFounded
  <2>2. T # {}
    OBVIOUS
  <2> HIDE DEF T, R
  <2> QED
    BY <1>1, <2>1, <2>2, WFMin, Zenon
<1>3. PICK m \in S : I = 0 .. m
  OBVIOUS
<1>4. ASSUME NEW k \in S, k < m PROVE FALSE
  <2>1. (0 .. k) \in T /\ (0 .. k) \subseteq I /\ (0 .. k) # I
    BY <1>3, <1>4
  <2>2. <<0 .. k, I>> \in R
    BY <1>1, <2>1 DEF StrictSubsetOrdering
  <2> QED
    BY <1>2, <2>1, <2>2
<1> QED
  BY <1>4

(***************************************************************************)
(* The tables after each put are those of Moved.  They are a solution of   *)
(* the equations that say what one put after the other makes, so there is  *)
(* one; and no other, since two solutions would differ for the first time  *)
(* after some put.                                                         *)
(***************************************************************************)
LEMMA RehashMovesAll ==
  ASSUME NEW t, Sound(t), Loaded(t), NEW cap \in NextCapacities(t),
         NEW order \in Orders(StoredKeys(t))
  PROVE  RepeatedPut(t, cap, order) = Moved(t, cap, FirstKeys(order, Len(order)), Len(order))
<1> DEFINE L == Len(order)
           next(u, n) == TablePut(u, order[n], StoredAt(t, order[n]))
           Solves(p) == p = [n \in 0 .. L |-> IF n = 0 THEN EmptyTable(cap) ELSE next(p[n - 1], n)]
           tables == [n \in 0 .. L |-> Moved(t, cap, FirstKeys(order, n), n)]
           puts == CHOOSE p : Solves(p)
<1>1. L \in Nat
  BY EntriesFinite, OrderCovers
<1>2. tables[0] = EmptyTable(cap)
  <2>1. 0 \in 0 .. L /\ FirstKeys(order, 0) = {}
    BY <1>1 DEF FirstKeys
  <2>2. Moved(t, cap, {}, 0) = EmptyTable(cap)
    BY DEF Moved, EmptyTable, EmptyNode
  <2> QED
    BY <2>1, <2>2
<1>3. \A n \in 1 .. L : tables[n] = next(tables[n - 1], n)
  <2> SUFFICES ASSUME NEW n \in 1 .. L
               PROVE  tables[n] = next(tables[n - 1], n)
    OBVIOUS
  <2>1. n \in 0 .. L /\ n - 1 \in 0 .. L
    BY <1>1
  <2> QED
    BY <2>1, NextPutMoves
<1>4. RepeatedPut(t, cap, order) = puts[L]
  BY DEF RepeatedPut
<1> HIDE DEF next, tables, L
<1>5. Solves(tables)
  <2>1. tables = [n \in 0 .. L |-> tables[n]]
    BY DEF tables
  <2>2. \A n \in 0 .. L : tables[n] = IF n = 0 THEN EmptyTable(cap) ELSE next(tables[n - 1], n)
    BY <1>1, <1>2, <1>3
  <2> QED
    BY <2>1, <2>2
<1>6. Solves(puts)
  <2> HIDE DEF Solves
  <2> QED
    BY <1>5
<1> HIDE DEF puts
<1>7. \A n \in 0 .. L : puts[n] = IF n = 0 THEN EmptyTable(cap) ELSE next(puts[n - 1], n)
  BY <1>6
<1>8. \A n \in 0 .. L : puts[n] = tables[n]
  <2> DEFINE Differ == {n \in 0 .. L : puts[n] # tables[n]}
  <2> SUFFICES ASSUME Differ # {} PROVE FALSE
    OBVIOUS
  <2>1. PICK m \in Differ : \A k \in Differ : m <= k
    <3>1. Differ \in SUBSET Nat
      BY <1>1
    <3> HIDE DEF Differ
    <3> QED
      BY <3>1, LeastNumber
  <2>2. m \in 1 .. L /\ m - 1 \in 0 .. L
    BY <1>1, <1>2, <1>7
  <2>3. puts[m - 1] = tables[m - 1]
    BY <1>1, <2>1, <2>2
  <2>4. puts[m] = next(puts[m - 1], m)
    BY <1>1, <1>7, <2>2
  <2> QED
    BY <1>3, <2>2, <2>3, <2>4
<1>9. L \in 0 .. L
  BY <1>1
<1> QED
  BY <1>4, <1>8, <1>9 DEF tables, L

(***************************************************************************)
(* A rehash puts every entry once, in the table it began with: none of its *)
(* puts grows the new table in turn, or finds its key there already        *)
(* (uuc_val_table.c:156-179).                                              *)
(***************************************************************************)
THEOREM RehashPutsAgain ==
  ASSUME GrowthFits
  PROVE  Spec => []RehashIsRepeatedPut
<1>1. IInv /\ LoadBounded => RehashIsRepeatedPut
  <2> SUFFICES ASSUME IInv, LoadBounded, NEW cap \in NextCapacities(table),
                      NEW order \in Orders(StoredKeys(table))
               PROVE  RepeatedPut(table, cap, order) = ChangeCapacity(table, cap)
    BY DEF RehashIsRepeatedPut
  <2>1. Sound(table) /\ Loaded(table)
    BY DEF IInv, LoadBounded, Loaded
  <2>2. RepeatedPut(table, cap, order) =
          Moved(table, cap, FirstKeys(order, Len(order)), Len(order))
    BY <2>1, RehashMovesAll
  <2>3. /\ FirstKeys(order, Len(order)) = StoredKeys(table)
        /\ Len(order) = Cardinality(StoredKeys(table))
    BY EntriesFinite, OrderCovers
  <2>4. ChangeCapacity(table, cap) =
          Moved(table, cap, StoredKeys(table), Cardinality(StoredKeys(table)))
    BY DEF ChangeCapacity, Moved, StoredKeys
  <2> QED
    BY <2>2, <2>3, <2>4
<1>2. IInv => Sound(table)
  BY DEF IInv
<1> QED
  BY InitIInv, StepKeepsIInv, LoadStaysBounded, <1>1, PTL DEF Spec

-----------------------------------------------------------------------------
\* A lookup of a key that has an entry finds that entry.
LEMMA StoredIsFound ==
  ASSUME NEW t, NEW k, Stored(t, k)
  PROVE  TableHas(t, k) /\ TableFetch(t, k) = StoredAt(t, k)
<1>1. ASSUME IsEntry(NodeOf(t, k))
      PROVE  TableFetch(t, k) = StoredAt(t, k)
  <2>1. DOMAIN NodeOf(t, k) = {k}
    BY <1>1 DEF IsEntry, Stored
  <2>2. (CHOOSE j \in DOMAIN NodeOf(t, k) : TRUE) = k
    BY <2>1
  <2> QED
    BY <1>1, <2>2 DEF TableFetch, StoredAt
<1>2. ASSUME ~ IsEntry(NodeOf(t, k))
      PROVE  TableFetch(t, k) = StoredAt(t, k)
  BY <1>2 DEF TableFetch, StoredAt
<1> QED
  BY <1>1, <1>2 DEF TableHas

\* The map once k is put in it.
WithEntry(t, k, v) ==
  [j \in StoredKeys(t) \cup {k} |-> IF j = k THEN v ELSE Contents(t)[j]]

\* A put changes what the table maps k to, and nothing else.
LEMMA PutContents ==
  ASSUME NEW t, Sound(t), NEW k \in Keys, NEW v \in TableValues
  PROVE  Contents(TablePut(t, k, v)) = WithEntry(t, k, v)
<1> DEFINE u == TablePut(t, k, v)
<1>1. StoredKeys(u) = StoredKeys(t) \cup {k}
  BY TablePutSound
<1>2. \A j \in StoredKeys(t) \cup {k} :
        StoredAt(u, j) = IF j = k THEN v ELSE StoredAt(t, j)
  BY TablePutKeeps DEF StoredKeys, Sound
<1>3. \A j \in StoredKeys(t) : Contents(t)[j] = StoredAt(t, j)
  BY DEF Contents
<1>4. Contents(u) = [j \in StoredKeys(u) |-> StoredAt(u, j)]
  BY DEF Contents
<1> HIDE DEF u
<1> QED
  BY <1>1, <1>2, <1>3, <1>4 DEF u, WithEntry

\* A removal of a key that has an entry takes it, and leaves the others theirs.
LEMMA RemoveContents ==
  ASSUME NEW t, Sound(t), NEW k \in Keys, Stored(t, k)
  PROVE  Contents(TableRemove(t, k)) = [j \in StoredKeys(t) \ {k} |-> Contents(t)[j]]
<1> DEFINE w == TakeFromNode(t, k)
           u == TableRemove(t, k)
<1>1. Removes(t, k)
  BY StoredIsFound DEF Removes
<1>2. Victims(t, k) = {k}
  BY <1>1, OneVictim
<1>3. Sound(w) /\ StoredKeys(w) = StoredKeys(t) \ {k}
  BY <1>1, <1>2, TakeFromNodeSound
<1>4. \A j \in StoredKeys(w) : StoredAt(w, j) = StoredAt(t, j)
  BY <1>1, TakeFromNodeKeeps DEF StoredKeys
<1>5. u = IF Underloaded(w) THEN ChangeCapacity(w, w.cap \div 4) ELSE w
  BY <1>1 DEF TableRemove
<1> HIDE DEF w, u
<1>6. /\ StoredKeys(u) = StoredKeys(w)
      /\ \A j \in StoredKeys(w) : StoredAt(u, j) = StoredAt(w, j)
  <2>1. CASE Underloaded(w)
    <3>1. w.cap \in Nat /\ w.size \in Nat /\ w.size > 0 /\ 10 * w.size < w.cap
      BY <1>3, <2>1, TableAssumption DEF Underloaded, Sound, IsTable
    <3>2. PICK quarter \in Nat \ {0} : quarter = w.cap \div 4
      BY <3>1
    <3>3. u = ChangeCapacity(w, quarter)
      BY <1>5, <2>1, <3>2
    <3>4. StoredKeys(u) = StoredKeys(w)
      BY <1>3, <3>3, ChangeCapacitySound
    <3>5. \A j \in Keys : Stored(w, j) => StoredAt(u, j) = StoredAt(w, j)
      BY <1>3, <3>3, ChangeCapacityKeeps DEF Sound
    <3> QED
      BY <3>4, <3>5 DEF StoredKeys
  <2> QED
    BY <1>5, <2>1
<1>7. \A j \in StoredKeys(t) : Contents(t)[j] = StoredAt(t, j)
  BY DEF Contents
<1>8. Contents(u) = [j \in StoredKeys(u) |-> StoredAt(u, j)]
  BY DEF Contents
<1> QED
  BY <1>3, <1>4, <1>6, <1>7, <1>8 DEF u

\* A call of a user that knows its keys is the call of the map, or frees a wild pointer.
LEMMA KnownCallIsMapStep ==
  ASSUME Sound(table), NEW k \in Keys, KnownCall(k)
  PROVE  Map!Next \/ UNCHANGED <<Contents(table), ret>>
<1>1. DOMAIN Contents(table) = StoredKeys(table)
  BY DEF Contents
<1>2. Stored(table, k) <=> k \in StoredKeys(table)
  BY DEF StoredKeys
<1>3. ASSUME Stored(table, k), Get(k)
      PROVE  Map!Get(k)
  <2>1. Contents(table)[k] = TableFetch(table, k) /\ TableHas(table, k)
    BY <1>2, <1>3, StoredIsFound DEF Contents
  <2>2. UNCHANGED Contents(table)
    BY <1>3 DEF Get
  <2> QED
    BY <1>1, <1>2, <1>3, <2>1, <2>2 DEF Get, Map!Get
<1>4. ASSUME Stored(table, k), Remove(k)
      PROVE  Map!Remove(k)
  <2>1. Removes(table, k)
    BY <1>4, StoredIsFound DEF Removes
  <2>2. Contents(table)' = [j \in StoredKeys(table) \ {k} |-> Contents(table)[j]]
    <3>1. Contents(TableRemove(table, k)) =
            [j \in StoredKeys(table) \ {k} |-> Contents(table)[j]]
      BY <1>4, RemoveContents
    <3>2. Contents(table)' = Contents(table')
      BY DEF Contents, StoredKeys, Stored, StoredAt, NodeOf, Index
    <3> QED
      BY <1>4, <3>1, <3>2 DEF Remove
  <2> QED
    BY <1>1, <1>2, <1>4, <2>1, <2>2 DEF Remove, Answer, Map!Remove
<1>5. ASSUME NEW v \in TableValues, Put(k, v)
      PROVE  Map!Put(k, v)
  <2>1. Contents(table)' = WithEntry(table, k, v)
    <3>1. Contents(TablePut(table, k, v)) = WithEntry(table, k, v)
      BY PutContents
    <3>2. Contents(table)' = Contents(table')
      BY DEF Contents, StoredKeys, Stored, StoredAt, NodeOf, Index
    <3> QED
      BY <1>5, <3>1, <3>2 DEF Put
  <2> QED
    BY <1>1, <1>2, <1>5, <2>1 DEF Put, Answer, Overrides, WithEntry, Map!Put
<1>6. ASSUME FreeOverwritten(k)
      PROVE  UNCHANGED <<Contents(table), ret>>
  BY <1>6 DEF FreeOverwritten
<1> QED
  BY <1>3, <1>4, <1>5, <1>6 DEF KnownCall, Map!Next

(***************************************************************************)
(* For users that get and remove only keys they have put, the table is the *)
(* map its header promises, through every collision, grow and shrink       *)
(* (uuc_val_table.h:39-44).                                                *)
(***************************************************************************)
THEOREM TableIsMap == KnownSpec => IsMap
<1>1. Init => Map!Init
  <2> SUFFICES ASSUME Init
               PROVE  Map!Init
    OBVIOUS
  <2>1. PICK capacity \in InitCapacities : table = EmptyTable(capacity)
    BY DEF Init
  <2>2. StoredKeys(table) = {}
    BY <2>1, EmptySound, ClientAssumption
  <2>3. Contents(table) = [k \in {} |-> 0]
    BY <2>2 DEF Contents
  <2> QED
    BY <2>3 DEF Init, Map!Init
<1>2. IInv /\ [KnownNext]_vars => IInv'
  <2>1. KnownNext => Next
    BY KnownCallIsCall DEF KnownNext, Next
  <2> QED
    BY <2>1, StepKeepsIInv
<1>3. IInv /\ [KnownNext]_vars => [Map!Next]_Map!vars
  <2> SUFFICES ASSUME IInv, [KnownNext]_vars
               PROVE  [Map!Next]_Map!vars
    OBVIOUS
  <2>1. CASE \E k \in Keys : KnownCall(k)
    BY <2>1, KnownCallIsMapStep DEF IInv, Map!vars
  <2>2. CASE UNCHANGED vars
    BY <2>2 DEF vars, Map!vars
  <2> QED
    BY <2>1, <2>2 DEF KnownNext, Stopped
<1> QED
  BY InitIInv, <1>1, <1>2, <1>3, PTL DEF KnownSpec, IsMap, Map!Spec

(***************************************************************************)
(* And whatever calls were made before, a put, or a get or remove of a     *)
(* stored key, is a step of that map.                                      *)
(***************************************************************************)
THEOREM KnownCallsAreMapSteps == Spec => KnownCallsMap
<1>1. ASSUME IInv, [Next]_vars, NEW k \in Keys, KnownCall(k)
      PROVE  [Map!Next]_Map!vars
  BY <1>1, KnownCallIsMapStep DEF IInv, Map!vars
<1>2. IInv /\ [Next]_vars => [(\E k \in Keys : KnownCall(k)) => [Map!Next]_Map!vars]_vars
  BY <1>1
<1> QED
  BY InitIInv, StepKeepsIInv, <1>2, PTL DEF Spec, KnownCallsMap
=============================================================================
