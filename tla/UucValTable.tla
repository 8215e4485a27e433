---------------------------- MODULE UucValTable -----------------------------
(***************************************************************************)
(* UucValTable: the hash table that holds the global variables.  A node is *)
(* the function from keys to values it stores; NODE_EMPTY, NODE_ENTRY and  *)
(* NODE_BUCKET are the nodes that store no key, one key and at least two.  *)
(* The order of the entries of a bucket cannot be observed and is left     *)
(* out.                                                                    *)
(***************************************************************************)
EXTENDS Integers, FiniteSets

CONSTANTS Keys,          \* the contents of the UucStrings used as keys
          Hash,          \* uuc_hash_string, up to a multiple of every capacity
          MinCapacity,   \* 16: what INCREASE_CAPACITY yields below itself
          ShrinkFloor    \* 32: a table of at most this size never shrinks

ASSUME TableAssumption ==
  /\ IsFiniteSet(Keys)
  /\ Hash \in [Keys -> Nat]
  /\ MinCapacity \in Nat \ {0}
  /\ ShrinkFloor \in Nat

EmptyNode == [k \in {} |-> 0]

IsEmpty(node) == DOMAIN node = {}
IsEntry(node) == \E k \in DOMAIN node : DOMAIN node = {k}

\* uuc_init_val_table
EmptyTable(capacity) ==
  [cap |-> capacity, size |-> 0, nodes |-> [i \in 0 .. capacity - 1 |-> EmptyNode]]

Index(cap, k) == Hash[k] % cap
NodeOf(t, k)  == t.nodes[Index(t.cap, k)]

\* k has an entry in t; and its value when it does.
Stored(t, k)   == k \in DOMAIN NodeOf(t, k)
StoredAt(t, k) == NodeOf(t, k)[k]

(***************************************************************************)
(* uuc_val_table_get: a node that holds one entry answers every key that   *)
(* hashes to it, without comparing keys.                                   *)
(***************************************************************************)
TableHas(t, k) == IsEntry(NodeOf(t, k)) \/ Stored(t, k)

TableFetch(t, k) ==
  LET node == NodeOf(t, k)
  IN  IF IsEntry(node) THEN node[CHOOSE j \in DOMAIN node : TRUE] ELSE node[k]

GrownCapacity(cap) == IF cap < MinCapacity THEN MinCapacity ELSE 2 * cap

\* Mutant of ChangeCapacity: entries stay at their old index.
KeepIndex(t, newCap) ==
  LET keys == {k \in Keys : Stored(t, k)}
  IN  [cap   |-> newCap,
       size  |-> Cardinality(keys),
       nodes |-> [i \in 0 .. newCap - 1 |->
                   [k \in {j \in keys : Index(t.cap, j) = i} |-> StoredAt(t, k)]]]

(***************************************************************************)
(* uuc_val_table_change_capacity_: every entry is put again into a table   *)
(* of the new capacity.  (No entry is put twice and at most newCap entries *)
(* are put, so none of those puts grows the table or overrides a value.)   *)
(***************************************************************************)
ChangeCapacity(t, newCap) ==
  LET keys == {k \in Keys : Stored(t, k)}
  IN  [cap   |-> newCap,
       size  |-> Cardinality(keys),
       nodes |-> [i \in 0 .. newCap - 1 |->
                   [k \in {j \in keys : Index(newCap, j) = i} |-> StoredAt(t, k)]]]

\* Mutant of Overloaded: more entries than nodes.
FullToTheBrim(t) == t.size > t.cap

Overloaded(t)  == 10 * t.size > 7 * t.cap
Underloaded(t) == t.size > ShrinkFloor /\ 10 * t.size < t.cap

\* Mutants of PutInNode: every put is counted; a collision replaces the node;
\* an entry that exists keeps its value.
CountEveryPut(t, k, v) ==
  LET i == Index(t.cap, k)
      more == [j \in DOMAIN t.nodes[i] \cup {k} |-> IF j = k THEN v ELSE t.nodes[i][j]]
  IN  [cap |-> t.cap, size |-> t.size + 1, nodes |-> [t.nodes EXCEPT ![i] = more]]

PutOverNode(t, k, v) ==
  [t EXCEPT !.size = @ + 1, !.nodes[Index(t.cap, k)] = [j \in {k} |-> v]]

PutIfAbsent(t, k, v) ==
  IF Stored(t, k) THEN t ELSE [t EXCEPT !.size = @ + 1, !.nodes[Index(t.cap, k)] =
                                  [j \in DOMAIN @ \cup {k} |-> IF j = k THEN v ELSE @[j]]]

\* The entry of k is made or overridden; NODE_ENTRY becomes NODE_BUCKET.
PutInNode(t, k, v) ==
  LET i == Index(t.cap, k)
      node == t.nodes[i]
      more == [j \in DOMAIN node \cup {k} |-> IF j = k THEN v ELSE node[j]]
  IN  [cap   |-> t.cap,
       size  |-> IF k \in DOMAIN node THEN t.size ELSE t.size + 1,
       nodes |-> [t.nodes EXCEPT ![i] = more]]

\* uuc_val_table_put; the load is looked at before the put, whatever it puts.
TablePut(t, k, v) ==
  PutInNode(IF Overloaded(t) THEN ChangeCapacity(t, GrownCapacity(t.cap)) ELSE t, k, v)

\* Returned by uuc_val_table_put (1) when the value of k was overridden.
Overrides(t, k) == Stored(t, k)

\* Mutant of Removes: size is decremented whatever was found.
RemovesAlways(t, k) == TRUE

(***************************************************************************)
(* uuc_val_table_remove__: a node that holds one entry loses it whatever   *)
(* key was asked for.                                                      *)
(***************************************************************************)
Removes(t, k) == TableHas(t, k)

TakeFromNode(t, k) ==
  LET i == Index(t.cap, k)
      node == t.nodes[i]
      gone == IF IsEntry(node) THEN DOMAIN node ELSE {k}
  IN  [cap   |-> t.cap,
       size  |-> t.size - 1,
       nodes |-> [t.nodes EXCEPT ![i] = [j \in DOMAIN node \ gone |-> node[j]]]]

\* uuc_val_table_remove; the load is looked at even when nothing was removed.
TableRemove(t, k) ==
  LET u == IF Removes(t, k) THEN TakeFromNode(t, k) ELSE t
  IN  IF Underloaded(u) THEN ChangeCapacity(u, u.cap \div 4) ELSE u

-----------------------------------------------------------------------------
IsNode(node, V) ==
  /\ DOMAIN node \subseteq Keys
  /\ node = [k \in DOMAIN node |-> node[k]]
  /\ \A k \in DOMAIN node : node[k] \in V

\* The type of a table whose values are in V.
IsTable(t, V) ==
  /\ t = [cap |-> t.cap, size |-> t.size, nodes |-> t.nodes]
  /\ t.cap \in Nat \ {0} /\ t.size \in Nat
  /\ t.nodes = [i \in 0 .. t.cap - 1 |-> t.nodes[i]]
  /\ \A i \in 0 .. t.cap - 1 : IsNode(t.nodes[i], V)
=============================================================================
