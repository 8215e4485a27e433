------------------------------ MODULE UucTable ------------------------------
(***************************************************************************)
(* A UucValTable and the calls its users make: uuc_val_table_get, _put and *)
(* _remove, in any order and with any keys.  KnownSpec is about users that *)
(* get and remove keys they have put, which is all the header's contract   *)
(* holds for: a node that stores one entry answers for every key of its    *)
(* hash index.                                                             *)
(***************************************************************************)
EXTENDS UucValTable, Sequences, Functions

CONSTANTS TableValues,      \* what the table may map a key to
          InitCapacities    \* what uuc_init_val_table may be called with

ASSUME ClientAssumption == InitCapacities \subseteq Nat \ {0}

VARIABLES table,
          ret,       \* the last call, its result, and the value a get stored in *v
          status     \* "ok", or "wild" after free() of a pointer malloc never gave

vars == <<table, ret, status>>

Answer(call, k, is) == [call |-> call, key |-> k, is |-> IF is THEN 1 ELSE 0]

Init ==
  /\ \E capacity \in InitCapacities : table = EmptyTable(capacity)
  /\ ret = [call |-> "init"]
  /\ status = "ok"

Get(k) ==
  /\ status = "ok"
  /\ ret' = IF TableHas(table, k)
              THEN [call |-> "get", key |-> k, is |-> 1, value |-> TableFetch(table, k)]
              ELSE Answer("get", k, FALSE)
  /\ UNCHANGED <<table, status>>

Put(k, v) ==
  /\ status = "ok"
  /\ table' = TablePut(table, k, v)
  /\ ret' = Answer("put", k, Overrides(table, k))
  /\ UNCHANGED status

Remove(k) ==
  /\ status = "ok"
  /\ table' = TableRemove(table, k)
  /\ ret' = Answer("remove", k, Removes(table, k))
  /\ UNCHANGED status

\* Removing k leaves a bucket of one entry, which becomes a NODE_ENTRY.
Collapses(k) == Stored(table, k) /\ Cardinality(DOMAIN NodeOf(table, k)) = 2

(***************************************************************************)
(* The entry that is left is written over the bucket it shares a union     *)
(* with before free(b->entries): what is freed is made of the entry's      *)
(* bytes.  They may be those of a null pointer; if not, C says nothing of  *)
(* what follows.                                                           *)
(***************************************************************************)
FreeOverwritten(k) ==
  /\ status = "ok"
  /\ Collapses(k)
  /\ status' = "wild"
  /\ UNCHANGED <<table, ret>>

Stopped == status = "wild" /\ UNCHANGED vars

Call(k) == Get(k) \/ Remove(k) \/ FreeOverwritten(k) \/ \E v \in TableValues : Put(k, v)

Next == (\E k \in Keys : Call(k)) \/ Stopped

Spec == Init /\ [][Next]_vars

\* Calls of users that get and remove only what they have put.
KnownCall(k) ==
  \/ Stored(table, k) /\ (Get(k) \/ Remove(k) \/ FreeOverwritten(k))
  \/ \E v \in TableValues : Put(k, v)

KnownNext == (\E k \in Keys : KnownCall(k)) \/ Stopped

KnownSpec == Init /\ [][KnownNext]_vars

-----------------------------------------------------------------------------
\* Type invariant.
TypeOK ==
  /\ IsTable(table, TableValues)
  /\ status \in {"ok", "wild"}
  /\ ret.call \in {"init", "get", "put", "remove"}

StoredKeys(t) == {k \in Keys : Stored(t, k)}

(***************************************************************************)
(* Every entry is in the node its key hashes to at the present capacity,   *)
(* so that no rehash leaves one where a lookup does not look, and size is  *)
(* the number of entries.  This holds even for users that get and remove   *)
(* keys they never put.                                                    *)
(***************************************************************************)
Counted ==
  /\ \A i \in 0 .. table.cap - 1 : \A k \in DOMAIN table.nodes[i] : Index(table.cap, k) = i
  /\ table.size = Cardinality(StoredKeys(table))

(***************************************************************************)
(* The load is looked at before an entry is added, not after, and again    *)
(* when one is removed: it never exceeds UUC_TABLE_MAX_LOAD by more than   *)
(* one entry, whatever sequence of grows and shrinks led there.            *)
(***************************************************************************)
LoadBounded == 10 * (table.size - 1) <= 7 * table.cap

(***************************************************************************)
(* uuc_val_table_change_capacity_ as it is written: one uuc_val_table_put  *)
(* after the other, each of which may grow the table in turn.              *)
(***************************************************************************)
RepeatedPut(t, newCap, order) ==
  LET puts[n \in 0 .. Len(order)] ==
        IF n = 0 THEN EmptyTable(newCap)
                 ELSE TablePut(puts[n - 1], order[n], StoredAt(t, order[n]))
  IN  puts[Len(order)]

\* The orders in which the old nodes may yield the entries of these keys.
Orders(keys) == Bijection(1 .. Cardinality(keys), keys)

\* The capacities the next call may change this one to.
NextCapacities(t) ==
  (IF Overloaded(t) THEN {GrownCapacity(t.cap)} ELSE {})
    \cup (IF Underloaded([t EXCEPT !.size = @ - 1]) THEN {t.cap \div 4} ELSE {})

(***************************************************************************)
(* In whatever order the old nodes yield the entries, putting them again   *)
(* neither grows the new table nor loses or duplicates an entry: it makes  *)
(* the table of ChangeCapacity.                                            *)
(***************************************************************************)
RehashIsRepeatedPut ==
  \A cap \in NextCapacities(table) : \A order \in Orders(StoredKeys(table)) :
    RepeatedPut(table, cap, order) = ChangeCapacity(table, cap)

-----------------------------------------------------------------------------
(***************************************************************************)
(* For users that know their keys, the table is the map of its header.     *)
(***************************************************************************)
Contents(t) == [k \in StoredKeys(t) |-> StoredAt(t, k)]

Map == INSTANCE UucMap WITH map <- Contents(table)

IsMap == Map!Spec

(***************************************************************************)
(* And it is more: a put, or a get or remove of a stored key, does to the  *)
(* entries what it does to the map's in every state that any calls lead    *)
(* to, also when a remove of a key that was never put has taken an entry.  *)
(***************************************************************************)
KnownCallsMap ==
  [][(\E k \in Keys : KnownCall(k)) => [Map!Next]_Map!vars]_vars

(***************************************************************************)
(* "return 1 if value was found" (uuc_val_table.h:40) and "returs 1 if     *)
(* value was removed" (uuc_val_table.h:44), for users that do not know.    *)
(***************************************************************************)
FoundIsStored ==
  [][\A k \in Keys : (Get(k) \/ Remove(k)) /\ ret'.is = 1 => Stored(table, k)]_vars
=============================================================================
