----------------------------- MODULE UucLemmas ------------------------------
(***************************************************************************)
(* What the operators of the machine yield: values, stacks and tables.     *)
(***************************************************************************)
EXTENDS UucStack, UucValTable, FiniteSetTheorems, SequenceTheorems, TLAPS

\* ToInt yields an integer, whatever the width of a word.
LEMMA ToIntIsInt == ASSUME NEW n \in Int PROVE ToInt(n) \in Int
  BY WordModAssumption DEF ToInt

\* Integer division of the machine yields an integer.
LEMMA QuotientIsInt ==
  ASSUME NEW m \in Int, NEW n \in Int, n # 0 PROVE Quotient(m, n) \in Int
<1>1. Abs(m) \in Nat /\ Abs(n) \in Nat \ {0}
  BY DEF Abs
<1>2. Abs(m) \div Abs(n) \in Int
  BY <1>1
<1> QED
  BY <1>2 DEF Quotient

\* A value is of exactly one type, and has the payload of that type.
LEMMA ValueCases ==
  ASSUME NEW F, NEW v \in ValuesOver(F)
  PROVE  /\ v.type \in {"null", "double", "string", "int", "bool", "function"}
         /\ v.type = "int" => v.int \in Int
         /\ v.type = "bool" => v.bool \in BOOLEAN
         /\ v.type = "function" => v.fn \in F
  BY DEF ValuesOver

\* The values the machine makes are values of the language.
LEMMA MadeValues ==
  ASSUME NEW F
  PROVE  /\ {NullVal, DoubleVal, StringVal} \subseteq ValuesOver(F)
         /\ \A n \in Int : IntVal(n) \in ValuesOver(F)
         /\ \A b \in BOOLEAN : BoolVal(b) \in ValuesOver(F)
  BY DEF ValuesOver, NullVal, DoubleVal, StringVal, IntVal, BoolVal

\* What no one stored is none of them.
LEMMA AnythingIsNoValue ==
  ASSUME NEW F PROVE Anything \notin ValuesOver(F)
  BY ValueCases DEF Anything

\* OP_NOT and OP_NEGATE yield a value, or report an error; only what is made of
\* Anything may be Anything.
LEMMA UnaryTyped ==
  ASSUME NEW F, NEW v \in ValuesOver(F) \cup {Anything}, NEW op
  PROVE  /\ UnaryResults(op, v) \subseteq ValuesOver(F) \cup {Anything, Fail}
         /\ v # Anything => UnaryResults(op, v) \subseteq ValuesOver(F) \cup {Fail}
<1>1. CASE v = Anything
  BY <1>1, MadeValues DEF UnaryResults, Anything
<1>2. CASE v \in ValuesOver(F)
  <2>1. v.type = "int" => ToInt(-v.int) \in Int
    BY <1>2, ValueCases, ToIntIsInt
  <2>2. v.type = "bool" => (~ v.bool) \in BOOLEAN
    BY <1>2, ValueCases
  <2>3. v.type # "anything"
    BY <1>2, ValueCases
  <2> QED
    BY <2>1, <2>2, <2>3, MadeValues DEF UnaryResults
<1> QED
  BY <1>1, <1>2

\* Each arithmetic operator yields a value, or reports an error.
LEMMA ArithmeticTyped ==
  ASSUME NEW F, NEW a \in ValuesOver(F), NEW b \in ValuesOver(F),
         NEW op \in Arithmetic
  PROVE  ArithmeticResults(op, a, b) \subseteq ValuesOver(F) \cup {Fail}
<1>1. ASSUME a.type = "int", b.type = "int", ~ (op = OP_DIVIDE /\ b.int = 0)
      PROVE  ArithmeticInt(op, a.int, b.int) \in Int
  <2>1. a.int \in Int /\ b.int \in Int
    BY <1>1, ValueCases
  <2>2. CASE op \in {OP_ADD, OP_SUBSTRACT, OP_MULTIPLY}
    BY <2>1, <2>2 DEF ArithmeticInt
  <2>3. CASE op = OP_DIVIDE
    <3>1. Quotient(a.int, b.int) \in Int
      BY <1>1, <2>1, <2>3, QuotientIsInt
    <3> QED
      BY <3>1, <2>3 DEF ArithmeticInt, OP_ADD, OP_SUBSTRACT, OP_MULTIPLY, OP_DIVIDE
  <2> QED
    BY <2>2, <2>3 DEF Arithmetic, OP_ADD, OP_SUBSTRACT, OP_MULTIPLY, OP_DIVIDE
<1>2. ASSUME a.type = "int", b.type = "int", ~ (op = OP_DIVIDE /\ b.int = 0)
      PROVE  IntResults(op, a.int, b.int) \subseteq ValuesOver(F)
  BY <1>1, <1>2 DEF IntResults, IntVal, ValuesOver
<1> QED
  BY <1>2, MadeValues DEF ArithmeticResults, IsNumber

\* Each comparison yields a boolean, or reports an error.
LEMMA ComparisonTyped ==
  ASSUME NEW F, NEW a \in ValuesOver(F), NEW b \in ValuesOver(F), NEW op
  PROVE  ComparisonResults(op, a, b) \subseteq ValuesOver(F) \cup {Fail}
<1>1. \A m, n : CompareInt(op, m, n) \in BOOLEAN
  BY DEF CompareInt
<1> QED
  BY <1>1, MadeValues DEF ComparisonResults

\* What a binary instruction pushes is a value, or it reports an error; with an operand
\* that is Anything it may go wild.
LEMMA BinaryTyped ==
  ASSUME NEW F, NEW a \in ValuesOver(F) \cup {Anything}, NEW b \in ValuesOver(F) \cup {Anything},
         NEW op \in BinaryOps
  PROVE  /\ BinaryResults(op, a, b) \subseteq ValuesOver(F) \cup {Anything, Fail, Wild}
         /\ a # Anything /\ b # Anything
              => BinaryResults(op, a, b) \subseteq ValuesOver(F) \cup {Fail}
<1>1. CASE Anything \in {a, b}
  BY <1>1, MadeValues DEF BinaryResults, UnknownResults
<1>2. CASE Anything \notin {a, b}
  BY <1>2, ArithmeticTyped, ComparisonTyped DEF BinaryResults, BinaryOps
<1> QED
  BY <1>1, <1>2

-----------------------------------------------------------------------------
\* A write to a slot that was written before, or to the next one.
LEMMA StoreTyped ==
  ASSUME NEW V, NEW mem \in Seq(V), NEW i \in 0 .. Len(mem), NEW v \in V
  PROVE  /\ Store(mem, i, v) \in Seq(V)
         /\ Len(Store(mem, i, v)) = IF i < Len(mem) THEN Len(mem) ELSE Len(mem) + 1
         /\ Store(mem, i, v)[i + 1] = v
         /\ \A j \in 1 .. Len(mem) : j # i + 1 => Store(mem, i, v)[j] = mem[j]
  BY DEF Store

\* A push of a value keeps the stack a stack, one slot higher.
LEMMA PushTyped ==
  ASSUME NEW V, NEW s, IsStack(s, V), NEW v \in V
  PROVE  IsStack(StackPush(s, v), V) /\ StackPush(s, v).size = s.size + 1
<1>1. s.mem \in Seq(V) /\ s.size \in 0 .. Len(s.mem)
  BY DEF IsStack
<1>2. /\ Store(s.mem, s.size, v) \in Seq(V)
      /\ s.size + 1 <= Len(Store(s.mem, s.size, v))
  BY <1>1 DEF Store
<1> QED
  BY <1>1, <1>2 DEF IsStack, StackPush

\* Popping an empty stack yields null and changes nothing.
LEMMA PopTyped ==
  ASSUME NEW V, NEW s, IsStack(s, V), NullVal \in V
  PROVE  /\ IsStack(StackDrop(s), V)
         /\ StackPeek(s) \in V
         /\ StackDrop(s).mem = s.mem
         /\ StackDrop(s).size = IF s.size = 0 THEN 0 ELSE s.size - 1
  BY DEF IsStack, StackDrop, StackPeek

\* A write to a slot below the top, or to the next one, moves no top.
LEMMA SetTyped ==
  ASSUME NEW V, NEW s, IsStack(s, V), NEW i \in 0 .. s.size, NEW v \in V
  PROVE  IsStack(StackSet(s, i, v), V) /\ StackSet(s, i, v).size = s.size
<1>1. s.mem \in Seq(V) /\ i \in 0 .. Len(s.mem) /\ s.size \in Nat
  BY DEF IsStack
<1>2. Store(s.mem, i, v) \in Seq(V) /\ Len(s.mem) <= Len(Store(s.mem, i, v))
  BY <1>1, StoreTyped
<1> QED
  BY <1>1, <1>2 DEF IsStack, StackSet

-----------------------------------------------------------------------------
\* A key's index is that of a node of the table.
LEMMA IndexInTable ==
  ASSUME NEW cap \in Nat \ {0}, NEW k \in Keys
  PROVE  Index(cap, k) \in 0 .. cap - 1
<1>1. Hash[k] \in Nat
  BY TableAssumption
<1> QED
  BY <1>1 DEF Index

\* A record of typed nodes is a table.
LEMMA MadeTable ==
  ASSUME NEW V, NEW cap \in Nat \ {0}, NEW size \in Nat, NEW nodes,
         nodes = [i \in 0 .. cap - 1 |-> nodes[i]],
         \A i \in 0 .. cap - 1 : IsNode(nodes[i], V)
  PROVE  IsTable([cap |-> cap, size |-> size, nodes |-> nodes], V)
  BY DEF IsTable

\* The table uuc_init_val_table yields is a table.
LEMMA EmptyTableTyped ==
  ASSUME NEW V, NEW cap \in Nat \ {0}
  PROVE  IsTable(EmptyTable(cap), V)
  BY DEF IsTable, IsNode, EmptyTable, EmptyNode

\* A key's node, and the value a lookup finds, are of the table's type.
LEMMA FetchTyped ==
  ASSUME NEW V, NEW t, IsTable(t, V), NEW k \in Keys
  PROVE  /\ IsNode(NodeOf(t, k), V)
         /\ Stored(t, k) => StoredAt(t, k) \in V
         /\ TableHas(t, k) => TableFetch(t, k) \in V
<1>1. IsNode(NodeOf(t, k), V)
  <2>1. Index(t.cap, k) \in 0 .. t.cap - 1
    BY IndexInTable DEF IsTable
  <2> QED
    BY <2>1 DEF IsTable, NodeOf
<1>2. Stored(t, k) => StoredAt(t, k) \in V
  BY <1>1 DEF Stored, StoredAt, IsNode
<1>3. ASSUME IsEntry(NodeOf(t, k))
      PROVE  (CHOOSE j \in DOMAIN NodeOf(t, k) : TRUE) \in DOMAIN NodeOf(t, k)
  BY <1>3 DEF IsEntry
<1>4. TableHas(t, k) => TableFetch(t, k) \in V
  BY <1>1, <1>3 DEF TableHas, TableFetch, Stored, IsNode
<1> QED
  BY <1>1, <1>2, <1>4

\* Moving every entry to a table of another capacity keeps the type.
LEMMA ChangeCapacityTyped ==
  ASSUME NEW V, NEW t, IsTable(t, V), NEW cap \in Nat \ {0}
  PROVE  IsTable(ChangeCapacity(t, cap), V) /\ ChangeCapacity(t, cap).cap = cap
<1> DEFINE keys == {k \in Keys : Stored(t, k)}
           node(i) == [k \in {j \in keys : Index(cap, j) = i} |-> StoredAt(t, k)]
<1>1. ChangeCapacity(t, cap) =
        [cap |-> cap, size |-> Cardinality(keys),
         nodes |-> [i \in 0 .. cap - 1 |-> node(i)]]
  BY DEF ChangeCapacity
<1>2. Cardinality(keys) \in Nat
  BY FS_Subset, FS_CardinalityType, TableAssumption
<1>3. \A i \in 0 .. cap - 1 : IsNode(node(i), V)
  BY FetchTyped DEF IsNode
<1> HIDE DEF keys, node
<1> QED
  BY <1>1, <1>2, <1>3 DEF IsTable

\* Putting an entry in its node keeps the type.
LEMMA PutInNodeTyped ==
  ASSUME NEW V, NEW t, IsTable(t, V), NEW k \in Keys, NEW v \in V
  PROVE  IsTable(PutInNode(t, k, v), V)
<1> DEFINE i == Index(t.cap, k)
           node == [j \in DOMAIN t.nodes[i] \cup {k} |-> IF j = k THEN v ELSE t.nodes[i][j]]
           size == IF k \in DOMAIN t.nodes[i] THEN t.size ELSE t.size + 1
           nodes == [t.nodes EXCEPT ![i] = node]
<1>1. i \in 0 .. t.cap - 1 /\ t.cap \in Nat \ {0} /\ t.size \in Nat
  BY IndexInTable DEF IsTable
<1>2. IsNode(t.nodes[i], V)
  BY <1>1 DEF IsTable
<1>3. IsNode(node, V)
  BY <1>2 DEF IsNode
<1>4. PutInNode(t, k, v) =
        [cap |-> t.cap, size |-> size, nodes |-> nodes]
  BY DEF PutInNode
<1>5. /\ nodes = [n \in 0 .. t.cap - 1 |-> nodes[n]]
      /\ \A n \in 0 .. t.cap - 1 : nodes[n] = IF n = i THEN node ELSE t.nodes[n]
  BY <1>1 DEF IsTable
<1>6. \A n \in 0 .. t.cap - 1 : IsNode(nodes[n], V)
  BY <1>3, <1>5 DEF IsTable
<1>7. size \in Nat
  BY <1>1
<1> HIDE DEF i, node, nodes, size
<1> QED
  BY <1>1, <1>4, <1>5, <1>6, <1>7, MadeTable

\* A put keeps the type, whether or not it grows the table first.
LEMMA TablePutTyped ==
  ASSUME NEW V, NEW t, IsTable(t, V), NEW k \in Keys, NEW v \in V
  PROVE  IsTable(TablePut(t, k, v), V)
<1>1. GrownCapacity(t.cap) \in Nat \ {0}
  BY TableAssumption DEF IsTable, GrownCapacity
<1>2. IsTable(ChangeCapacity(t, GrownCapacity(t.cap)), V)
  BY <1>1, ChangeCapacityTyped
<1> QED
  BY <1>2, PutInNodeTyped DEF TablePut

-----------------------------------------------------------------------------
\* Moving the entries to another capacity keeps every key's entry.
LEMMA ChangeCapacityKeeps ==
  ASSUME NEW V, NEW t, IsTable(t, V), NEW cap \in Nat \ {0}, NEW j \in Keys
  PROVE  /\ Stored(ChangeCapacity(t, cap), j) <=> Stored(t, j)
         /\ Stored(t, j) => StoredAt(ChangeCapacity(t, cap), j) = StoredAt(t, j)
<1> DEFINE keys == {k \in Keys : Stored(t, k)}
           node(i) == [k \in {l \in keys : Index(cap, l) = i} |-> StoredAt(t, k)]
           u == ChangeCapacity(t, cap)
<1>1. u.cap = cap /\ u.nodes = [i \in 0 .. cap - 1 |-> node(i)]
  BY DEF ChangeCapacity
<1>2. Index(cap, j) \in 0 .. cap - 1
  BY IndexInTable
<1> HIDE DEF u
<1>3. NodeOf(u, j) = node(Index(cap, j))
  BY <1>1, <1>2 DEF NodeOf
<1>4. Stored(u, j) <=> Stored(t, j)
  BY <1>3 DEF Stored
<1>5. Stored(t, j) => StoredAt(u, j) = StoredAt(t, j)
  BY <1>3 DEF StoredAt
<1> QED
  BY <1>4, <1>5 DEF u

\* Putting k in its node gives k the value and keeps every other key's entry.
LEMMA PutInNodeKeeps ==
  ASSUME NEW V, NEW t, IsTable(t, V), NEW k \in Keys, NEW v, NEW j \in Keys
  PROVE  /\ Stored(PutInNode(t, k, v), j) <=> Stored(t, j) \/ j = k
         /\ StoredAt(PutInNode(t, k, v), k) = v
         /\ j # k /\ Stored(t, j) => StoredAt(PutInNode(t, k, v), j) = StoredAt(t, j)
<1> DEFINE i == Index(t.cap, k)
           node == [l \in DOMAIN t.nodes[i] \cup {k} |-> IF l = k THEN v ELSE t.nodes[i][l]]
           u == PutInNode(t, k, v)
<1>1. u.cap = t.cap /\ u.nodes = [t.nodes EXCEPT ![i] = node]
  BY DEF PutInNode
<1>2. i \in DOMAIN t.nodes /\ Index(t.cap, j) \in DOMAIN t.nodes
  BY IndexInTable DEF IsTable
<1> HIDE DEF u
<1>3. NodeOf(u, j) = IF Index(t.cap, j) = i THEN node ELSE NodeOf(t, j)
  BY <1>1, <1>2 DEF NodeOf
<1>4. NodeOf(u, k) = node
  BY <1>1, <1>2 DEF NodeOf
<1>5. Stored(u, j) <=> Stored(t, j) \/ j = k
  BY <1>3, <1>4 DEF Stored, NodeOf
<1>6. StoredAt(u, k) = v
  BY <1>4 DEF StoredAt
<1>7. j # k /\ Stored(t, j) => StoredAt(u, j) = StoredAt(t, j)
  BY <1>3 DEF Stored, StoredAt, NodeOf
<1> QED
  BY <1>5, <1>6, <1>7 DEF u

(***************************************************************************)
(* A put of k, rehash included, keeps the entry of every other key, and    *)
(* brings no key into the table but k.                                     *)
(***************************************************************************)
LEMMA TablePutKeeps ==
  ASSUME NEW V, NEW t, IsTable(t, V), NEW k \in Keys, NEW v, NEW j \in Keys
  PROVE  /\ Stored(TablePut(t, k, v), j) <=> Stored(t, j) \/ j = k
         /\ StoredAt(TablePut(t, k, v), k) = v
         /\ j # k /\ Stored(t, j) => StoredAt(TablePut(t, k, v), j) = StoredAt(t, j)
<1> DEFINE cap == GrownCapacity(t.cap)
           u == IF Overloaded(t) THEN ChangeCapacity(t, cap) ELSE t
<1>1. cap \in Nat \ {0}
  BY TableAssumption DEF IsTable, GrownCapacity
<1> HIDE DEF cap
<1>2. IsTable(u, V)
  BY <1>1, ChangeCapacityTyped
<1>3. /\ Stored(u, j) <=> Stored(t, j)
      /\ Stored(t, j) => StoredAt(u, j) = StoredAt(t, j)
  BY <1>1, ChangeCapacityKeeps
<1>4. TablePut(t, k, v) = PutInNode(u, k, v)
  BY DEF TablePut, cap
<1> HIDE DEF u
<1> QED
  BY <1>2, <1>3, <1>4, PutInNodeKeeps
=============================================================================
