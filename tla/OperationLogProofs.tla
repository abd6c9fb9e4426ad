-------------------------- MODULE OperationLogProofs --------------------------
(***************************************************************************)
(* The list of logger.c, with its reused nodes, is a queue: proved for all *)
(* keys, values, lengths and bounds.                                       *)
(***************************************************************************)
EXTENDS OperationLog, RecursionProofs

-----------------------------------------------------------------------------
(***************************************************************************)
(* Nodes.                                                                  *)
(***************************************************************************)

\* An operation is of one of two kinds.
LEMMA OperationKinds ==
  ASSUME NEW op \in Operations
  PROVE  \/ \E k \in Keys, v \in Values : op = SetOp(k, v)
         \/ \E k \in Keys : op = DelOp(k)
BY DEF Operations

\* Whatever a node held before, filling it makes it stand for the operation.
LEMMA FilledNode ==
  ASSUME NEW op \in Operations, NEW node \in Nodes
  PROVE  /\ Filled(node, op) \in Nodes
         /\ Statement(Filled(node, op)) = op
<1>1. ASSUME NEW k \in Keys, NEW v \in Values, op = SetOp(k, v)
      PROVE  /\ Filled(node, op) \in Nodes
             /\ Statement(Filled(node, op)) = op
  <2>1. Size[v] \in Nat
    BY LogAssumption
  <2>2. Filled(node, op) = [op_name |-> "SET", key |-> k, value |-> v, value_size |-> Size[v]]
    BY <1>1 DEF Filled, SetOp
  <2> QED
    BY <1>1, <2>1, <2>2 DEF Nodes, Statement
<1>2. ASSUME NEW k \in Keys, op = DelOp(k)
      PROVE  /\ Filled(node, op) \in Nodes
             /\ Statement(Filled(node, op)) = op
  <2>1. node.value \in Values \cup {NoValue}
    BY DEF Nodes
  <2>2. Filled(node, op) = [op_name |-> "DEL", key |-> k, value |-> node.value, value_size |-> 0]
    BY <1>2 DEF Filled, DelOp
  <2> QED
    BY <1>2, <2>1, <2>2 DEF Nodes, Statement
<1> QED
  BY <1>1, <1>2, OperationKinds

\* A newly allocated node is a node.
LEMMA FreshNode ==
  ASSUME NEW op \in Operations
  PROVE  Fresh(op) \in Nodes
<1>1. op.op_name \in {"SET", "DEL"} /\ op.key \in Keys
  BY DEF Operations, SetOp, DelOp
<1> QED
  BY <1>1 DEF Fresh, Nodes

\* A logged operation needs room in the transaction: the size cannot stay 0.
LEMMA ReqvSizePositive ==
  ASSUME NEW node \in Nodes
  PROVE  ReqvSize(node) \in Nat /\ ReqvSize(node) # 0
<1>1. /\ Size[node.key] \in Nat
      /\ node.value_size \in Nat
      /\ TABLE_SIZE \in Nat
  BY LogAssumption DEF Nodes
<1> QED
  BY <1>1 DEF ReqvSize, UPDATE_REQV_SIZE, DELETE_REQV_SIZE

\* A node of the list stands for an operation once it has been filled by one;
\* what matters here is that batches are sequences of the length of the count.
LEMMA BatchLength ==
  ASSUME NEW list, NEW n \in Nat
  PROVE  /\ DOMAIN Batch(list, n) = 1 .. n
         /\ Len(Batch(list, n)) = n
         /\ Batch(list, n) = <<>> <=> n = 0
<1>1. DOMAIN Batch(list, n) = 1 .. n
  BY DEF Batch
<1>2. Batch(list, n) \in Seq({Statement(list[i]) : i \in 1 .. n})
  BY DEF Batch
<1>3. Len(Batch(list, n)) = n
  BY <1>1, <1>2
<1> QED
  BY <1>1, <1>2, <1>3

-----------------------------------------------------------------------------
(***************************************************************************)
(* The inductive invariant: what the cursor means (CursorFollowsCount), and*)
(* that the nodes that count have been filled. A node that does not count  *)
(* may be fresh, and stand for no operation.                               *)
(***************************************************************************)

IInv ==
  /\ TypeOK
  /\ CursorFollowsCount
  /\ Batch(nodes, count_operation) \in Seq(Operations)

\* The node add_log takes is the one behind those that count.
LEMMA NextNodeIsNext ==
  ASSUME IInv
  PROVE  /\ NextNode = count_operation + 1
         /\ NextNode \in 1 .. Len(nodes) + 1
<1>1. count_operation \in 0 .. Len(nodes) /\ Len(nodes) \in Nat
  BY DEF IInv, TypeOK
<1>2. CASE count_operation = 0
  <2>1. nodes = <<>> <=> Len(nodes) = 0
    BY DEF IInv, TypeOK
  <2> QED
    BY <1>1, <1>2, <2>1 DEF IInv, CursorFollowsCount, NextNode
<1>3. CASE count_operation # 0
  BY <1>1, <1>3 DEF IInv, CursorFollowsCount, NextNode
<1> QED
  BY <1>2, <1>3

\* The list with one more operation: the batch grows by that operation at its
\* end and by nothing else, although older nodes are overwritten.
LEMMA BatchGrows ==
  ASSUME IInv, NEW op \in Operations
  PROVE  /\ NodesWith(op) \in Seq(Nodes)
         /\ Len(NodesWith(op)) \in Nat
         /\ count_operation + 1 \in 1 .. Len(NodesWith(op))
         /\ Batch(NodesWith(op), count_operation + 1)
              = Append(Batch(nodes, count_operation), op)
         /\ Batch(NodesWith(op), count_operation + 1) \in Seq(Operations)
<1> DEFINE n == count_operation + 1
           list == NodesWith(op)
           batch == Batch(nodes, count_operation)
<1>1. /\ nodes \in Seq(Nodes)
      /\ Len(nodes) \in Nat
      /\ DOMAIN nodes = 1 .. Len(nodes)
      /\ count_operation \in 0 .. Len(nodes)
      /\ NextNode = n
      /\ n \in 1 .. Len(nodes) + 1
  BY NextNodeIsNext DEF IInv, TypeOK
<1>2. /\ list \in Seq(Nodes)
      /\ Len(list) \in Nat
      /\ n \in 1 .. Len(list)
      /\ Statement(list[n]) = op
      /\ \A i \in 1 .. count_operation : list[i] = nodes[i]
  <2>1. CASE n > Len(nodes)
    <3> DEFINE node == Filled(Fresh(op), op)
    <3>1. node \in Nodes /\ Statement(node) = op
      BY FreshNode, FilledNode
    <3>2. list = Append(nodes, node)
      BY <1>1, <2>1 DEF NodesWith
    <3> HIDE DEF list, node
    <3>3. n = Len(nodes) + 1
      BY <1>1, <2>1
    <3> QED
      BY <1>1, <3>1, <3>2, <3>3
  <2>2. CASE ~(n > Len(nodes))
    <3> DEFINE node == Filled(nodes[n], op)
    <3>1. n \in 1 .. Len(nodes)
      BY <1>1, <2>2
    <3>2. nodes[n] \in Nodes
      BY <1>1, <3>1
    <3>3. node \in Nodes /\ Statement(node) = op
      BY <3>2, FilledNode
    <3>4. list = [nodes EXCEPT ![n] = node]
      BY <1>1, <2>2 DEF NodesWith
    <3> HIDE DEF list, node
    <3> QED
      BY <1>1, <3>1, <3>3, <3>4
  <2> QED
    BY <2>1, <2>2
<1> HIDE DEF list
<1>3. /\ batch \in Seq(Operations)
      /\ Len(batch) = count_operation
  BY <1>1, BatchLength DEF IInv
<1>4. /\ Append(batch, op) \in Seq(Operations)
      /\ Len(Append(batch, op)) = n
      /\ DOMAIN Append(batch, op) = 1 .. n
      /\ Append(batch, op)[n] = op
      /\ \A i \in 1 .. count_operation : Append(batch, op)[i] = batch[i]
  <2> HIDE DEF batch
  <2> QED
    BY <1>1, <1>3
<1>5. Batch(list, n) = Append(batch, op)
  <2>1. \A i \in 1 .. count_operation : batch[i] = Statement(nodes[i])
    BY DEF Batch
  <2>2. Batch(list, n) = [i \in 1 .. n |-> Statement(list[i])]
    BY DEF Batch
  <2>3. \A i \in 1 .. n : Statement(list[i]) = Append(batch, op)[i]
    BY <1>1, <1>2, <1>4, <2>1
  <2>4. Append(batch, op) = [i \in 1 .. n |-> Append(batch, op)[i]]
    <3> DEFINE longer == Append(batch, op)
    <3>1. longer \in [1 .. n -> Operations]
      BY <1>4, LenProperties
    <3> HIDE DEF longer, n
    <3>2. longer = [i \in 1 .. n |-> longer[i]]
      BY <3>1
    <3> QED
      BY <3>2 DEF longer
  <2> HIDE DEF batch, n
  <2> QED
    BY <2>2, <2>3, <2>4
<1> QED
  BY <1>2, <1>4, <1>5 DEF list

\* init_logger leaves an empty list.
LEMMA InitInvariant == Init => IInv
<1> SUFFICES ASSUME Init PROVE IInv
  OBVIOUS
<1>1. Batch(nodes, 0) = <<>>
  BY BatchLength
<1>2. TypeOK
  BY LogAssumption DEF Init, TypeOK
<1>3. CursorFollowsCount
  BY DEF Init, CursorFollowsCount
<1>4. Batch(nodes, count_operation) = <<>> /\ <<>> \in Seq(Operations)
  BY <1>1 DEF Init
<1> QED
  BY <1>2, <1>3, <1>4 DEF IInv

\* The state after clear_log.
LEMMA ClearedInvariant ==
  ASSUME IInv, NEW list \in Seq(Nodes), Len(list) # 0, clear_log(list),
         given' \in {<<>>} \cup {<<op>> : op \in Operations},
         sent' \in Seq(Operations)
  PROVE  IInv' /\ Batch(nodes, count_operation)' = <<>>
<1>1. Batch(list, 0) = <<>>
  BY BatchLength
<1>2. TypeOK'
  BY LogAssumption DEF clear_log, TypeOK
<1>3. CursorFollowsCount'
  BY DEF clear_log, CursorFollowsCount
<1>4. Batch(nodes, count_operation)' = <<>>
  BY <1>1 DEF clear_log
<1>5. <<>> \in Seq(Operations)
  OBVIOUS
<1> QED
  BY <1>2, <1>3, <1>4, <1>5 DEF IInv

LEMMA AddPreserves ==
  ASSUME IInv, NEW op \in Operations, add_log(op)
  PROVE  IInv'
<1> DEFINE list == NodesWith(op)
           n == count_operation + 1
<1>1. /\ list \in Seq(Nodes)
      /\ Len(list) \in Nat
      /\ n \in 1 .. Len(list)
      /\ Batch(list, n) \in Seq(Operations)
      /\ NextNode = n
  BY BatchGrows, NextNodeIsNext
<1>2. /\ count_operation \in Nat
      /\ count_operation < MAX_COUNT_OPERATION
      /\ MAX_COUNT_OPERATION \in Nat
      /\ sum_size_operation \in Nat
      /\ given' \in {<<>>} \cup {<<o>> : o \in Operations}
      /\ sent \in Seq(Operations)
  BY LogAssumption DEF IInv, TypeOK, add_log
<1>3. CASE /\ ~FillsLog
           /\ nodes' = list
           /\ cur_op' = NextNode
           /\ sum_size_operation' = SizeWith(op)
           /\ count_operation' = n
           /\ UNCHANGED sent
  <2> DEFINE node == list[n]
  <2>1. node \in Nodes
    BY <1>1
  <2>2. ReqvSize(node) \in Nat /\ ReqvSize(node) # 0
    BY <2>1, ReqvSizePositive
  <2>3. sum_size_operation' = sum_size_operation + ReqvSize(node)
    BY <1>1, <1>3 DEF SizeWith
  <2> HIDE DEF list, node
  <2>4. sum_size_operation' \in Nat /\ sum_size_operation' # 0
    BY <1>2, <2>2, <2>3
  <2>5. count_operation' < MAX_COUNT_OPERATION /\ count_operation' # 0
    BY <1>2, <1>3 DEF FillsLog
  <2>6. TypeOK'
    BY <1>1, <1>2, <1>3, <2>4, <2>5 DEF TypeOK
  <2>7. CursorFollowsCount'
    BY <1>1, <1>3, <2>4, <2>5 DEF CursorFollowsCount
  <2> QED
    BY <1>1, <1>3, <2>6, <2>7 DEF IInv
<1>4. CASE FillsLog /\ sent' = Batch(list, n) /\ clear_log(list)
  BY <1>1, <1>2, <1>4, ClearedInvariant
<1> QED
  BY <1>3, <1>4 DEF add_log

LEMMA SyncPreserves ==
  ASSUME IInv, sync_with_db
  PROVE  IInv'
<1>1. nodes \in Seq(Nodes) /\ Len(nodes) # 0
  BY DEF IInv, TypeOK, sync_with_db
<1> QED
  BY <1>1, ClearedInvariant DEF IInv, sync_with_db

LEMMA RestartPreserves ==
  ASSUME IInv, init_logger
  PROVE  IInv'
<1>1. sent' \in Seq(Operations)
  <2>1. CASE sent' \in {sent, Batch(nodes, count_operation)}
    BY <2>1 DEF IInv, TypeOK
  <2>2. CASE \E op \in Operations : sent' = Append(Batch(nodes, count_operation), op)
    BY <2>2 DEF IInv
  <2> QED
    BY <2>1, <2>2 DEF init_logger
<1>2. Batch(nodes', 0) = <<>>
  BY BatchLength
<1>3. TypeOK'
  BY <1>1, LogAssumption DEF init_logger, TypeOK
<1>4. CursorFollowsCount'
  BY DEF init_logger, CursorFollowsCount
<1>5. Batch(nodes, count_operation)' = <<>> /\ <<>> \in Seq(Operations)
  BY <1>2 DEF init_logger
<1> QED
  BY <1>3, <1>4, <1>5 DEF IInv

LEMMA NextPreserves ==
  IInv /\ [Next]_vars => IInv'
<1> SUFFICES ASSUME IInv, [Next]_vars PROVE IInv'
  OBVIOUS
<1>1. ASSUME NEW op \in Operations, add_log(op) PROVE IInv'
  BY <1>1, AddPreserves
<1>2. CASE sync_with_db
  BY <1>2, SyncPreserves
<1>3. CASE init_logger
  BY <1>3, RestartPreserves
<1>4. CASE UNCHANGED vars
  BY <1>4 DEF vars, IInv, TypeOK, CursorFollowsCount, Batch, Statement
<1> QED
  BY <1>1, <1>2, <1>3, <1>4 DEF Next

\* The log is well-typed, and never holds MAX_COUNT_OPERATION operations.
THEOREM TypeCorrect == Spec => []TypeOK
<1>1. Spec => []IInv
  BY InitInvariant, NextPreserves, PTL DEF Spec
<1>2. IInv => TypeOK
  BY DEF IInv
<1> QED
  BY <1>1, <1>2, PTL

\* add_log's "it is not first operation" (logger.c:53) is right: the size is 0
\* exactly when nothing is logged, and the cursor is where it has to be.
THEOREM CursorIsRight == Spec => []CursorFollowsCount
<1>1. Spec => []IInv
  BY InitInvariant, NextPreserves, PTL DEF Spec
<1>2. IInv => CursorFollowsCount
  BY DEF IInv
<1> QED
  BY <1>1, <1>2, PTL

-----------------------------------------------------------------------------
(***************************************************************************)
(* The size of a transaction. Every node that counts has been filled by its*)
(* operation, the bytes left in it by an older one are not counted, and so *)
(* the sizes that add_log adds up are those of the statements.             *)
(***************************************************************************)

LEMMA StatementSizeType ==
  ASSUME NEW op \in Operations
  PROVE  StatementSize(op) \in Nat
<1>1. ASSUME NEW k \in Keys, NEW v \in Values, op = SetOp(k, v)
      PROVE  StatementSize(op) \in Nat
  <2>1. Size[k] \in Nat /\ Size[v] \in Nat /\ TABLE_SIZE \in Nat
    BY LogAssumption
  <2>2. StatementSize(op) = TABLE_SIZE + Size[k] + (21 + Size[v])
    BY <1>1 DEF StatementSize, SetOp
  <2> QED
    BY <2>1, <2>2
<1>2. ASSUME NEW k \in Keys, op = DelOp(k)
      PROVE  StatementSize(op) \in Nat
  <2>1. Size[k] \in Nat /\ TABLE_SIZE \in Nat
    BY LogAssumption
  <2>2. StatementSize(op) = TABLE_SIZE + Size[k] + 30
    BY <1>2 DEF StatementSize, DelOp
  <2> QED
    BY <2>1, <2>2
<1> QED
  BY <1>1, <1>2, OperationKinds

\* Filling a node makes its size that of the operation.
LEMMA FilledSize ==
  ASSUME NEW op \in Operations, NEW node \in Nodes
  PROVE  ReqvSize(Filled(node, op)) = StatementSize(op)
<1>1. ASSUME NEW k \in Keys, NEW v \in Values, op = SetOp(k, v)
      PROVE  ReqvSize(Filled(node, op)) = StatementSize(op)
  <2>1. Size[k] \in Nat /\ Size[v] \in Nat /\ TABLE_SIZE \in Nat
    BY LogAssumption
  <2>2. Filled(node, op) = [op_name |-> "SET", key |-> k, value |-> v, value_size |-> Size[v]]
    BY <1>1 DEF Filled, SetOp
  <2>3. StatementSize(op) = TABLE_SIZE + Size[k] + (21 + Size[v])
    BY <1>1 DEF StatementSize, SetOp
  <2>4. ReqvSize(Filled(node, op)) = TABLE_SIZE + Size[k] + Size[v] + 21
    BY <2>2 DEF ReqvSize, UPDATE_REQV_SIZE
  <2> QED
    BY <2>1, <2>3, <2>4
<1>2. ASSUME NEW k \in Keys, op = DelOp(k)
      PROVE  ReqvSize(Filled(node, op)) = StatementSize(op)
  <2>1. Size[k] \in Nat /\ TABLE_SIZE \in Nat
    BY LogAssumption
  <2>2. Filled(node, op) = [op_name |-> "DEL", key |-> k, value |-> node.value, value_size |-> 0]
    BY <1>2 DEF Filled, DelOp
  <2>3. StatementSize(op) = TABLE_SIZE + Size[k] + 30
    BY <1>2 DEF StatementSize, DelOp
  <2>4. ReqvSize(Filled(node, op)) = TABLE_SIZE + Size[k] + 0 + 30
    BY <2>2 DEF ReqvSize, DELETE_REQV_SIZE
  <2> QED
    BY <2>1, <2>3, <2>4
<1> QED
  BY <1>1, <1>2, OperationKinds

\* The statements' sizes are summed up.
LEMMA TextSizeIsSum ==
  ASSUME NEW batch \in Seq(Operations)
  PROVE  \E f : /\ IsSums(f, [n \in 1 .. Len(batch) |-> StatementSize(batch[n])], Len(batch))
                /\ TextSize(batch) = f[Len(batch)]
<1> DEFINE w == [n \in 1 .. Len(batch) |-> StatementSize(batch[n])]
           size == CHOOSE size : size = [n \in 0 .. Len(batch) |->
                     IF n = 0 THEN 0 ELSE size[n - 1] + StatementSize(batch[n])]
<1>1. w \in [1 .. Len(batch) -> Nat] /\ Len(batch) \in Nat
  BY StatementSizeType
<1>2. PICK f : /\ IsSums(f, w, Len(batch))
               /\ f = [n \in 0 .. Len(batch) |-> IF n = 0 THEN 0 ELSE f[n - 1] + w[n]]
  <2> HIDE DEF w
  <2> QED
    BY <1>1, SumsExist
<1>3. f = [n \in 0 .. Len(batch) |-> IF n = 0 THEN 0 ELSE f[n - 1] + StatementSize(batch[n])]
  <2>1. \A n \in 0 .. Len(batch) :
          (IF n = 0 THEN 0 ELSE f[n - 1] + w[n])
            = IF n = 0 THEN 0 ELSE f[n - 1] + StatementSize(batch[n])
    BY <1>1
  <2> HIDE DEF w
  <2> QED
    BY <1>2, <2>1
<1>4. size = [n \in 0 .. Len(batch) |-> IF n = 0 THEN 0 ELSE size[n - 1] + StatementSize(batch[n])]
  BY <1>3, Zenon
<1>5. TextSize(batch) = size[Len(batch)]
  BY DEF TextSize
<1> HIDE DEF size
<1>6. \A n \in 0 .. Len(batch) :
        size[n] = IF n = 0 THEN 0 ELSE size[n - 1] + StatementSize(batch[n])
  BY <1>4
<1>7. \A n \in 1 .. Len(batch) : n \in 0 .. Len(batch) /\ n # 0
  OBVIOUS
<1>8. IsSums(size, w, Len(batch))
  BY <1>1, <1>6, <1>7 DEF IsSums
<1> QED
  BY <1>5, <1>8

\* One statement more.
LEMMA TextSizeGrows ==
  ASSUME NEW batch \in Seq(Operations), NEW op \in Operations
  PROVE  TextSize(Append(batch, op)) = TextSize(batch) + StatementSize(op)
<1> DEFINE longer == Append(batch, op)
           len == Len(batch)
           v == [n \in 1 .. len |-> StatementSize(batch[n])]
           w == [n \in 1 .. len + 1 |-> StatementSize(longer[n])]
<1>1. /\ len \in Nat
      /\ longer \in Seq(Operations)
      /\ Len(longer) = len + 1
      /\ longer[len + 1] = op
      /\ \A n \in 1 .. len : longer[n] = batch[n]
  OBVIOUS
<1> HIDE DEF longer
<1>2. PICK f : IsSums(f, v, len) /\ TextSize(batch) = f[len]
  BY TextSizeIsSum
<1>3. PICK g : IsSums(g, w, len + 1) /\ TextSize(longer) = g[len + 1]
  BY <1>1, TextSizeIsSum
<1>4. \A n \in 1 .. len : v[n] = w[n]
  BY <1>1
<1>5. w[len + 1] = StatementSize(op)
  BY <1>1
<1> HIDE DEF len, v, w
<1>6. f[len] = g[len]
  BY <1>1, <1>2, <1>3, <1>4, SumsAgree
<1>7. g[len + 1] = g[len] + w[len + 1]
  BY <1>1, <1>3 DEF IsSums
<1> QED
  BY <1>2, <1>3, <1>5, <1>6, <1>7 DEF longer

LEMMA TextSizeOfNone == TextSize(<<>>) = 0
<1>1. <<>> \in Seq(Operations) /\ Len(<<>>) = 0
  OBVIOUS
<1>2. \E f : f[0] = 0 /\ TextSize(<<>>) = f[Len(<<>>)]
  BY <1>1, TextSizeIsSum DEF IsSums
<1> QED
  BY <1>1, <1>2

\* The sizes of the batch and of its nodes.
SizesAddUp ==
  /\ sum_size_operation = TextSize(Batch(nodes, count_operation))
  /\ \A i \in 1 .. count_operation :
       ReqvSize(nodes[i]) = StatementSize(Statement(nodes[i]))

\* The nodes before the one that is filled are left alone.
LEMMA SizesOfNodes ==
  ASSUME IInv, NEW op \in Operations
  PROVE  /\ \A i \in 1 .. count_operation : NodesWith(op)[i] = nodes[i]
         /\ Statement(NodesWith(op)[count_operation + 1]) = op
         /\ ReqvSize(NodesWith(op)[count_operation + 1]) = StatementSize(op)
<1> DEFINE n == count_operation + 1
           list == NodesWith(op)
<1>1. /\ nodes \in Seq(Nodes)
      /\ Len(nodes) \in Nat
      /\ DOMAIN nodes = 1 .. Len(nodes)
      /\ count_operation \in 0 .. Len(nodes)
      /\ NextNode = n
      /\ n \in 1 .. Len(nodes) + 1
  BY NextNodeIsNext DEF IInv, TypeOK
<1>2. CASE n > Len(nodes)
  <2> DEFINE node == Filled(Fresh(op), op)
  <2>1. node \in Nodes /\ Statement(node) = op /\ ReqvSize(node) = StatementSize(op)
    BY FreshNode, FilledNode, FilledSize
  <2>2. list = Append(nodes, node)
    BY <1>1, <1>2 DEF NodesWith
  <2> HIDE DEF list, node
  <2>3. n = Len(nodes) + 1
    BY <1>1, <1>2
  <2>4. list[n] = node /\ \A i \in 1 .. count_operation : list[i] = nodes[i]
    BY <1>1, <2>1, <2>2, <2>3
  <2> QED
    BY <2>1, <2>4 DEF list
<1>3. CASE ~(n > Len(nodes))
  <2> DEFINE node == Filled(nodes[n], op)
  <2>1. n \in 1 .. Len(nodes)
    BY <1>1, <1>3
  <2>2. nodes[n] \in Nodes
    BY <1>1, <2>1
  <2>3. node \in Nodes /\ Statement(node) = op /\ ReqvSize(node) = StatementSize(op)
    BY <2>2, FilledNode, FilledSize
  <2>4. list = [nodes EXCEPT ![n] = node]
    BY <1>1, <1>3 DEF NodesWith
  <2> HIDE DEF list, node
  <2>5. list[n] = node /\ \A i \in 1 .. count_operation : list[i] = nodes[i]
    BY <1>1, <2>1, <2>4
  <2> QED
    BY <2>3, <2>5 DEF list
<1> QED
  BY <1>2, <1>3

LEMMA SizesOfNone ==
  ASSUME NEW list, clear_log(list) \/ init_logger
  PROVE  SizesAddUp'
<1>1. sum_size_operation' = 0 /\ count_operation' = 0
  BY DEF clear_log, init_logger
<1>2. Batch(nodes', 0) = <<>>
  BY BatchLength
<1> QED
  BY <1>1, <1>2, TextSizeOfNone DEF SizesAddUp

\* With one more operation too, the one that fills the log among them.
LEMMA SizesGrow ==
  ASSUME IInv, SizesAddUp, NEW op \in Operations
  PROVE  /\ SizeWith(op) = TextSize(Batch(NodesWith(op), count_operation + 1))
         /\ \A i \in 1 .. count_operation + 1 :
              ReqvSize(NodesWith(op)[i]) = StatementSize(Statement(NodesWith(op)[i]))
<1> DEFINE list == NodesWith(op)
           n == count_operation + 1
           batch == Batch(nodes, count_operation)
<1>1. batch \in Seq(Operations) /\ Batch(list, n) = Append(batch, op) /\ NextNode = n
  BY BatchGrows, NextNodeIsNext DEF IInv
<1>2. TextSize(Batch(list, n)) = TextSize(batch) + StatementSize(op)
  <2>1. Batch(list, n) = Append(batch, op)
    BY <1>1
  <2> HIDE DEF batch, list, n
  <2> QED
    BY <1>1, <2>1, TextSizeGrows
<1>3. ReqvSize(list[NextNode]) = StatementSize(op)
  BY <1>1, SizesOfNodes
<1>4. ASSUME NEW i \in 1 .. n
      PROVE  ReqvSize(list[i]) = StatementSize(Statement(list[i]))
  <2>1. i \in 1 .. count_operation \/ i = n
    BY DEF IInv, TypeOK
  <2> QED
    BY <2>1, SizesOfNodes DEF SizesAddUp
<1> QED
  BY <1>2, <1>3, <1>4 DEF SizeWith, SizesAddUp

LEMMA SizesPreserved ==
  ASSUME IInv, SizesAddUp, [Next]_vars
  PROVE  SizesAddUp'
<1>1. ASSUME NEW op \in Operations, add_log(op)
      PROVE  SizesAddUp'
  <2>1. CASE /\ nodes' = NodesWith(op)
             /\ sum_size_operation' = SizeWith(op)
             /\ count_operation' = count_operation + 1
    BY <2>1, SizesGrow DEF SizesAddUp
  <2>2. CASE clear_log(NodesWith(op))
    BY <2>2, SizesOfNone
  <2> QED
    BY <1>1, <2>1, <2>2 DEF add_log
<1>2. CASE sync_with_db
  BY <1>2, SizesOfNone DEF sync_with_db
<1>3. CASE init_logger
  BY <1>3, SizesOfNone
<1>4. CASE UNCHANGED vars
  BY <1>4 DEF vars, SizesAddUp
<1> QED
  BY <1>1, <1>2, <1>3, <1>4 DEF Next

\* The size of the buffer.
LEMMA BufferSize ==
  ASSUME NEW size \in Nat
  PROVE  6 + size + 7 + 1 = full_transaction_size(size)
BY DEF full_transaction_size, BEGIN_REQV_SIZE, COMMIT_REQV_SIZE

\* The buffer of a transaction is filled to its last byte, and nothing is
\* written past it: the sizes that add_log sums up are those of the statements,
\* whatever the nodes held before, and the operation that fills the log is
\* counted like the others (init_transaction, add_set, add_del).
THEOREM TransactionIsFilled == Spec => []TransactionFits
<1>1. Init => SizesAddUp
  <2>1. Batch(nodes, 0) = <<>>
    BY BatchLength
  <2> QED
    BY <2>1, TextSizeOfNone DEF Init, SizesAddUp
<1>2. IInv /\ SizesAddUp => TransactionFits
  <2> SUFFICES ASSUME IInv, SizesAddUp PROVE TransactionFits
    OBVIOUS
  <2>1. Fits(nodes, count_operation, sum_size_operation)
    <3>1. sum_size_operation \in Nat
      BY DEF IInv, TypeOK
    <3>2. 6 + sum_size_operation + 7 + 1 = full_transaction_size(sum_size_operation)
      BY <3>1, BufferSize
    <3> QED
      BY <3>2 DEF SizesAddUp, Fits
  <2>2. ASSUME NEW op \in Operations
        PROVE  Fits(NodesWith(op), count_operation + 1, SizeWith(op))
    <3>1. SizeWith(op) \in Nat
      <4>1. NodesWith(op)[NextNode] \in Nodes
        BY BatchGrows, NextNodeIsNext DEF IInv
      <4>2. ReqvSize(NodesWith(op)[NextNode]) \in Nat
        BY <4>1, ReqvSizePositive
      <4> QED
        BY <4>2 DEF SizeWith, IInv, TypeOK
    <3>2. 6 + SizeWith(op) + 7 + 1 = full_transaction_size(SizeWith(op))
      BY <3>1, BufferSize
    <3> QED
      BY <3>2, SizesGrow DEF Fits
  <2> QED
    BY <2>1, <2>2 DEF TransactionFits
<1>3. IInv /\ SizesAddUp /\ [Next]_vars => IInv' /\ SizesAddUp'
  BY NextPreserves, SizesPreserved
<1> QED
  BY InitInvariant, <1>1, <1>2, <1>3, PTL DEF Spec

-----------------------------------------------------------------------------
(***************************************************************************)
(* Refinement.                                                             *)
(***************************************************************************)

\* Every step of the list is a step of the queue.
LEMMA StepSimulation ==
  ASSUME IInv, [Next]_vars
  PROVE  [Queue!Next]_(Queue!vars)
<1> DEFINE queue == Batch(nodes, count_operation)
<1>1. /\ count_operation \in Nat
      /\ Len(queue) = count_operation
      /\ queue = <<>> <=> count_operation = 0
      /\ count_operation < MAX_COUNT_OPERATION
      /\ MAX_COUNT_OPERATION \in Nat
  BY BatchLength, LogAssumption DEF IInv, TypeOK
<1>2. \A list : Batch(list, 0) = <<>>
  BY BatchLength
<1>3. ASSUME NEW op \in Operations, add_log(op)
      PROVE  Queue!Add(op)
  <2>1. Batch(NodesWith(op), count_operation + 1) = Append(queue, op)
    BY BatchGrows
  <2>2. CASE /\ ~FillsLog
             /\ nodes' = NodesWith(op)
             /\ count_operation' = count_operation + 1
             /\ UNCHANGED sent
    <3>1. Len(queue) + 1 < MAX_COUNT_OPERATION
      BY <1>1, <2>2 DEF FillsLog
    <3>2. queue' = Append(queue, op)
      BY <2>1, <2>2
    <3> QED
      BY <1>3, <2>2, <3>1, <3>2 DEF add_log, Queue!Add
  <2>3. CASE /\ FillsLog
             /\ sent' = Batch(NodesWith(op), count_operation + 1)
             /\ clear_log(NodesWith(op))
    <3>1. Len(queue) + 1 = MAX_COUNT_OPERATION
      BY <1>1, <2>3 DEF FillsLog
    <3>2. queue' = <<>>
      BY <1>2, <2>3 DEF clear_log
    <3> QED
      BY <1>3, <2>1, <2>3, <3>1, <3>2 DEF add_log, Queue!Add
  <2> QED
    BY <1>3, <2>2, <2>3 DEF add_log
<1>4. CASE sync_with_db
  <2>1. queue # <<>>
    BY <1>1, <1>4 DEF sync_with_db, IInv, CursorFollowsCount
  <2>2. queue' = <<>>
    BY <1>2, <1>4 DEF sync_with_db, clear_log
  <2> QED
    BY <1>4, <2>1, <2>2 DEF sync_with_db, Queue!Flush, Queue!Next
<1>5. CASE init_logger
  <2>1. queue' = <<>>
    BY <1>2, <1>5 DEF init_logger
  <2>2. \/ sent' \in {sent, queue}
        \/ \E op \in Operations : sent' = Append(queue, op)
    BY <1>5 DEF init_logger
  <2> QED
    BY <1>5, <2>1, <2>2 DEF init_logger, Queue!Lose, Queue!Next
<1>6. CASE UNCHANGED vars
  BY <1>6 DEF vars, Queue!vars, Batch, Statement
<1> QED
  BY <1>3, <1>4, <1>5, <1>6 DEF Next, Queue!Next

\* The linked list with its reused nodes sends what a queue would send: every
\* operation once, in order, none of an earlier batch (add_log, clear_log,
\* sync_with_db).
THEOREM LogIsAQueue == Spec => ImplementsBatchQueue
<1>1. Init => Queue!Init
  BY BatchLength DEF Init, Queue!Init
<1>2. IInv /\ [Next]_vars => [Queue!Next]_(Queue!vars)
  BY StepSimulation
<1>3. Spec => []IInv
  BY InitInvariant, NextPreserves, PTL DEF Spec
<1> QED
  BY <1>1, <1>2, <1>3, PTL DEF Spec, ImplementsBatchQueue, Queue!Spec
=============================================================================
