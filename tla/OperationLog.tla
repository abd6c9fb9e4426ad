----------------------------- MODULE OperationLog -----------------------------
(***************************************************************************)
(* The operation log of DEFFER_DUMP as it is laid out in memory (logger.c):*)
(* a linked list whose nodes are kept and overwritten after a dump, a      *)
(* cursor, a counter, and the running size of the transaction that a dump  *)
(* builds in one buffer (work_with_db.c, sync_with_db).                    *)
(*                                                                         *)
(* Nodes are linked in the order of their allocation and never freed, so   *)
(* the list is a sequence, a pointer to a node is its index and NULL is 0. *)
(***************************************************************************)
EXTENDS Naturals, Sequences

CONSTANTS
  Keys,
  Values,
  NoValue,    \* what a node's value array holds before anything is written to it
  Size,       \* strlen of every key and value
  TABLE_SIZE, \* strlen(get_cur_table_name())
  MAX_COUNT_OPERATION

ASSUME LogAssumption ==
  /\ Size \in [Keys \cup Values -> Nat]
  /\ TABLE_SIZE \in Nat
  /\ MAX_COUNT_OPERATION \in Nat \ {0}

VARIABLES
  nodes,               \* the list, from first_op on
  cur_op,
  sum_size_operation,
  count_operation,
  given,               \* history: the operation add_log was called with, if it was
  sent                 \* the last batch PostgreSQL has carried out

vars == <<nodes, cur_op, sum_size_operation, count_operation, given, sent>>

UPDATE_REQV_SIZE == 21
DELETE_REQV_SIZE == 30
BEGIN_REQV_SIZE == 6
COMMIT_REQV_SIZE == 7

SetOp(k, v) == [op_name |-> "SET", key |-> k, value |-> v]
DelOp(k) == [op_name |-> "DEL", key |-> k]
Operations == {SetOp(k, v) : k \in Keys, v \in Values} \cup {DelOp(k) : k \in Keys}

Nodes == [op_name : {"SET", "DEL"}, key : Keys, value : Values \cup {NoValue}, value_size : Nat]

TypeOK ==
  /\ nodes \in Seq(Nodes)
  /\ cur_op \in 0 .. Len(nodes)
  /\ sum_size_operation \in Nat
  /\ count_operation \in 0 .. Len(nodes)
  /\ count_operation < MAX_COUNT_OPERATION
  /\ given \in {<<>>} \cup {<<op>> : op \in Operations}
  /\ sent \in Seq(Operations)

-----------------------------------------------------------------------------

\* The statement that add_op_in_transaction makes of a node: the value array of
\* a DEL is left over from an earlier use and is not looked at.
Statement(node) ==
  IF node.op_name = "SET" THEN SetOp(node.key, node.value) ELSE DelOp(node.key)

\* sync_with_db walks count_operation nodes from the first.
Batch(list, count) == [i \in 1 .. count |-> Statement(list[i])]

\* strlen of the statement that snprintf writes.
StatementSize(op) ==
  TABLE_SIZE + Size[op.key]
    + (IF op.op_name = "SET" THEN 21 + Size[op.value] ELSE 30)

\* init_transaction: the size of the buffer, its final 0 included.
full_transaction_size(sum_size) == sum_size + BEGIN_REQV_SIZE + COMMIT_REQV_SIZE + 1

\* The bytes that add_set and add_del copy, and compare with what snprintf wrote.
ReqvSize(node) ==
  TABLE_SIZE + Size[node.key] + node.value_size
    + (IF node.op_name = "SET" THEN UPDATE_REQV_SIZE ELSE DELETE_REQV_SIZE)

\* Faulty form: the size of the last value stays.
Filled_keeps_size(node, op) ==
  [op_name |-> op.op_name,
   key |-> op.key,
   value |-> IF op.op_name = "SET" THEN op.value ELSE node.value,
   value_size |-> IF op.op_name = "SET" THEN Size[op.value] ELSE node.value_size]

\* A node after its fields are written; node is what it held before.
Filled(node, op) ==
  [op_name |-> op.op_name,
   key |-> op.key,
   value |-> IF op.op_name = "SET" THEN op.value ELSE node.value,
   value_size |-> IF op.op_name = "SET" THEN Size[op.value] ELSE 0]

\* A new node; its key and its operation are overwritten at once.
Fresh(op) == [op_name |-> op.op_name, key |-> op.key, value |-> NoValue, value_size |-> 0]

\* Faulty form: it is not asked whether the log was cleared.
NextNode_always_next == cur_op + 1

\* The node for an operation: the first one, the one behind the cursor or, after
\* a dump, the one at the cursor. It is allocated if the list ends before it.
NextNode ==
  IF cur_op = 0 THEN 1
  ELSE IF sum_size_operation # 0 THEN cur_op + 1
  ELSE cur_op

NodesWith(op) ==
  IF NextNode > Len(nodes)
    THEN Append(nodes, Filled(Fresh(op), op))
    ELSE [nodes EXCEPT ![NextNode] = Filled(@, op)]

SizeWith(op) == sum_size_operation + ReqvSize(NodesWith(op)[NextNode])

\* Faulty form: the cursor stays where it is.
clear_log_keeps_cursor(list) ==
  /\ nodes' = list
  /\ cur_op' = IF cur_op = 0 THEN 1 ELSE cur_op
  /\ sum_size_operation' = 0
  /\ count_operation' = 0

\* The nodes are kept for the next operations.
clear_log(list) ==
  /\ nodes' = list
  /\ cur_op' = 1
  /\ sum_size_operation' = 0
  /\ count_operation' = 0

\* Faulty form: dumps one operation too late.
FillsLog_late == count_operation = MAX_COUNT_OPERATION

FillsLog == count_operation + 1 = MAX_COUNT_OPERATION

\* The operation that fills the log makes it dump everything (sync_with_db).
add_log(op) ==
  /\ given' = <<op>>
  /\ \/ /\ ~FillsLog
        /\ nodes' = NodesWith(op)
        /\ cur_op' = NextNode
        /\ sum_size_operation' = SizeWith(op)
        /\ count_operation' = count_operation + 1
        /\ UNCHANGED sent
     \/ /\ FillsLog
        /\ sent' = Batch(NodesWith(op), count_operation + 1)
        /\ clear_log(NodesWith(op))

\* The dump of the timer.
sync_with_db ==
  /\ given' = <<>>
  /\ nodes # <<>>
  /\ sum_size_operation # 0
  /\ sent' = Batch(nodes, count_operation)
  /\ clear_log(nodes)

\* The worker ends, in a dump or elsewhere, and a new one calls init_logger.
init_logger ==
  /\ given' = <<>>
  /\ nodes' = <<>>
  /\ cur_op' = 0
  /\ sum_size_operation' = 0
  /\ count_operation' = 0
  /\ \/ sent' \in {sent, Batch(nodes, count_operation)}
     \/ /\ FillsLog
        /\ \E op \in Operations : sent' = Append(Batch(nodes, count_operation), op)

-----------------------------------------------------------------------------

Init ==
  /\ given = <<>>
  /\ nodes = <<>>
  /\ cur_op = 0
  /\ sum_size_operation = 0
  /\ count_operation = 0
  /\ sent = <<>>

Next ==
  \/ \E op \in Operations : add_log(op)
  \/ sync_with_db
  \/ init_logger

Spec == Init /\ [][Next]_vars

-----------------------------------------------------------------------------

\* The cursor stands on the last operation logged, or on the first node when
\* there is none; the size that is 0 is how add_log tells the two apart.
CursorFollowsCount ==
  /\ count_operation = 0 => cur_op = IF nodes = <<>> THEN 0 ELSE 1
  /\ count_operation # 0 => cur_op = count_operation
  /\ sum_size_operation = 0 <=> count_operation = 0

\* The text of the statements of a batch.
TextSize(batch) ==
  LET size[n \in 0 .. Len(batch)] ==
        IF n = 0 THEN 0 ELSE size[n - 1] + StatementSize(batch[n])
  IN  size[Len(batch)]

\* A batch of count nodes fills the buffer that is sized from sum_size to the last
\* byte: BEGIN, the statements, COMMIT and the final 0.
Fits(list, count, sum_size) ==
  /\ 6 + TextSize(Batch(list, count)) + 7 + 1 = full_transaction_size(sum_size)
  /\ \A i \in 1 .. count : ReqvSize(list[i]) = StatementSize(Statement(list[i]))

\* Nothing is written past the buffer that init_transaction allocates and no
\* garbage is sent, whatever the nodes held before: neither by the dump of the
\* timer nor by that of an add_log which fills the log.
TransactionFits ==
  /\ Fits(nodes, count_operation, sum_size_operation)
  /\ FillsLog => \A op \in Operations :
       Fits(NodesWith(op), count_operation + 1, SizeWith(op))

\* The list is a queue that is sent in batches.
Queue == INSTANCE BatchQueue WITH queue <- Batch(nodes, count_operation)

ImplementsBatchQueue == Queue!Spec
=============================================================================
