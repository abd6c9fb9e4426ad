------------------------------ MODULE BatchQueue ------------------------------
(***************************************************************************)
(* What the operation log of DEFFER_DUMP promises: a queue whose contents  *)
(* go to PostgreSQL as one batch, complete and in order, at the latest when*)
(* MAX_COUNT_OPERATION operations have come together.                      *)
(*                                                                         *)
(* It is the specification that OperationLog implements, and the log of    *)
(* CacheStore; it models no code.                                          *)
(***************************************************************************)
EXTENDS Naturals, Sequences

CONSTANTS
  Operations,
  MAX_COUNT_OPERATION

VARIABLES
  given,  \* what the last step was given to keep: <<op>>, or nothing
  queue,  \* the operations that wait, oldest first
  sent    \* the last batch PostgreSQL has carried out

vars == <<given, queue, sent>>

Init ==
  /\ given = <<>>
  /\ queue = <<>>
  /\ sent = <<>>

Add(op) ==
  /\ given' = <<op>>
  /\ \/ /\ Len(queue) + 1 < MAX_COUNT_OPERATION
        /\ queue' = Append(queue, op)
        /\ UNCHANGED sent
     \/ /\ Len(queue) + 1 = MAX_COUNT_OPERATION
        /\ queue' = <<>>
        /\ sent' = Append(queue, op)

Flush ==
  /\ given' = <<>>
  /\ queue # <<>>
  /\ queue' = <<>>
  /\ sent' = queue

\* The queue is lost; the batch under way may have been carried out.
Lose ==
  /\ given' = <<>>
  /\ queue' = <<>>
  /\ \/ sent' \in {sent, queue}
     \/ \E op \in Operations : sent' = Append(queue, op)

Next ==
  \/ \E op \in Operations : Add(op)
  \/ Flush
  \/ Lose

Spec == Init /\ [][Next]_vars
=============================================================================
