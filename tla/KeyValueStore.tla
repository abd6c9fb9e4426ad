---------------------------- MODULE KeyValueStore ----------------------------
(***************************************************************************)
(* What the proxy promises to its Redis clients, whatever the cache regime:*)
(* one map from keys to values, on which GET, SET and DEL act at once, and *)
(* a durable copy of it in PostgreSQL that may lag behind and is all that  *)
(* is left when the worker process goes away.                              *)
(*                                                                         *)
(* It is the specification that CacheStore implements; it models no code.  *)
(***************************************************************************)
CONSTANTS
  Keys,    \* the keys clients use
  Values,  \* the values clients store
  Absent   \* the content of a key that has no value

VARIABLES
  store,   \* the map that clients read and write
  disk,    \* what PostgreSQL holds
  reply    \* the last reply given to a client

vars == <<store, disk, reply>>

Contents == Values \cup {Absent}

NoReply == [op |-> "none"]
GetReply(k, x) == [op |-> "GET", key |-> k, value |-> x]
SetReply(k, v) == [op |-> "SET", key |-> k, value |-> v]
DelReply(k, existed) == [op |-> "DEL", key |-> k, existed |-> existed]

Replies == {NoReply}
           \cup [op : {"GET"}, key : Keys, value : Contents]
           \cup [op : {"SET"}, key : Keys, value : Values]
           \cup [op : {"DEL"}, key : Keys, existed : BOOLEAN]

-----------------------------------------------------------------------------

Init ==
  /\ store \in [Keys -> Contents]
  /\ disk = store
  /\ reply = NoReply

Get(k) ==
  /\ reply' = GetReply(k, store[k])
  /\ UNCHANGED <<store, disk>>

\* A write reaches the durable copy later, at once, or together with
\* everything that was still waiting.
Write(k, x) ==
  /\ store' = [store EXCEPT ![k] = x]
  /\ disk' \in {disk, [disk EXCEPT ![k] = x], store'}

Set(k, v) ==
  /\ Write(k, v)
  /\ reply' = SetReply(k, v)

Del(k) ==
  /\ Write(k, Absent)
  /\ reply' = DelReply(k, store[k] # Absent)

\* The durable copy catches up with the store, all of it or nothing.
Save ==
  /\ disk' = store
  /\ UNCHANGED <<store, reply>>

\* The worker goes away: clients are left with the durable copy. A write that
\* was being carried out, and was not answered, may have reached it.
Lose ==
  /\ \E k \in Keys, x \in Contents :
       disk' \in {disk, [disk EXCEPT ![k] = x], [store EXCEPT ![k] = x]}
  /\ store' = disk'
  /\ reply' = NoReply

\* A request that is not about the data.
Other ==
  /\ reply' = NoReply
  /\ UNCHANGED <<store, disk>>

Next ==
  \/ Other
  \/ \E k \in Keys : Get(k) \/ Del(k)
  \/ \E k \in Keys, v \in Values : Set(k, v)
  \/ Save
  \/ Lose

Spec == Init /\ [][Next]_vars
=============================================================================
