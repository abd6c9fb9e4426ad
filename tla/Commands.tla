------------------------------ MODULE Commands ------------------------------
(***************************************************************************)
(* The command layer: process_redis_to_postgres (redis_reqv_converter.c)   *)
(* with its commands, over the storage path (CacheStore), up to the reply  *)
(* that ReplyFormat makes of pg_answer.                                    *)
(*                                                                         *)
(* DEL of several keys deletes them one by one, and the worker may end     *)
(* between two of them. Every other request is one step. pg_answer belongs *)
(* to one read of one connection (on_read_cb) and starts as NULL: COMMAND  *)
(* leaves it as the request before it in that read has set it.             *)
(***************************************************************************)
EXTENDS CacheStoreHistory, ReplyFormat, FiniteSets

CONSTANTS
  TextOf,   \* the bytes of each value
  KeyLists  \* the arguments that a DEL may have

ASSUME CommandsAssumption ==
  /\ TextOf \in [Values -> Seq(1 .. 255) \ {<<>>}]
  /\ KeyLists \subseteq Seq(Keys) \ {<<>>}
  /\ IsFiniteSet(KeyLists)

VARIABLES
  request,     \* the command under way or answered last, or "none"
  pg_answer,
  deleting,    \* the keys a DEL has still to delete
  successful_deletions,
  expected     \* history: the keys of the DEL that had a value when it began

delVars == <<deleting, successful_deletions, expected>>
cvars == <<hvars, request, pg_answer, delVars>>

NULL == <<>>

LongestDel == Max({0} \cup {Len(keys) : keys \in KeyLists})

CommandsTypeOK ==
  /\ request \in {"none", "GET", "SET", "DEL", "PING", "COMMAND", "SYNTAX", "UNKNOWN"}
  /\ pg_answer \in Seq(0 .. 255)
  /\ deleting \in Seq(Keys)
  /\ successful_deletions \in 0 .. LongestDel - Len(deleting)
  /\ expected \in 0 .. LongestDel

-----------------------------------------------------------------------------
(***************************************************************************)
(* The commands.                                                           *)
(***************************************************************************)

Idle == worker = "up" /\ deleting = <<>>

Begin(command) == Idle /\ request' = command

NotDeleting ==
  /\ deleting' = <<>>
  /\ successful_deletions' = 0
  /\ expected' = 0

OK == <<79, 75>>
PONG == <<80, 79, 78, 71>>
Message == [type \in {"SYNTAX", "UNKNOWN"} |->
  IF type = "SYNTAX" THEN <<115, 121, 110, 116, 97, 120, 32, 101, 114, 114, 111, 114>>
  ELSE <<117, 110, 107, 110, 111, 119, 110, 32, 99, 111, 109, 109, 97, 110, 100>>]

\* Faulty form: the NUL behind a value is left out.
ValueAnswer_without_nul(x) == IF x = Absent THEN <<3>> ELSE <<3>> \o TextOf[x]

ValueAnswer(x) == IF x = Absent THEN <<3>> ELSE <<3>> \o TextOf[x] \o <<0>>

process_get(k) ==
  /\ Begin("GET")
  /\ req_get(k)
  /\ Recorded
  /\ pg_answer' = ValueAnswer(reply'.value)
  /\ NotDeleting

process_set(k, v) ==
  /\ Begin("SET")
  /\ req_set(k, v)
  /\ Recorded
  /\ pg_answer' = <<0>> \o OK \o <<0>>
  /\ NotDeleting

\* Faulty forms: a key that had no value is counted; a key is counted twice.
Counted_all(count, existed) == count + 1
Counted_twice(count, existed) == IF existed THEN count + 2 ELSE count

\* req_del has answered OK or NON.
Counted(count, existed) == IF existed THEN count + 1 ELSE count

\* Deletes the first of keys, and answers behind the last one.
Delete(keys, count) ==
  LET deletions == Counted(count, reply'.existed) IN
  /\ req_del(Head(keys))
  /\ Recorded
  /\ deleting' = Tail(keys)
  /\ \/ /\ Tail(keys) = <<>>
        /\ pg_answer' = <<2>> \o Decimal[deletions]
        /\ successful_deletions' = 0
     \/ /\ Tail(keys) # <<>>
        /\ successful_deletions' = deletions
        /\ UNCHANGED pg_answer

process_del(keys) ==
  /\ Begin("DEL")
  /\ Delete(keys, 0)
  /\ expected' = Cardinality({k \in Range(keys) : acked[k] # Absent})

DeleteNext ==
  /\ deleting # <<>>
  /\ Delete(deleting, successful_deletions)
  /\ UNCHANGED <<request, expected>>

\* A request that does not reach the storage path.
WithoutData(command) ==
  /\ Begin(command)
  /\ reply' = NoReply
  /\ UNCHANGED <<worker, caching_regime, cache, log, db, acked>>
  /\ NotDeleting

process_ping ==
  /\ WithoutData("PING")
  /\ pg_answer' = <<0>> \o PONG \o <<0>>

process_error(type) ==
  /\ WithoutData(type)
  /\ pg_answer' = <<1>> \o Message[type]

\* It answers nothing, and on_read_cb sends pg_answer as it is.
process_command ==
  /\ pg_answer # NULL
  /\ WithoutData("COMMAND")
  /\ UNCHANGED pg_answer

\* GET looks at its first argument only; GET and DEL without one, and SET without
\* exactly two, are syntax errors.
process_redis_to_postgres ==
  \/ \E k \in Keys : process_get(k)
  \/ \E k \in Keys, v \in Values : process_set(k, v)
  \/ \E keys \in KeyLists : process_del(keys)
  \/ process_command
  \/ process_ping
  \/ \E type \in DOMAIN Message : process_error(type)

-----------------------------------------------------------------------------
(***************************************************************************)
(* The loop around the commands, and the end of the worker.                *)
(***************************************************************************)

Forgotten ==
  /\ request' = "none"
  /\ pg_answer' = NULL
  /\ NotDeleting

\* on_read_cb returns and frees pg_answer.
EndOfRead ==
  /\ Idle
  /\ request # "none"
  /\ reply' = NoReply
  /\ UNCHANGED <<worker, caching_regime, cache, log, db, acked>>
  /\ Forgotten

\* A turn of the loop in which the dump timer has run out.
on_timer_timeout_cb ==
  /\ Idle
  /\ sync_with_db
  /\ Recorded
  /\ Forgotten

\* A deletion that fails, alone or with the dump of the log that it fills.
DeletionFails(k) ==
  \/ UpdateFails(k, Absent)
  \/ /\ caching_regime = "DEFFER_DUMP"
     /\ k \in ShortKeys
     /\ Len(log) + 1 = MAX_COUNT_OPERATION
     /\ Exit(do_transaction(Append(log, [key |-> k, value |-> Absent]), db))

\* The worker ends: between two requests, in one, or between two deletions of
\* one. COMMAND as the first request of a read has no pg_answer to convert: that
\* is a NULL pointer.
WorkerEnds ==
  /\ \/ /\ deleting = <<>>
        /\ \/ \E k \in Keys, x \in Contents : UpdateFails(k, x)
           \/ DumpFails
     \/ /\ deleting # <<>>
        /\ DeletionFails(Head(deleting))
     \/ Terminate
  /\ Recorded
  /\ Forgotten

Restart ==
  /\ proxy_start_work
  /\ Recorded
  /\ Forgotten

-----------------------------------------------------------------------------

CInit ==
  /\ HInit
  /\ request = "none"
  /\ pg_answer = NULL
  /\ deleting = <<>>
  /\ successful_deletions = 0
  /\ expected = 0

CNext ==
  \/ process_redis_to_postgres
  \/ DeleteNext
  \/ EndOfRead
  \/ on_timer_timeout_cb
  \/ WorkerEnds
  \/ Restart

CSpec == CInit /\ [][CNext]_cvars

\* A DEL goes on to its last key. libev's timer repeats and is looked at in every
\* turn of the loop, however many requests the turns bring: it is enabled again
\* and again rather than all the time. The postmaster restarts the worker.
CFairSpec ==
  CSpec /\ WF_cvars(DeleteNext) /\ SF_cvars(on_timer_timeout_cb) /\ WF_cvars(Restart)

-----------------------------------------------------------------------------
(***************************************************************************)
(* Properties.                                                             *)
(***************************************************************************)

\* What goes to the client.
rd_answer == define_type_req(pg_answer)

\* Every request but COMMAND is answered with the message of the Redis protocol
\* for its result, to the byte: the value as a bulk string of its length, or the
\* null one, OK, PONG, an error line (process_*, define_type_req).
AnswersAreWellFormed ==
  pg_answer # NULL /\ deleting = <<>> =>
    /\ request = "GET" =>
         rd_answer = IF reply.value = Absent THEN NullBulkString ELSE BulkString(TextOf[reply.value])
    /\ request = "SET" => rd_answer = SimpleString(OK)
    /\ request = "PING" => rd_answer = SimpleString(PONG)
    /\ request \in DOMAIN Message =>
         rd_answer = SimpleError(<<69, 82, 82, 32>> \o Message[request])

\* DEL answers how many of its keys had a value when it began: a key named twice
\* counts once, and its deletions one by one are seen by nobody (process_del).
DelCountsKeys ==
  request = "DEL" /\ deleting = <<>> => rd_answer = RespInteger(expected)
=============================================================================
