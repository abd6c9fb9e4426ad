----------------------------- MODULE ProxyProofs -----------------------------
(***************************************************************************)
(* The composition keeps what its parts promise: seen from the sockets the *)
(* proxy is the event loop, seen from the data it is the command layer.    *)
(* What is proved of the parts holds of the whole. What is proved of the   *)
(* whole alone is that the two fit together: every request is answered to  *)
(* the client that sent it, with an answer that was right when it was given*)
(***************************************************************************)
EXTENDS Proxy, CommandsProofs

-----------------------------------------------------------------------------
(***************************************************************************)
(* The steps of the loop.                                                  *)
(***************************************************************************)

\* A request that is carried out, a dump and the end of a read change nothing
\* that the loop sees.
LEMMA ProcessNextOfLoop == ProcessNext => UNCHANGED Loop!vars
BY DEF ProcessNext, Process, process_get, process_set, process_del, process_ping, process_command,
       process_error, WithoutData, DeleteNext, Delete, req_get, req_set, req_del, loopVars,
       Loop!vars, Loop!serverVars, Loop!clientVars

LEMMA TimerOfLoop == TimerCallback => UNCHANGED Loop!vars
BY DEF TimerCallback, on_timer_timeout_cb, sync_with_db, cvars, hvars, vars, loopVars,
       Loop!vars, Loop!serverVars, Loop!clientVars

LEMMA PollOfLoop == Poll => Loop!Poll \/ UNCHANGED Loop!vars
BY DEF Poll, Loop!Poll, cvars, hvars, vars, loopVars, Loop!vars, Loop!serverVars, Loop!clientVars

LEMMA NextOfLoop == [PNext]_pvars => [Loop!Next]_Loop!vars
<1> SUFFICES ASSUME [PNext]_pvars PROVE Loop!Next \/ UNCHANGED Loop!vars
  OBVIOUS
<1>1. CASE \E c \in Clients : Send(c) \/ Receive(c) \/ ConnectOrLeave(c)
  BY <1>1 DEF Send, Receive, ConnectOrLeave, Loop!Next
<1>2. CASE TimerExpires
  BY <1>2 DEF TimerExpires, cvars, hvars, vars, loopVars, Loop!vars, Loop!serverVars, Loop!clientVars
<1>3. CASE Poll
  BY <1>3, PollOfLoop DEF Loop!Next, Loop!Turn
<1>4. CASE TimerCallback
  BY <1>4, TimerOfLoop
<1>5. CASE SocketCallback
  BY <1>5 DEF SocketCallback, Loop!Next, Loop!Turn
<1>6. CASE \E c \in Clients : on_read_cb(c)
  BY <1>6 DEF on_read_cb, Loop!Next, Loop!Turn
<1>7. CASE ProcessNext
  BY <1>7, ProcessNextOfLoop
<1>8. CASE ReadReturns
  BY <1>8 DEF ReadReturns, EndOfRead, loopVars, Loop!vars, Loop!serverVars, Loop!clientVars
<1>9. CASE WorkerStops
  BY <1>9 DEF WorkerStops, Loop!Next
<1>10. CASE WorkerStarts
  BY <1>10 DEF WorkerStarts, Loop!Next
<1>11. CASE UNCHANGED pvars
  BY <1>11 DEF pvars, cvars, hvars, vars, loopVars, Loop!vars, Loop!serverVars, Loop!clientVars
<1> QED
  BY <1>1, <1>2, <1>3, <1>4, <1>5, <1>6, <1>7, <1>8, <1>9, <1>10, <1>11 DEF PNext, Turn

\* Whatever the commands do, the proxy behaves towards its clients as the event
\* loop does: the requests carried out in a read callback and the timer are no
\* steps of the loop (on_read_cb, on_timer_timeout_cb).
THEOREM ProxyIsALoop == PSpec => Loop!Spec
<1>1. PInit => Loop!Init
  BY DEF PInit
<1> QED
  BY <1>1, NextOfLoop, PTL DEF PSpec, Loop!Spec

-----------------------------------------------------------------------------
(***************************************************************************)
(* The steps of the commands.                                              *)
(***************************************************************************)

LEMMA RequestParts ==
  ASSUME NEW r \in Requests
  PROVE  /\ r.name = "GET" => r.key \in Keys
         /\ r.name = "SET" => r.key \in Keys /\ r.value \in Values
         /\ r.name = "DEL" => r.keys \in KeyLists
BY ProxyAssumption DEF ProxyRequest, Message

LEMMA ProcessNextOfCommands == ProcessNext => CNext
<1> SUFFICES ASSUME ProcessNext PROVE CNext
  OBVIOUS
<1>1. PICK r \in Requests : Process(r) \/ DeleteNext
  BY DEF ProcessNext
<1>2. CASE DeleteNext
  BY <1>2 DEF CNext
<1>3. CASE Process(r)
  BY <1>3, RequestParts DEF Process, CNext, process_redis_to_postgres
<1> QED
  BY <1>1, <1>2, <1>3

LEMMA CarriedOfCommands == Carried => CNext \/ UNCHANGED cvars
BY DEF Carried, CNext, WorkerEnds

\* A request that fails ends the worker in one of the ways of the commands.
LEMMA RequestFailsOfCommands ==
  ASSUME NEW r \in Requests, RequestFails(r), Recorded, Forgotten
  PROVE  WorkerEnds
<1>1. CASE /\ deleting = <<>>
           /\ r.name = "SET"
           /\ UpdateFails(r.key, r.value)
  BY <1>1, RequestParts DEF WorkerEnds, Contents
<1>2. CASE /\ deleting = <<>>
           /\ r.name = "SET"
           /\ caching_regime = "DEFFER_DUMP"
           /\ FitsInCache(r.key, r.value)
           /\ Len(log) + 1 = MAX_COUNT_OPERATION
           /\ Exit(do_transaction(Append(log, [key |-> r.key, value |-> r.value]), db))
  <2>1. [key |-> r.key, value |-> r.value] \in Operation
    BY <1>2 DEF FitsInCache, Operation
  <2>2. DumpFails
    BY <1>2, <2>1 DEF DumpFails
  <2> QED
    BY <1>2, <2>2 DEF WorkerEnds
<1>3. CASE deleting = <<>> /\ r.name = "DEL" /\ DeletionFails(Head(r.keys))
  <2>1. Head(r.keys) \in Keys
    <3>1. r.keys \in Seq(Keys) /\ r.keys # <<>>
      BY <1>3, RequestParts, CommandsAssumption
    <3> QED
      BY <3>1
  <2>2. CASE UpdateFails(Head(r.keys), Absent)
    BY <1>3, <2>1, <2>2 DEF WorkerEnds, Contents
  <2>3. CASE /\ caching_regime = "DEFFER_DUMP"
             /\ Head(r.keys) \in ShortKeys
             /\ Len(log) + 1 = MAX_COUNT_OPERATION
             /\ Exit(do_transaction(Append(log, [key |-> Head(r.keys), value |-> Absent]), db))
    <3>1. [key |-> Head(r.keys), value |-> Absent] \in Operation
      BY <2>3 DEF Operation
    <3>2. DumpFails
      BY <2>3, <3>1 DEF DumpFails
    <3> QED
      BY <1>3, <3>2 DEF WorkerEnds
  <2> QED
    BY <1>3, <2>2, <2>3 DEF DeletionFails
<1>4. CASE deleting # <<>> /\ DeletionFails(Head(deleting))
  BY <1>4 DEF WorkerEnds
<1> QED
  BY <1>1, <1>2, <1>3, <1>4 DEF RequestFails

LEMMA WorkerStopsOfCommands == WorkerStops => CNext
<1> SUFFICES ASSUME WorkerStops PROVE CNext
  OBVIOUS
<1>1. Recorded /\ Forgotten
  BY DEF WorkerStops
<1>2. CASE Terminate
  BY <1>1, <1>2 DEF CNext, WorkerEnds
<1>3. CASE \E r \in Requests : RequestFails(r)
  BY <1>1, <1>3, RequestFailsOfCommands DEF CNext
<1>4. CASE TimerFails
  BY <1>1, <1>4 DEF TimerFails, TimerRuns, Idle, DumpFails, CNext, WorkerEnds
<1> QED
  BY <1>2, <1>3, <1>4 DEF WorkerStops

LEMMA NextOfCommands == [PNext]_pvars => [CNext]_cvars
<1> SUFFICES ASSUME [PNext]_pvars PROVE CNext \/ UNCHANGED cvars
  OBVIOUS
<1>1. CASE \E c \in Clients : Send(c) \/ Receive(c) \/ ConnectOrLeave(c)
  BY <1>1 DEF Send, Receive, ConnectOrLeave
<1>2. CASE TimerExpires \/ Poll
  BY <1>2 DEF TimerExpires, Poll
<1>3. CASE TimerCallback
  BY <1>3 DEF TimerCallback, CNext
<1>4. CASE SocketCallback \/ \E c \in Clients : on_read_cb(c)
  BY <1>4, CarriedOfCommands DEF SocketCallback, on_read_cb
<1>5. CASE ProcessNext
  BY <1>5, ProcessNextOfCommands
<1>6. CASE ReadReturns
  BY <1>6 DEF ReadReturns, CNext
<1>7. CASE WorkerStops
  BY <1>7, WorkerStopsOfCommands
<1>8. CASE WorkerStarts
  BY <1>8 DEF WorkerStarts, CNext
<1>9. CASE UNCHANGED pvars
  BY <1>9 DEF pvars
<1> QED
  BY <1>1, <1>2, <1>3, <1>4, <1>5, <1>6, <1>7, <1>8, <1>9 DEF PNext, Turn

\* However clients and callbacks interleave, what happens to the data is a
\* behaviour of the command layer: requests one at a time, a DEL that nothing
\* comes between, and the timer (on_read_cb, process_redis_to_postgres).
THEOREM ProxyRunsCommands == PSpec => CSpec
<1>1. PInit => CInit
  BY DEF PInit
<1> QED
  BY <1>1, NextOfCommands, PTL DEF PSpec, CSpec

-----------------------------------------------------------------------------
(***************************************************************************)
(* What is proved of the event loop, for the requests of the proxy. The    *)
(* definitions of Loop and of LP are the same ones, by two names.          *)
(***************************************************************************)

LP == INSTANCE EventLoopProofs WITH Commands <- {Kind(r) : r \in Requests}

\* The loop's assumption on its constants, cited with every lemma of LP.
LEMMA LoopSizes ==
  /\ NoClient \notin Clients
  /\ {Kind(r) : r \in Requests} \subseteq {"DATA", "COMMAND"}
  /\ MAX_REQUESTS \in Nat
  /\ {REQUEST_PARTS, REPLY_PARTS, BUFFER_SIZE, SEND_BUFFER, MAX_FDS} \subseteq Nat \ {0}
  /\ PartialWrites \in BOOLEAN
BY ProxyAssumption DEF Kind

LEMMA SameInit == Loop!Init => LP!Init
BY Zenon DEF Loop!Init, LP!Init

LEMMA SameState ==
  /\ Loop!vars = LP!vars
  /\ Loop!Exit <=> LP!Exit
  /\ Loop!ACCEPT = LP!ACCEPT
  /\ Loop!Ready = LP!Ready
  /\ Loop!get_socket_fails <=> LP!get_socket_fails
  /\ Loop!serverVars = LP!serverVars
  /\ Loop!clientVars = LP!clientVars
<1>1. Loop!serverVars = LP!serverVars /\ Loop!clientVars = LP!clientVars
  BY DEF Loop!serverVars, LP!serverVars, Loop!clientVars, LP!clientVars
<1>2. Loop!vars = LP!vars
  BY <1>1 DEF Loop!vars, LP!vars
<1>3. Loop!Exit <=> LP!Exit
  BY Zenon DEF Loop!Exit, LP!Exit
<1>4. Loop!ACCEPT = LP!ACCEPT /\ (Loop!get_socket_fails <=> LP!get_socket_fails)
  <2>1. Loop!ACCEPT = LP!ACCEPT
    BY DEF Loop!ACCEPT, LP!ACCEPT
  <2>2. Loop!get_socket_fails <=> LP!get_socket_fails
    BY Zenon DEF Loop!get_socket_fails, LP!get_socket_fails, Loop!Cardinality, LP!Cardinality
  <2> QED
    BY <2>1, <2>2, Zenon
<1>5. Loop!Ready = LP!Ready
  BY Zenon DEF Loop!ACCEPT, LP!ACCEPT, Loop!Ready, LP!Ready, Loop!READ, LP!READ, Loop!WRITE, LP!WRITE
<1> QED
  BY <1>1, <1>2, <1>3, <1>4, <1>5, Zenon

LEMMA SameClient ==
  ASSUME NEW c
  PROVE  /\ Loop!Connect(c) <=> LP!Connect(c)
         /\ Loop!Send(c) <=> LP!Send(c)
         /\ Loop!Receive(c) <=> LP!Receive(c)
         /\ Loop!Leave(c) <=> LP!Leave(c)
BY Zenon DEF Loop!Connect, LP!Connect, Loop!Send, LP!Send, Loop!Receive, LP!Receive,
             Loop!Leave, LP!Leave, Loop!serverVars, LP!serverVars

LEMMA SameLoop ==
  /\ Loop!Terminate <=> LP!Terminate
  /\ Loop!proxy_start_work <=> LP!proxy_start_work
  /\ Loop!Poll <=> LP!Poll
  /\ Loop!on_accept_cb <=> LP!on_accept_cb
BY Zenon, SameState DEF Loop!Terminate, LP!Terminate, Loop!proxy_start_work, LP!proxy_start_work,
                        Loop!Poll, LP!Poll, Loop!on_accept_cb, LP!on_accept_cb,
                        Loop!Callback, LP!Callback, Loop!clientVars, LP!clientVars

LEMMA SameChunk ==
  ASSUME NEW c
  PROVE /\ Loop!read_data(c) = LP!read_data(c)
        /\ \A chunk : Loop!Completed(chunk) = LP!Completed(chunk)
        /\ \A done : Loop!Replies(c, done) = LP!Replies(c, done)
        /\ Loop!StartWriting(c) <=> LP!StartWriting(c)
        /\ Loop!close_connection(c) <=> LP!close_connection(c)
<1>1. Loop!read_data(c) = LP!read_data(c)
  BY Zenon DEF Loop!read_data, LP!read_data
<1>2. ASSUME NEW chunk PROVE Loop!Completed(chunk) = LP!Completed(chunk)
  BY Zenon DEF Loop!Completed, LP!Completed, Loop!Ends, LP!Ends, Loop!Cardinality, LP!Cardinality
<1>3. ASSUME NEW done PROVE Loop!Replies(c, done) = LP!Replies(c, done)
  BY Zenon DEF Loop!Replies, LP!Replies, Loop!AnswerSource, LP!AnswerSource
<1>4. Loop!StartWriting(c) <=> LP!StartWriting(c)
  BY Zenon DEF Loop!StartWriting, LP!StartWriting
<1>5. Loop!close_connection(c) <=> LP!close_connection(c)
  BY SameState, Zenon DEF Loop!close_connection, LP!close_connection, Loop!Released, LP!Released,
     Loop!READ, LP!READ, Loop!WRITE, LP!WRITE
<1> QED
  BY <1>1, <1>2, <1>3, <1>4, <1>5, Zenon

LEMMA SameRead ==
  ASSUME NEW c
  PROVE  Loop!on_read_cb(c) <=> LP!on_read_cb(c)
BY Zenon, SameChunk, SameState DEF Loop!on_read_cb, LP!on_read_cb,
                                   Loop!Callback, LP!Callback, Loop!READ, LP!READ

LEMMA SameWrite ==
  ASSUME NEW c
  PROVE  /\ Loop!on_write_cb(c) <=> LP!on_write_cb(c)
         /\ Loop!WritePasses(c) <=> LP!WritePasses(c)
         /\ Loop!WriteReturnsShort(c) <=> LP!WriteReturnsShort(c)
         /\ Loop!WriteEndsWorker(c) <=> LP!WriteEndsWorker(c)
BY Zenon, SameState DEF Loop!on_write_cb, LP!on_write_cb, Loop!WritePasses, LP!WritePasses,
     Loop!WriteReturnsShort, LP!WriteReturnsShort, Loop!WriteEndsWorker, LP!WriteEndsWorker,
     Loop!Callback, LP!Callback, Loop!WRITE, LP!WRITE, Loop!Taken, LP!Taken,
     Loop!Written, LP!Written, Loop!MoveRest, LP!MoveRest, Loop!Room, LP!Room,
     Loop!WriteToNobody, LP!WriteToNobody, Loop!RestIsNegative, LP!RestIsNegative,
     Loop!SleepEnds, LP!SleepEnds,
     Loop!clientVars, LP!clientVars

LEMMA SameNext == [Loop!Next]_Loop!vars => [LP!Next]_LP!vars
<1>1. Loop!Turn <=> LP!Turn
  BY Zenon, SameLoop, SameRead, SameWrite DEF Loop!Turn, LP!Turn
<1>2. Loop!Next <=> LP!Next
  BY <1>1, Zenon, SameLoop, SameClient DEF Loop!Next, LP!Next
<1>3. UNCHANGED Loop!vars => UNCHANGED LP!vars
  BY DEF Loop!vars, LP!vars, Loop!serverVars, LP!serverVars, Loop!clientVars, LP!clientVars
<1> QED
  BY <1>2, <1>3

\* The loop keeps its invariant, whatever the requests do.
LoopInv == LP!IInv /\ LP!Counted /\ LP!DownIsIdle

LEMMA LoopInvInit == PInit => LoopInv
BY SameInit, LP!InitIsOwned, LoopSizes DEF PInit, LoopInv

LEMMA LoopInvStep == LoopInv /\ [PNext]_pvars => LoopInv'
BY NextOfLoop, SameNext, LP!NextPreserves, LP!CountedPreserved, LP!DownIsIdlePreserved, LoopSizes
   DEF LoopInv

-----------------------------------------------------------------------------
(***************************************************************************)
(* Who is answered. While a read callback carries out its requests, its    *)
(* connection stays open, and the answers it has still to give follow      *)
(* those that its client was given.                                        *)
(***************************************************************************)

\* The requests of client c that are read and not yet answered.
Ahead(c) == IF batch # <<>> /\ batch[1][1] = c THEN Len(batch) ELSE 0

InStep ==
  /\ batch \in Seq(Clients \X (1 .. MAX_REQUESTS))
  /\ results \in [Clients -> Seq(Seq(0 .. 255))]
  /\ batch # <<>> => conn[batch[1][1]] = "open"
  /\ \A j \in 1 .. Len(batch) : batch[j] = <<batch[1][1], Len(results[batch[1][1]]) + j>>
  /\ \A c \in Clients : /\ Len(results[c]) <= handled[c]
                        /\ conn[c] # "closed" => handled[c] = Len(results[c]) + Ahead(c)

\* The four kinds of steps, for the batch: those that leave it alone, the end of
\* the worker, a read, and an answer.
Quiet ==
  /\ UNCHANGED <<batch, results, handled>>
  /\ \A c \in Clients : conn'[c] # "closed" => conn[c] # "closed"
  /\ batch # <<>> => conn'[batch[1][1]] = conn[batch[1][1]]

Ends ==
  /\ batch' = <<>>
  /\ UNCHANGED <<results, handled>>
  /\ \A c \in Clients : conn'[c] # "closed" => conn[c] \notin {"open", "closed"}

Reads(c) ==
  /\ batch = <<>>
  /\ conn[c] = "open"
  /\ UNCHANGED <<conn, results>>
  /\ handled' = [handled EXCEPT ![c] = @ + Len(LP!Done(c))]
  /\ batch' = [j \in 1 .. Len(LP!Done(c)) |-> <<c, handled[c] + j>>]

Answers ==
  /\ ProcessNext /\ deleting' = <<>>
  /\ batch # <<>>
  /\ UNCHANGED <<conn, handled>>
  /\ batch' = Tail(batch)
  /\ results' = [results EXCEPT ![Head(batch)[1]] = Append(@, pg_answer')]

\* What the loop's end of the process does to connections.
LEMMA ExitCloses ==
  ASSUME LoopInv, Loop!Exit
  PROVE  /\ UNCHANGED handled
         /\ worker' = "down"
         /\ \A c \in Clients : conn'[c] # "closed" => conn[c] \notin {"open", "closed"}
<1>1. conn \in [Clients -> {"none", "backlog", "open", "closed"}]
  BY DEF LoopInv, LP!IInv, LP!TypeOK
<1> QED
  BY <1>1 DEF Loop!Exit

\* The beginning of a read callback.
LEMMA ReadIsAStep ==
  ASSUME LoopInv, InStep, NEW c \in Clients, on_read_cb(c)
  PROVE  Quiet \/ Reads(c)
<1>1. /\ conn \in [Clients -> {"none", "backlog", "open", "closed"}]
      /\ handled \in [Clients -> 0 .. MAX_REQUESTS]
      /\ worker \in {"up", "down"}
  BY DEF LoopInv, LP!IInv, LP!TypeOK
<1>2. batch = <<>> /\ UNCHANGED results
  BY DEF on_read_cb, InRead
<1>3. LP!on_read_cb(c)
  BY SameRead DEF on_read_cb
<1>4. conn[c] = "open" /\ worker = "up"
  <2>1. LP!READ(c) \in pending
    BY <1>3 DEF LP!on_read_cb, LP!Callback
  <2>2. conn[c] = "open"
    BY <2>1, Zenon DEF LoopInv, LP!IInv, LP!NoEventOfClosed
  <2> QED
    BY <1>1, <2>1, <2>2 DEF LoopInv, LP!DownIsIdle
<1> DEFINE done == LP!Done(c)
<1>5. /\ done \in Seq(LP!Pieces(REQUEST_PARTS)) /\ Len(done) \in Nat
      /\ \A j \in 1 .. Len(done) : done[j] = <<handled[c] + j, REQUEST_PARTS>>
  BY LP!ReadCompletes, LoopSizes DEF LoopInv
<1>6. batch' = IF worker' = "up" THEN [j \in DOMAIN done |-> <<c, done[j][1]>>] ELSE <<>>
  BY SameChunk DEF on_read_cb, LP!Done
<1>7. DOMAIN done = 1 .. Len(done)
  BY <1>5
<1>8. CASE LP!Exit
  <2>1. Loop!Exit
    BY <1>8, SameState
  <2>2. worker' = "down" /\ UNCHANGED handled
    BY <2>1, ExitCloses
  <2>3. batch' = <<>>
    BY <1>6, <2>2
  <2> QED
    BY <1>2, <2>1, <2>2, <2>3, ExitCloses DEF Quiet
<1>9. CASE LP!Released(c) /\ Len(LP!read_data(c)) = 0
  <2>1. done = <<>>
    BY <1>9, LP!ReadOfNothing, LoopSizes DEF LoopInv
  <2>2. worker' = "up" /\ UNCHANGED handled /\ conn' = [conn EXCEPT ![c] = "closed"]
    BY <1>4, <1>9 DEF LP!Released
  <2>3. batch' = <<>>
    <3> HIDE DEF done
    <3> QED
      BY <1>6, <2>1, <2>2
  <2> QED
    BY <1>1, <1>2, <2>2, <2>3 DEF Quiet
<1>10. CASE /\ handled' = [handled EXCEPT ![c] = @ + Len(done)]
            /\ UNCHANGED <<worker, conn>>
  <2>1. batch' = [j \in 1 .. Len(done) |-> <<c, done[j][1]>>]
    BY <1>4, <1>6, <1>7, <1>10
  <2>2. \A j \in 1 .. Len(done) : done[j][1] = handled[c] + j
    <3> HIDE DEF done
    <3> QED
      BY <1>5
  <2>3. batch' = [j \in 1 .. Len(done) |-> <<c, handled[c] + j>>]
    <3> HIDE DEF done
    <3> QED
      BY <2>1, <2>2
  <2> QED
    BY <1>2, <1>4, <1>10, <2>3 DEF Reads
<1>11. \/ LP!Exit
       \/ LP!Released(c) /\ Len(LP!read_data(c)) = 0
       \/ /\ handled' = [handled EXCEPT ![c] = @ + Len(done)]
          /\ UNCHANGED <<worker, conn>>
  BY <1>3 DEF LP!on_read_cb, LP!close_connection, LP!Done
<1> QED
  BY <1>8, <1>9, <1>10, <1>11

LEMMA StepKinds ==
  ASSUME LoopInv, InStep, [PNext]_pvars
  PROVE  \/ Quiet
         \/ Ends
         \/ \E c \in Clients : Reads(c)
         \/ Answers
<1>1. /\ conn \in [Clients -> {"none", "backlog", "open", "closed"}]
      /\ \A c \in Clients : conn[c] = "none" <=> peer[c] = "absent"
      /\ batch # <<>> => batch[1][1] \in Clients
  <2>1. batch \in Seq(Clients \X (1 .. MAX_REQUESTS))
    BY DEF InStep
  <2>2. batch # <<>> => batch[1] \in Clients \X (1 .. MAX_REQUESTS)
    BY <2>1
  <2> QED
    BY <2>2 DEF LoopInv, LP!IInv, LP!TypeOK, LP!Served, LP!Linked
<1>2. ASSUME NEW c \in Clients, Send(c) \/ Receive(c) PROVE Quiet
  BY <1>1, <1>2 DEF Send, Receive, Loop!Send, Loop!Receive, Loop!serverVars, historyVars, Quiet
<1>3. ASSUME NEW c \in Clients, ConnectOrLeave(c) PROVE Quiet
  <2>1. UNCHANGED <<batch, results>>
    BY <1>3 DEF ConnectOrLeave, historyVars
  <2>2. CASE Loop!Leave(c)
    BY <1>1, <2>1, <2>2 DEF Loop!Leave, Loop!serverVars, Quiet
  <2>3. CASE Loop!Connect(c)
    <3>1. conn[c] = "none" /\ conn' = [conn EXCEPT ![c] = "backlog"] /\ UNCHANGED handled
      BY <1>1, <2>3 DEF Loop!Connect
    <3>2. batch # <<>> => batch[1][1] # c
      BY <3>1 DEF InStep
    <3> QED
      BY <1>1, <2>1, <3>1, <3>2 DEF Quiet
  <2> QED
    BY <1>3, <2>2, <2>3 DEF ConnectOrLeave
<1>4. CASE TimerExpires \/ TimerCallback \/ ReadReturns \/ UNCHANGED pvars
  BY <1>4 DEF TimerExpires, TimerCallback, ReadReturns, pvars, loopVars, historyVars, Quiet
<1>5. CASE Poll
  BY <1>5 DEF Poll, Loop!Poll, historyVars, Quiet
<1>6. CASE WorkerStarts
  BY <1>6 DEF WorkerStarts, Loop!proxy_start_work, historyVars, Quiet
<1>7. CASE WorkerStops
  <2>1. Loop!Exit
    BY <1>7 DEF WorkerStops, Loop!Terminate
  <2> QED
    BY <1>7, <2>1, ExitCloses DEF WorkerStops, Ends
<1>8. CASE SocketCallback
  <2>1. batch = <<>> /\ UNCHANGED <<batch, results>>
    BY <1>8 DEF SocketCallback, InRead
  <2>2. ASSUME Loop!Exit PROVE Quiet
    BY <2>1, <2>2, ExitCloses DEF Quiet
  <2>3. CASE Loop!on_accept_cb /\ ~ Loop!Exit
    BY <1>1, <2>1, <2>3 DEF Loop!on_accept_cb, Quiet
  <2>4. ASSUME NEW c \in Clients,
               \/ Loop!on_write_cb(c) \/ Loop!WritePasses(c)
               \/ Loop!WriteReturnsShort(c) \/ Loop!WriteEndsWorker(c)
        PROVE  Quiet
    <3>1. ASSUME UNCHANGED <<conn, handled>> PROVE Quiet
      BY <2>1, <3>1 DEF Quiet
    <3>2. Loop!on_write_cb(c) \/ Loop!WritePasses(c) \/ Loop!WriteReturnsShort(c)
            => UNCHANGED <<conn, handled>>
      BY DEF Loop!on_write_cb, Loop!WritePasses, Loop!WriteReturnsShort
    <3>3. Loop!WriteEndsWorker(c) => Loop!Exit
      BY DEF Loop!WriteEndsWorker
    <3> QED
      BY <2>2, <2>4, <3>1, <3>2, <3>3
  <2> QED
    BY <1>8, <2>2, <2>3, <2>4 DEF SocketCallback
<1>9. ASSUME NEW c \in Clients, on_read_cb(c) PROVE Quiet \/ Reads(c)
  BY <1>9, ReadIsAStep
<1>10. CASE ProcessNext
  <2>1. batch # <<>> /\ UNCHANGED <<conn, handled>>
    BY <1>10 DEF ProcessNext, UnderWay, loopVars
  <2>2. CASE UNCHANGED <<batch, results>>
    BY <2>1, <2>2 DEF Quiet
  <2>3. CASE /\ deleting' = <<>>
             /\ batch' = Tail(batch)
             /\ results' = [results EXCEPT ![Head(batch)[1]] = Append(@, pg_answer')]
    BY <1>10, <2>1, <2>3 DEF Answers
  <2> QED
    BY <1>10, <2>2, <2>3 DEF ProcessNext, Answered
<1> QED
  BY <1>2, <1>3, <1>4, <1>5, <1>6, <1>7, <1>8, <1>9, <1>10 DEF PNext, Turn

LEMMA InStepInit == PInit => InStep
<1> SUFFICES ASSUME PInit PROVE InStep
  OBVIOUS
<1>1. handled = [c \in Clients |-> 0] /\ batch = <<>> /\ results = [c \in Clients |-> <<>>]
  BY DEF PInit, Loop!Init
<1>2. batch \in Seq(Clients \X (1 .. MAX_REQUESTS)) /\ <<>> \in Seq(Seq(0 .. 255))
  BY <1>1
<1> QED
  BY <1>1, <1>2 DEF InStep, Ahead

\* The types of what InStep counts.
LEMMA StepTypes ==
  ASSUME LoopInv, InStep
  PROVE  /\ conn \in [Clients -> {"none", "backlog", "open", "closed"}]
         /\ handled \in [Clients -> 0 .. MAX_REQUESTS]
         /\ \A c \in Clients : handled[c] \in Nat /\ Len(results[c]) \in Nat
         /\ batch \in Seq(Clients \X (1 .. MAX_REQUESTS)) /\ Len(batch) \in Nat
         /\ batch # <<>> => batch[1][1] \in Clients
<1>1. /\ conn \in [Clients -> {"none", "backlog", "open", "closed"}]
      /\ handled \in [Clients -> 0 .. MAX_REQUESTS]
  BY DEF LoopInv, LP!IInv, LP!TypeOK
<1>2. \A c \in Clients : results[c] \in Seq(Seq(0 .. 255))
  BY DEF InStep
<1>3. batch \in Seq(Clients \X (1 .. MAX_REQUESTS))
  BY DEF InStep
<1>4. batch # <<>> => batch[1] \in Clients \X (1 .. MAX_REQUESTS)
  BY <1>3
<1> QED
  BY <1>1, <1>2, <1>3, <1>4

LEMMA ReadKeepsStep ==
  ASSUME LoopInv, LoopInv', InStep, NEW c \in Clients, Reads(c)
  PROVE  InStep'
<1> DEFINE n == Len(LP!Done(c))
<1>1. n \in Nat
  BY LP!ReadCompletes, LoopSizes DEF LoopInv
<1>2. /\ handled' = [handled EXCEPT ![c] = @ + n]
      /\ batch' = [j \in 1 .. n |-> <<c, handled[c] + j>>]
      /\ batch = <<>> /\ conn[c] = "open" /\ UNCHANGED <<conn, results>>
  BY DEF Reads
<1> HIDE DEF n
<1>3. handled'[c] \in 0 .. MAX_REQUESTS
  BY DEF LoopInv, LP!IInv, LP!TypeOK
<1>4. handled'[c] = handled[c] + n /\ MAX_REQUESTS \in Nat
  BY <1>2, StepTypes, LoopSizes
<1>5. \A d \in Clients : conn[d] # "closed" => handled[d] = Len(results[d])
  BY <1>2, StepTypes DEF InStep, Ahead
<1>6. handled[c] = Len(results[c])
  BY <1>2, <1>5
<1>7. batch' \in Seq(Clients \X (1 .. MAX_REQUESTS)) /\ Len(batch') = n
  <2>1. \A j \in 1 .. n : <<c, handled[c] + j>> \in Clients \X (1 .. MAX_REQUESTS)
    BY <1>1, <1>3, <1>4, StepTypes
  <2> QED
    BY <1>1, <1>2, <2>1
<1>8. \A j \in 1 .. n : batch'[j] = <<c, Len(results[c]) + j>>
  BY <1>2, <1>6
<1>9. batch' # <<>> => n # 0 /\ batch'[1][1] = c
  <2>1. batch' # <<>> => 1 \in 1 .. n
    BY <1>1, <1>2
  <2> QED
    BY <1>1, <1>8, <2>1
<1>10. Ahead(c)' = n /\ \A d \in Clients \ {c} : Ahead(d)' = 0
  <2>1. batch' = <<>> => n = 0
    BY <1>1, <1>2
  <2> QED
    BY <1>7, <1>9, <2>1 DEF Ahead
<1>11. ASSUME NEW d \in Clients
       PROVE  /\ Len(results[d]) <= handled'[d]
              /\ conn[d] # "closed" => handled'[d] = Len(results[d]) + Ahead(d)'
  <2>1. CASE d = c
    BY <1>1, <1>4, <1>6, <1>10, <2>1, StepTypes
  <2>2. CASE d # c
    <3>1. handled'[d] = handled[d] /\ Len(results[d]) <= handled[d]
      BY <1>2, <2>2, StepTypes DEF InStep
    <3> QED
      BY <1>5, <1>10, <2>2, <3>1, StepTypes
  <2> QED
    BY <2>1, <2>2
<1>12. batch' # <<>> => conn'[batch'[1][1]] = "open"
  BY <1>2, <1>9
<1>13. \A j \in 1 .. Len(batch') : batch'[j] = <<batch'[1][1], Len(results'[batch'[1][1]]) + j>>
  <2>1. ASSUME NEW j \in 1 .. n PROVE batch'[1][1] = c
    BY <1>1, <1>2, <1>9
  <2> QED
    BY <1>2, <1>7, <1>8, <2>1
<1> QED
  BY <1>2, <1>7, <1>11, <1>12, <1>13 DEF InStep

LEMMA AnswerKeepsStep ==
  ASSUME LoopInv, InStep, Answers, pg_answer' \in Seq(0 .. 255)
  PROVE  InStep'
<1>0. PICK c \in Clients : c = batch[1][1]
  BY StepTypes DEF Answers
<1> DEFINE m == Len(results[c])
<1>1. /\ batch \in Seq(Clients \X (1 .. MAX_REQUESTS)) /\ batch # <<>>
      /\ Len(batch) \in Nat \ {0}
      /\ batch' = Tail(batch) /\ UNCHANGED <<conn, handled>>
  BY StepTypes DEF Answers
<1>2. results \in [Clients -> Seq(Seq(0 .. 255))] /\ results[c] \in Seq(Seq(0 .. 255)) /\ m \in Nat
  BY <1>1 DEF InStep
<1>3. results' = [results EXCEPT ![c] = Append(results[c], pg_answer')]
  <2>1. Head(batch) = batch[1]
    BY <1>1
  <2>2. results' = [results EXCEPT ![Head(batch)[1]] = Append(results[Head(batch)[1]], pg_answer')]
    BY DEF Answers
  <2> QED
    BY <1>0, <2>1, <2>2
<1>4. \A j \in 1 .. Len(batch) : batch[j] = <<c, m + j>>
  BY <1>0 DEF InStep
<1>5. conn[c] = "open" /\ handled[c] = m + Len(batch)
      /\ \A d \in Clients \ {c} : conn[d] # "closed" => handled[d] = Len(results[d])
  <2>1. conn[c] = "open" /\ \A d \in Clients : conn[d] # "closed" => handled[d] = Len(results[d]) + Ahead(d)
    BY <1>0, <1>1 DEF InStep
  <2>2. Ahead(c) = Len(batch) /\ \A d \in Clients \ {c} : Ahead(d) = 0
    BY <1>0, <1>1 DEF Ahead
  <2>3. \A d \in Clients : Len(results[d]) \in Nat
    BY StepTypes
  <2>4. handled[c] = m + Len(batch)
    BY <1>1, <2>1, <2>2
  <2>5. ASSUME NEW d \in Clients \ {c}, conn[d] # "closed" PROVE handled[d] = Len(results[d])
    BY <2>1, <2>2, <2>3, <2>5
  <2> QED
    BY <2>1, <2>4, <2>5
<1>6. Append(results[c], pg_answer') \in Seq(Seq(0 .. 255)) /\ Len(Append(results[c], pg_answer')) = m + 1
  BY <1>2
<1>7. /\ results' \in [Clients -> Seq(Seq(0 .. 255))]
      /\ Len(results'[c]) = m + 1
      /\ \A d \in Clients \ {c} : results'[d] = results[d]
  BY <1>1, <1>2, <1>3, <1>6
<1>8. /\ batch' \in Seq(Clients \X (1 .. MAX_REQUESTS)) /\ Len(batch') = Len(batch) - 1
      /\ \A j \in 1 .. Len(batch) - 1 : batch'[j] = batch[j + 1]
  BY <1>1
<1>9. \A j \in 1 .. Len(batch') : batch'[j] = <<c, (m + 1) + j>>
  <2> TAKE j \in 1 .. Len(batch')
  <2>1. j + 1 \in 1 .. Len(batch) /\ m + (j + 1) = (m + 1) + j
    BY <1>1, <1>2, <1>8
  <2> HIDE DEF m
  <2>2. batch'[j] = <<c, m + (j + 1)>>
    BY <1>4, <1>8, <2>1
  <2> QED
    BY <2>1, <2>2
<1>10. batch' # <<>> => batch'[1][1] = c
  <2>1. batch' # <<>> => 1 \in 1 .. Len(batch')
    BY <1>8
  <2> QED
    BY <1>9, <2>1
<1>11. Ahead(c)' = Len(batch) - 1 /\ \A d \in Clients \ {c} : Ahead(d)' = 0
  <2>1. CASE batch' = <<>>
    <3>1. Len(batch) - 1 = 0
      BY <1>8, <2>1
    <3> QED
      BY <2>1, <3>1 DEF Ahead
  <2>2. CASE batch' # <<>>
    BY <1>8, <1>10, <2>2 DEF Ahead
  <2> QED
    BY <2>1, <2>2
<1> HIDE DEF m
<1>12. ASSUME NEW d \in Clients
       PROVE  /\ Len(results'[d]) <= handled[d]
              /\ conn[d] # "closed" => handled[d] = Len(results'[d]) + Ahead(d)'
  <2>1. CASE d = c
    <3>1. /\ Len(results'[d]) = m + 1 /\ Ahead(d)' = Len(batch) - 1
          /\ handled[d] = m + Len(batch)
      BY <1>5, <1>7, <1>11, <2>1
    <3>2. m + Len(batch) = (m + 1) + (Len(batch) - 1) /\ m + 1 <= m + Len(batch)
      BY <1>1, <1>2
    <3> QED
      BY <3>1, <3>2
  <2>2. CASE d # c
    <3>1. Len(results[d]) <= handled[d]
      BY DEF InStep
    <3> QED
      BY <1>5, <1>7, <1>11, <2>2, <3>1, StepTypes
  <2> QED
    BY <2>1, <2>2
<1>13. ASSUME NEW j \in 1 .. Len(batch')
       PROVE  batch'[j] = <<batch'[1][1], Len(results'[batch'[1][1]]) + j>>
  <2>1. batch'[1][1] = c
    <3>1. batch' # <<>>
      BY <1>8
    <3> QED
      BY <1>10, <3>1
  <2> QED
    BY <1>7, <1>9, <2>1
<1> QED
  BY <1>1, <1>5, <1>7, <1>8, <1>10, <1>12, <1>13 DEF InStep

LEMMA InStepPreserved ==
  ASSUME LoopInv, LoopInv', InStep, [PNext]_pvars, pg_answer' \in Seq(0 .. 255)
  PROVE  InStep'
<1>1. CASE Quiet
  <2>1. \A c \in Clients : Ahead(c)' = Ahead(c)
    BY <1>1 DEF Quiet, Ahead
  <2> QED
    BY <1>1, <2>1 DEF Quiet, InStep
<1>2. CASE Ends
  <2>1. batch' \in Seq(Clients \X (1 .. MAX_REQUESTS)) /\ batch' = <<>> /\ Len(batch') = 0
    BY <1>2 DEF Ends
  <2>2. ASSUME NEW c \in Clients, conn'[c] # "closed"
        PROVE  handled[c] = Len(results[c]) + Ahead(c)'
    <3>1. conn[c] \notin {"open", "closed"}
      BY <1>2, <2>2 DEF Ends
    <3>2. Ahead(c) = 0 /\ Ahead(c)' = 0 /\ handled[c] = Len(results[c]) + Ahead(c)
      BY <2>1, <3>1 DEF Ahead, InStep
    <3> QED
      BY <3>2
  <2> QED
    BY <1>2, <2>1, <2>2 DEF Ends, InStep
<1>3. ASSUME NEW c \in Clients, Reads(c) PROVE InStep'
  BY <1>3, ReadKeepsStep
<1>4. CASE Answers
  BY <1>4, AnswerKeepsStep
<1> QED
  BY <1>1, <1>2, <1>3, <1>4, StepKinds

-----------------------------------------------------------------------------
(***************************************************************************)
(* What was asked, and what the keys of the requests have held since.      *)
(***************************************************************************)

\* What clients were told of the keys is typed; it is recorded in every step, or
\* left alone.
LEMMA AckedTypes ==
  ASSUME IInv', acked \in [Keys -> Contents], [CNext]_cvars
  PROVE  acked' \in [Keys -> Contents]
<1>1. Recorded \/ UNCHANGED acked
  BY DEF CNext, process_redis_to_postgres, process_get, process_set, process_del, Delete, DeleteNext,
         process_command, process_ping, process_error, WithoutData, EndOfRead,
         on_timer_timeout_cb, WorkerEnds, Restart, cvars, hvars
<1>2. CASE Recorded
  <2>1. db' \in [Keys -> Contents] /\ reply' \in Replies
    BY DEF IInv, TypeOK
  <2>2. reply'.op = "SET" => reply'.key \in Keys /\ reply'.value \in Contents
    BY <2>1 DEF Replies, NoReply, Contents
  <2>3. Absent \in Contents
    BY DEF Contents
  <2> QED
    BY <1>2, <2>1, <2>2, <2>3 DEF Recorded, Acknowledge
<1> QED
  BY <1>1, <1>2

Histories ==
  /\ orders \in [Clients -> Seq(Requests)]
  /\ window \in [Clients -> Seq(SUBSET Contents)]
  /\ \A c \in Clients : /\ [i \in DOMAIN orders[c] |-> Kind(orders[c][i])] = asked[c]
                        /\ Len(window[c]) = Len(orders[c])

\* A step that is no sending leaves the requests alone; what it leaves in the
\* keys is added to the windows.
Sees == UNCHANGED <<orders, asked>> /\ (WindowsGrow \/ UNCHANGED window)

\* The first piece of request r is sent.
Asks(c, r) ==
  /\ orders' = [orders EXCEPT ![c] = Append(@, r)]
  /\ asked' = [asked EXCEPT ![c] = Append(@, Kind(r))]
  /\ window' = [window EXCEPT ![c] = Append(@, IF r.name = "GET" THEN {acked[r.key]} ELSE {})]

LEMMA SendIsAStep ==
  ASSUME LoopInv, Histories, NEW c \in Clients, Send(c)
  PROVE  Sees \/ \E r \in Requests : Asks(c, r)
<1>1. asked \in [Clients -> Seq({Kind(r) : r \in Requests})]
  BY DEF LoopInv, LP!IInv, LP!TypeOK
<1>2. CASE UNCHANGED asked
  <2>1. UNCHANGED <<orders, window>>
    BY <1>2 DEF Send
  <2> QED
    BY <1>2, <2>1 DEF Sees
<1>3. ASSUME NEW command \in {Kind(r) : r \in Requests},
             asked' = [asked EXCEPT ![c] = Append(@, command)]
      PROVE  \E r \in Requests : Asks(c, r)
  <2>1. asked[c] \in Seq({Kind(r) : r \in Requests}) /\ asked'[c] = Append(asked[c], command)
    BY <1>1, <1>3
  <2>2. asked'[c] # asked[c] /\ asked'[c][Len(asked'[c])] = command
    <3>1. Len(asked'[c]) = Len(asked[c]) + 1 /\ Len(asked[c]) \in Nat
      BY <2>1
    <3> QED
      BY <2>1, <3>1
  <2>3. PICK r \in Requests :
          /\ Kind(r) = asked'[c][Len(asked'[c])]
          /\ orders' = [orders EXCEPT ![c] = Append(@, r)]
          /\ window' = [window EXCEPT ![c] = Append(@, IF r.name = "GET" THEN {acked[r.key]} ELSE {})]
    BY <2>2 DEF Send
  <2> QED
    BY <1>3, <2>2, <2>3 DEF Asks
<1> QED
  BY <1>2, <1>3 DEF Send, Loop!Send

LEMMA HistorySteps ==
  ASSUME LoopInv, Histories, [PNext]_pvars
  PROVE  Sees \/ \E c \in Clients, r \in Requests : Asks(c, r)
<1>1. ASSUME NEW c \in Clients, Send(c) PROVE Sees \/ \E r \in Requests : Asks(c, r)
  BY <1>1, SendIsAStep
<1>2. ASSUME NEW c \in Clients, Receive(c) \/ ConnectOrLeave(c) PROVE Sees
  BY <1>2 DEF Receive, ConnectOrLeave, Loop!Receive, Loop!Connect, Loop!Leave, historyVars, Sees
<1>3. CASE TimerExpires \/ TimerCallback \/ ReadReturns \/ UNCHANGED pvars
  BY <1>3 DEF TimerExpires, TimerCallback, ReadReturns, pvars, loopVars, historyVars, Sees
<1>4. CASE Poll
  BY <1>4 DEF Poll, Loop!Poll, Loop!clientVars, historyVars, Sees
<1>5. CASE WorkerStarts
  BY <1>5 DEF WorkerStarts, Loop!proxy_start_work, Loop!clientVars, historyVars, Sees
<1>6. CASE WorkerStops
  BY <1>6 DEF WorkerStops, Loop!Terminate, Loop!Exit, Sees
<1>7. Carried => WindowsGrow \/ UNCHANGED window
  BY DEF Carried
<1>8. Loop!Exit => UNCHANGED asked
  BY DEF Loop!Exit
<1>9. CASE SocketCallback
  <2>1. Loop!on_accept_cb => UNCHANGED asked
    BY <1>8 DEF Loop!on_accept_cb, Loop!clientVars
  <2>2. ASSUME NEW c \in Clients,
               \/ Loop!on_write_cb(c) \/ Loop!WritePasses(c)
               \/ Loop!WriteReturnsShort(c) \/ Loop!WriteEndsWorker(c)
        PROVE  UNCHANGED asked
    <3>1. Loop!on_write_cb(c) \/ Loop!WritePasses(c) \/ Loop!WriteReturnsShort(c) => UNCHANGED asked
      BY DEF Loop!on_write_cb, Loop!WritePasses, Loop!WriteReturnsShort, Loop!clientVars
    <3>2. Loop!WriteEndsWorker(c) => Loop!Exit
      BY DEF Loop!WriteEndsWorker
    <3> QED
      BY <1>8, <2>2, <3>1, <3>2
  <2> QED
    BY <1>7, <1>9, <2>1, <2>2 DEF SocketCallback, Sees
<1>10. ASSUME NEW c \in Clients, on_read_cb(c) PROVE Sees
  <2>1. Loop!on_read_cb(c) => UNCHANGED asked
    BY <1>8 DEF Loop!on_read_cb, Loop!close_connection, Loop!Released
  <2> QED
    BY <1>7, <1>10, <2>1 DEF on_read_cb, Sees
<1>11. CASE ProcessNext
  BY <1>11 DEF ProcessNext, loopVars, Sees
<1> QED
  BY <1>1, <1>2, <1>3, <1>4, <1>5, <1>6, <1>9, <1>10, <1>11 DEF PNext, Turn

LEMMA HistoriesPreserved ==
  ASSUME LoopInv, Histories, [PNext]_pvars, acked \in [Keys -> Contents], acked' \in [Keys -> Contents]
  PROVE  Histories'
<1>1. /\ asked \in [Clients -> Seq({Kind(r) : r \in Requests})]
      /\ orders \in [Clients -> Seq(Requests)]
      /\ window \in [Clients -> Seq(SUBSET Contents)]
      /\ \A c \in Clients : /\ [i \in DOMAIN orders[c] |-> Kind(orders[c][i])] = asked[c]
                            /\ Len(window[c]) = Len(orders[c])
  BY DEF LoopInv, LP!IInv, LP!TypeOK, Histories
<1>2. CASE Sees
  <2>1. UNCHANGED <<orders, asked>>
    BY <1>2 DEF Sees
  <2>2. CASE UNCHANGED window
    BY <1>1, <2>1, <2>2 DEF Histories
  <2>3. CASE WindowsGrow
    <3>1. ASSUME NEW c \in Clients
          PROVE  window'[c] \in Seq(SUBSET Contents) /\ Len(window'[c]) = Len(window[c])
      <4> DEFINE w(n) == IF n > Len(results[c]) /\ orders[c][n].name = "GET"
                         THEN window[c][n] \cup {acked'[orders[c][n].key]}
                         ELSE window[c][n]
      <4>1. window'[c] = [n \in DOMAIN window[c] |-> w(n)]
        BY <2>3 DEF WindowsGrow
      <4>2. /\ window[c] \in Seq(SUBSET Contents) /\ Len(window[c]) \in Nat
            /\ orders[c] \in Seq(Requests) /\ Len(window[c]) = Len(orders[c])
            /\ DOMAIN window[c] = 1 .. Len(window[c])
        BY <1>1
      <4>3. ASSUME NEW n \in 1 .. Len(window[c]) PROVE w(n) \in SUBSET Contents
        <5>1. window[c][n] \in SUBSET Contents /\ orders[c][n] \in Requests
          BY <4>2, ElementOfSeq
        <5>2. orders[c][n].name = "GET" => orders[c][n].key \in Keys
          BY <5>1, RequestParts
        <5>3. orders[c][n].name = "GET" => acked'[orders[c][n].key] \in Contents
          BY <5>2
        <5> QED
          BY <5>1, <5>3
      <4> HIDE DEF w
      <4> QED
        BY <4>1, <4>2, <4>3
    <3>2. window' = [c \in Clients |-> window'[c]]
      BY <2>3 DEF WindowsGrow
    <3> QED
      BY <1>1, <2>1, <3>1, <3>2 DEF Histories
  <2> QED
    BY <1>2, <2>2, <2>3 DEF Sees
<1>3. ASSUME NEW c \in Clients, NEW r \in Requests, Asks(c, r) PROVE Histories'
  <2> DEFINE w == IF r.name = "GET" THEN {acked[r.key]} ELSE {}
  <2>1. w \in SUBSET Contents
    BY RequestParts
  <2>2. /\ orders' = [orders EXCEPT ![c] = Append(orders[c], r)]
        /\ asked' = [asked EXCEPT ![c] = Append(asked[c], Kind(r))]
        /\ window' = [window EXCEPT ![c] = Append(window[c], w)]
    BY <1>3 DEF Asks
  <2> HIDE DEF w
  <2>3. orders[c] \in Seq(Requests) /\ window[c] \in Seq(SUBSET Contents) /\ Len(window[c]) = Len(orders[c])
    BY <1>1
  <2>4. /\ Append(orders[c], r) \in Seq(Requests) /\ Append(window[c], w) \in Seq(SUBSET Contents)
        /\ Len(Append(window[c], w)) = Len(Append(orders[c], r))
    BY <2>1, <2>3
  <2>5. [i \in DOMAIN Append(orders[c], r) |-> Kind(Append(orders[c], r)[i])] = Append(asked[c], Kind(r))
    <3> DEFINE o == orders[c]
    <3>1. o \in Seq(Requests) /\ [i \in DOMAIN o |-> Kind(o[i])] = asked[c]
      BY <1>1
    <3> HIDE DEF o
    <3> QED
      BY <3>1 DEF o
  <2> QED
    BY <1>1, <2>2, <2>4, <2>5 DEF Histories
<1> QED
  BY <1>2, <1>3, HistorySteps

-----------------------------------------------------------------------------
(***************************************************************************)
(* Types.                                                                  *)
(***************************************************************************)

\* What the composition keeps, whatever fits in the cache and whatever write(2)
\* returns.
ProxyInv ==
  /\ LoopInv
  /\ IInv /\ CommandsTypeOK /\ acked \in [Keys -> Contents]
  /\ InStep
  /\ Histories
  /\ timer \in {"set", "expired", "pending"}

LEMMA ProxyInvInit == PInit => ProxyInv
<1> SUFFICES ASSUME PInit PROVE ProxyInv
  OBVIOUS
<1>1. IInv /\ acked \in [Keys -> Contents]
  BY InitInvariant DEF PInit, CInit, HInit, Init
<1>2. CommandsTypeOK
  BY CommandsTypeInit DEF PInit
<1>3. Histories
  <2>1. /\ orders = [c \in Clients |-> <<>>] /\ window = [c \in Clients |-> <<>>]
        /\ asked = [c \in Clients |-> <<>>]
    BY DEF PInit, Loop!Init
  <2>2. [i \in DOMAIN <<>> |-> Kind(<<>>[i])] = <<>>
    OBVIOUS
  <2> QED
    BY <2>1, <2>2 DEF Histories
<1> QED
  BY <1>1, <1>2, <1>3, LoopInvInit, InStepInit DEF PInit, ProxyInv

LEMMA ProxyInvStep == ProxyInv /\ [PNext]_pvars => ProxyInv'
<1> SUFFICES ASSUME ProxyInv, [PNext]_pvars PROVE ProxyInv'
  OBVIOUS
<1>1. LoopInv'
  BY LoopInvStep DEF ProxyInv
<1>2. IInv' /\ CommandsTypeOK'
  BY NextOfCommands, CommandsTypeStep DEF ProxyInv
<1>3. acked' \in [Keys -> Contents]
  BY <1>2, NextOfCommands, AckedTypes DEF ProxyInv
<1>4. InStep'
  BY <1>1, <1>2, InStepPreserved DEF ProxyInv, CommandsTypeOK
<1>5. Histories'
  BY <1>3, HistoriesPreserved DEF ProxyInv
<1>6. timer' \in {"set", "expired", "pending"}
  BY DEF ProxyInv, PNext, Turn, Send, Receive, ConnectOrLeave, TimerExpires, Poll, TimerCallback,
         SocketCallback, Carried, on_read_cb, ProcessNext, ReadReturns, WorkerStops, WorkerStarts, pvars
<1> QED
  BY <1>1, <1>2, <1>3, <1>4, <1>5, <1>6 DEF ProxyInv

\* The requests of a chunk are carried out for the client that sent them, their
\* answers never outrun its reads, and every request has a window of the contents
\* it may be answered with (on_read_cb, process_redis_to_postgres).
THEOREM ProxyTypeCorrect == PSpec => []ProxyTypeOK
<1>1. ProxyInv => ProxyTypeOK
  BY DEF ProxyInv, InStep, Histories, ProxyTypeOK
<1> QED
  BY <1>1, ProxyInvInit, ProxyInvStep, PTL DEF PSpec

-----------------------------------------------------------------------------
(***************************************************************************)
(* When replies are sent. The loop counts a request as processed as soon as*)
(* its chunk is taken; here its reply waits until it is carried out, and no*)
(* piece of it is sent before.                                             *)
(***************************************************************************)

LEMMA Sums ==
  /\ \A a, b \in Nat : a + b \in Nat /\ (a + 1) + (b - 1) = a + b
  /\ \A a, b, n \in Nat : a + b <= n => a <= n
  /\ \A a, m, n \in Nat : a <= m /\ m <= n => a <= n
OBVIOUS

\* Nothing is written to the client of the read callback that is under way.
LEMMA NothingWrittenInRead ==
  ASSUME LoopInv, InStep, [PNext]_pvars,
         NEW c \in Clients, batch' # <<>>, c = batch'[1][1], peer'[c] = "connected"
  PROVE  /\ peer[c] = "connected"
         /\ Len(received'[c]) + Len(outbound'[c]) = Len(received[c]) + Len(outbound[c])
<1>1. /\ peer \in [Clients -> {"absent", "connected", "finished", "reset"}]
      /\ received \in [Clients -> Seq(LP!Pieces(REPLY_PARTS))]
      /\ outbound \in [Clients -> Seq(LP!Pieces(REPLY_PARTS))]
      /\ \A d \in Clients : conn[d] = "none" <=> peer[d] = "absent"
  BY DEF LoopInv, LP!IInv, LP!TypeOK, LP!Served, LP!Linked
<1>2. ASSUME UNCHANGED <<peer, received, outbound>>
      PROVE  /\ peer[c] = "connected"
             /\ Len(received'[c]) + Len(outbound'[c]) = Len(received[c]) + Len(outbound[c])
  BY <1>2
<1>3. ASSUME NEW d \in Clients, Receive(d)
      PROVE  /\ peer[c] = "connected"
             /\ Len(received'[c]) + Len(outbound'[c]) = Len(received[c]) + Len(outbound[c])
  <2>1. /\ UNCHANGED peer /\ outbound[d] # <<>>
        /\ received' = [received EXCEPT ![d] = Append(received[d], Head(outbound[d]))]
        /\ outbound' = [outbound EXCEPT ![d] = Tail(outbound[d])]
    BY <1>3 DEF Receive, Loop!Receive
  <2>2. CASE c = d
    <3>1. received'[c] = Append(received[c], Head(outbound[c])) /\ outbound'[c] = Tail(outbound[c])
      BY <1>1, <2>1, <2>2
    <3>2. /\ received[c] \in Seq(LP!Pieces(REPLY_PARTS)) /\ outbound[c] \in Seq(LP!Pieces(REPLY_PARTS))
          /\ outbound[c] # <<>>
      BY <1>1, <2>1, <2>2
    <3>3. /\ Len(received'[c]) = Len(received[c]) + 1 /\ Len(received[c]) \in Nat
          /\ Len(outbound'[c]) = Len(outbound[c]) - 1 /\ Len(outbound[c]) \in Nat
      BY <3>1, <3>2
    <3>4. (Len(received[c]) + 1) + (Len(outbound[c]) - 1) = Len(received[c]) + Len(outbound[c])
      BY <3>3, Sums, Zenon
    <3>5. Len(received'[c]) + Len(outbound'[c]) = Len(received[c]) + Len(outbound[c])
      BY <3>3, <3>4, Zenon
    <3>6. peer[c] = "connected"
      BY <2>1, Zenon
    <3> QED
      BY <3>5, <3>6
  <2>3. CASE c # d
    <3>1. received'[c] = received[c] /\ outbound'[c] = outbound[c]
      BY <1>1, <2>1, <2>3
    <3> QED
      BY <2>1, <3>1
  <2> QED
    BY <2>2, <2>3
<1>4. ASSUME NEW d \in Clients, ConnectOrLeave(d)
      PROVE  /\ peer[c] = "connected"
             /\ Len(received'[c]) + Len(outbound'[c]) = Len(received[c]) + Len(outbound[c])
  <2>1. UNCHANGED batch
    BY <1>4 DEF ConnectOrLeave
  <2>2. conn[c] = "open"
    BY <2>1 DEF InStep
  <2>3. CASE Loop!Connect(d)
    <3>1. c # d
      BY <1>1, <2>2, <2>3 DEF Loop!Connect
    <3> QED
      BY <1>1, <2>3, <3>1 DEF Loop!Connect
  <2>4. CASE Loop!Leave(d)
    <3>1. c # d
      BY <1>1, <2>4 DEF Loop!Leave
    <3> QED
      BY <1>1, <2>4, <3>1 DEF Loop!Leave
  <2> QED
    BY <1>4, <2>3, <2>4 DEF ConnectOrLeave
<1>5. ASSUME NEW d \in Clients, Send(d) PROVE UNCHANGED <<peer, received, outbound>>
  BY <1>5 DEF Send, Loop!Send
<1>6. CASE TimerExpires \/ ProcessNext \/ UNCHANGED pvars
  BY <1>2, <1>6 DEF TimerExpires, ProcessNext, pvars, loopVars
<1>7. CASE WorkerStarts
  BY <1>2, <1>7 DEF WorkerStarts, Loop!proxy_start_work, Loop!clientVars
<1>8. CASE WorkerStops
  BY <1>8 DEF WorkerStops
<1>9. CASE Poll \/ TimerCallback \/ SocketCallback \/ ReadReturns
  BY <1>9 DEF Poll, TimerCallback, TimerRuns, SocketCallback, ReadReturns, InRead
<1>10. ASSUME NEW d \in Clients, on_read_cb(d) PROVE UNCHANGED <<peer, received, outbound>>
  <2>1. LP!on_read_cb(d) /\ Loop!on_read_cb(d) /\ batch = <<>>
    BY <1>10, SameRead DEF on_read_cb, InRead
  <2>2. batch' = IF worker' = "up" THEN [j \in DOMAIN LP!Done(d) |-> <<d, LP!Done(d)[j][1]>>] ELSE <<>>
    BY <1>10, SameChunk DEF on_read_cb, LP!Done
  <2>3. ~ LP!Exit
    BY <2>2 DEF LP!Exit
  <2>4. Len(LP!read_data(d)) # 0
    <3>1. Len(LP!read_data(d)) = 0 => LP!Done(d) = <<>>
      BY LP!ReadOfNothing, LoopSizes DEF LoopInv
    <3>2. LP!Done(d) = <<>> => batch' = <<>>
      BY <2>2
    <3> QED
      BY <3>1, <3>2
  <2> QED
    BY <2>1, <2>3, <2>4 DEF LP!on_read_cb, LP!close_connection
<1> QED
  BY <1>2, <1>3, <1>4, <1>5, <1>6, <1>7, <1>8, <1>9, <1>10 DEF PNext, Turn

\* What a client has received and what the kernel holds for it are pieces of the
\* answers it was given.
Passed ==
  \A c \in Clients :
    /\ Len(received[c]) <= Len(results[c]) * REPLY_PARTS
    /\ peer[c] = "connected" =>
         Len(received[c]) + Len(outbound[c]) <= Len(results[c]) * REPLY_PARTS

\* Answers are only added.
LEMMA ResultsGrow ==
  ASSUME LoopInv, InStep, [PNext]_pvars, NEW c \in Clients
  PROVE  /\ Len(results[c]) <= Len(results'[c])
         /\ \A n \in 1 .. Len(results[c]) : results'[c][n] = results[c][n]
<1>1. results \in [Clients -> Seq(Seq(0 .. 255))] /\ results[c] \in Seq(Seq(0 .. 255))
      /\ Len(results[c]) \in Nat
  BY DEF InStep
<1>2. CASE UNCHANGED results
  BY <1>1, <1>2
<1>3. ASSUME NEW d, NEW answered, results' = [results EXCEPT ![d] = Append(results[d], answered)]
      PROVE  /\ Len(results[c]) <= Len(results'[c])
             /\ \A n \in 1 .. Len(results[c]) : results'[c][n] = results[c][n]
  <2>1. CASE c = d
    <3>1. results'[c] = Append(results[c], answered)
      BY <1>1, <1>3, <2>1
    <3> QED
      BY <1>1, <3>1
  <2>2. CASE c # d
    <3>1. results'[c] = results[c]
      BY <1>1, <1>3, <2>2
    <3> QED
      BY <1>1, <3>1
  <2> QED
    BY <2>1, <2>2
<1> QED
  BY <1>2, <1>3, StepKinds DEF Quiet, Ends, Reads, Answers

LEMMA PassedInit == PInit => Passed
<1> SUFFICES ASSUME PInit, NEW c \in Clients
             PROVE  /\ Len(received[c]) <= Len(results[c]) * REPLY_PARTS
                    /\ peer[c] = "connected" =>
                         Len(received[c]) + Len(outbound[c]) <= Len(results[c]) * REPLY_PARTS
  BY DEF Passed
<1>1. received[c] = <<>> /\ results[c] = <<>> /\ peer[c] = "absent"
  BY DEF PInit, Loop!Init
<1>2. 0 * REPLY_PARTS = 0
  BY LoopSizes
<1>3. Len(<<>>) = 0
  OBVIOUS
<1> QED
  BY <1>1, <1>2, <1>3

\* What is delivered to a client is at least what it has and what the kernel holds.
Surpassed ==
  \A c \in Clients : /\ Len(received[c]) \in Nat /\ Len(outbound[c]) \in Nat
                     /\ Len(received[c]) + Len(outbound[c]) <= Len(LP!Delivered(c))

LEMMA DeliveredSurpasses == LoopInv => Surpassed
<1> SUFFICES ASSUME LoopInv, NEW c \in Clients
             PROVE  /\ Len(received[c]) \in Nat /\ Len(outbound[c]) \in Nat
                    /\ Len(received[c]) + Len(outbound[c]) <= Len(LP!Delivered(c))
  BY DEF Surpassed
<1>1. /\ received[c] \in Seq(LP!Pieces(REPLY_PARTS))
      /\ outbound[c] \in Seq(LP!Pieces(REPLY_PARTS))
      /\ LP!Unsent(c) \in Seq(LP!Pieces(REPLY_PARTS))
  BY LP!WayTypes, LoopSizes DEF LoopInv, LP!WayTyped
<1>2. Len(LP!Delivered(c)) = Len(received[c]) + Len(outbound[c]) + Len(LP!Unsent(c))
  BY <1>1, LP!WayLength, LoopSizes, ZenonT(40) DEF LP!Delivered
<1>3. Len(received[c]) \in Nat /\ Len(outbound[c]) \in Nat /\ Len(LP!Unsent(c)) \in Nat
  BY <1>1
<1>4. \A r, o, u \in Nat : r + o <= r + o + u
  OBVIOUS
<1> QED
  BY <1>2, <1>3, <1>4, Zenon

LEMMA DeliveredSurpassesNext == (LoopInv => Surpassed)'
BY DeliveredSurpasses, PTL

LEMMA PassedPreserved ==
  ASSUME LoopInv, LoopInv', InStep, InStep', Passed, [PNext]_pvars
  PROVE  Passed'
<1> SUFFICES ASSUME NEW c \in Clients
             PROVE  /\ Len(received'[c]) <= Len(results'[c]) * REPLY_PARTS
                    /\ peer'[c] = "connected" =>
                         Len(received'[c]) + Len(outbound'[c]) <= Len(results'[c]) * REPLY_PARTS
  BY DEF Passed
<1>1. /\ Len(received[c]) \in Nat /\ Len(outbound[c]) \in Nat
      /\ Len(received'[c]) \in Nat /\ Len(outbound'[c]) \in Nat
  BY DeliveredSurpasses, DeliveredSurpassesNext DEF Surpassed
<1>2. /\ Len(results[c]) \in Nat /\ Len(results'[c]) \in Nat /\ handled'[c] \in Nat
      /\ Len(results[c]) <= Len(results'[c])
      /\ peer'[c] = "connected" => conn'[c] # "closed"
  <2>1. results[c] \in Seq(Seq(0 .. 255)) /\ results'[c] \in Seq(Seq(0 .. 255))
    BY DEF InStep
  <2>2. Len(results[c]) \in Nat /\ Len(results'[c]) \in Nat
    BY <2>1
  <2>3. handled'[c] \in Nat /\ (peer'[c] = "connected" => conn'[c] # "closed")
    BY LoopSizes DEF LoopInv, LP!IInv, LP!TypeOK, LP!Served, LP!Linked
  <2> QED
    BY <2>2, <2>3, ResultsGrow
<1>3. /\ Len(results[c]) * REPLY_PARTS \in Nat /\ Len(results'[c]) * REPLY_PARTS \in Nat
      /\ Len(results[c]) * REPLY_PARTS <= Len(results'[c]) * REPLY_PARTS
  BY <1>2, LoopSizes, LP!Sizes, LP!ProductGrows
<1>4. ASSUME peer'[c] = "connected"
      PROVE  Len(received'[c]) + Len(outbound'[c]) <= Len(results'[c]) * REPLY_PARTS
  <2>1. CASE batch' # <<>> /\ batch'[1][1] = c
    <3>1. /\ peer[c] = "connected"
          /\ Len(received'[c]) + Len(outbound'[c]) = Len(received[c]) + Len(outbound[c])
      BY <1>4, <2>1, NothingWrittenInRead
    <3>2. Len(received[c]) + Len(outbound[c]) <= Len(results[c]) * REPLY_PARTS
      BY <3>1 DEF Passed
    <3>3. Len(received[c]) + Len(outbound[c]) \in Nat
      BY <1>1, Sums, Zenon
    <3>4. Len(received[c]) + Len(outbound[c]) <= Len(results'[c]) * REPLY_PARTS
      <4> DEFINE passed == Len(received[c]) + Len(outbound[c])
                 before == Len(results[c]) * REPLY_PARTS
                 after == Len(results'[c]) * REPLY_PARTS
      <4>1. /\ passed \in Nat /\ before \in Nat /\ after \in Nat
            /\ passed <= before /\ before <= after
        BY <1>3, <3>2, <3>3, Zenon
      <4> HIDE DEF passed, before, after
      <4>2. passed <= after
        BY <4>1
      <4> QED
        BY <4>2, Zenon DEF passed, after
    <3> QED
      BY <3>1, <3>4, Zenon
  <2>2. CASE ~ (batch' # <<>> /\ batch'[1][1] = c)
    <3>1. handled'[c] = Len(results'[c])
      <4>1. Ahead(c)' = 0
        BY <2>2 DEF Ahead
      <4>2. handled'[c] = Len(results'[c]) + Ahead(c)'
        BY <1>2, <1>4 DEF InStep
      <4> QED
        BY <1>2, <4>1, <4>2
    <3>2. Len(LP!Delivered(c)') = handled'[c] * REPLY_PARTS
      BY <1>4 DEF LoopInv, LP!Counted
    <3>3. Len(received'[c]) + Len(outbound'[c]) <= Len(LP!Delivered(c)')
      BY DeliveredSurpassesNext DEF Surpassed
    <3> QED
      BY <3>1, <3>2, <3>3
  <2> QED
    BY <2>1, <2>2
<1>5. CASE peer'[c] = "connected"
  BY <1>1, <1>3, <1>4, <1>5, Sums, Zenon
<1>6. CASE peer'[c] # "connected"
  <2>1. received'[c] = received[c]
    BY <1>6, NextOfLoop, SameNext, LP!HistoryGrows, LoopSizes DEF LoopInv
  <2>2. Len(received[c]) <= Len(results[c]) * REPLY_PARTS
    BY DEF Passed
  <2> QED
    BY <1>1, <1>3, <1>6, <2>1, <2>2, Sums, Zenon
<1> QED
  BY <1>5, <1>6

-----------------------------------------------------------------------------
(***************************************************************************)
(* Which answers are right.                                                *)
(***************************************************************************)

\* The request under way.
InHand == orders[batch[1][1]][batch[1][2]]

\* A DEL that has keys to delete is the request under way, and has counted no
\* more keys than it names.
DelInHand ==
  deleting # <<>> =>
    /\ batch # <<>>
    /\ request = "DEL"
    /\ InHand.name = "DEL"
    /\ expected \in 0 .. Cardinality(Range(InHand.keys))

LEMMA PresentBound ==
  ASSUME NEW keys \in Seq(Keys), NEW a
  PROVE  Cardinality({k \in Range(keys) : a[k] # Absent}) \in 0 .. Cardinality(Range(keys))
<1>1. keys \in Surjection(1 .. Len(keys), Range(keys))
  BY DEF Surjection, Range
<1>2. IsFiniteSet(1 .. Len(keys))
  BY FS_Interval
<1>3. IsFiniteSet(Range(keys))
  BY <1>1, <1>2, FS_Surjection
<1> DEFINE present == {k \in Range(keys) : a[k] # Absent}
<1>4. IsFiniteSet(present) /\ Cardinality(present) <= Cardinality(Range(keys))
  BY <1>3, FS_Subset
<1> QED
  BY <1>3, <1>4, FS_CardinalityType

\* The request under way is one that its client has asked.
LEMMA InHandIsAsked ==
  ASSUME ProxyInv, batch # <<>>
  PROVE  /\ batch[1][1] \in Clients
         /\ batch[1][2] \in 1 .. Len(orders[batch[1][1]])
         /\ batch[1][2] = Len(results[batch[1][1]]) + 1
         /\ Head(batch) = batch[1]
         /\ InHand \in Requests
<1>1. PICK c \in Clients : c = batch[1][1]
  BY StepTypes DEF ProxyInv
<1>2. batch \in Seq(Clients \X (1 .. MAX_REQUESTS)) /\ Len(batch) \in Nat \ {0} /\ Head(batch) = batch[1]
  BY StepTypes DEF ProxyInv
<1>3. batch[1] = <<c, Len(results[c]) + 1>>
  BY <1>1, <1>2 DEF ProxyInv, InStep
<1>4. conn[c] = "open" /\ Ahead(c) = Len(batch) /\ handled[c] = Len(results[c]) + Ahead(c)
  BY <1>1 DEF ProxyInv, InStep, Ahead
<1>5. handled[c] \in Nat /\ Len(results[c]) \in Nat
  BY StepTypes DEF ProxyInv
<1>6. orders[c] \in Seq(Requests) /\ Len(orders[c]) = Len(asked[c]) /\ Len(orders[c]) \in Nat
  <2>1. orders[c] \in Seq(Requests) /\ [i \in DOMAIN orders[c] |-> Kind(orders[c][i])] = asked[c]
    BY DEF ProxyInv, Histories
  <2> QED
    BY <2>1
<1>7. handled[c] <= Len(asked[c])
  BY DEF ProxyInv, LoopInv, LP!IInv, LP!Served, LP!Stream
<1>8. Len(results[c]) + 1 \in 1 .. Len(orders[c])
  <2>1. handled[c] = Len(results[c]) + Len(batch)
    BY <1>4
  <2> QED
    BY <1>2, <1>5, <1>6, <1>7, <2>1
<1>9. orders[c][Len(results[c]) + 1] \in Requests
  BY <1>6, <1>8, ElementOfSeq
<1> QED
  BY <1>1, <1>2, <1>3, <1>8, <1>9 DEF InHand

\* Requests are only added.
LEMMA OrdersGrow ==
  ASSUME ProxyInv, [PNext]_pvars, NEW c \in Clients
  PROVE  \A n \in 1 .. Len(orders[c]) : orders'[c][n] = orders[c][n]
<1>1. orders \in [Clients -> Seq(Requests)] /\ orders[c] \in Seq(Requests)
  BY DEF ProxyInv, Histories
<1>2. CASE Sees
  BY <1>2 DEF Sees
<1>3. ASSUME NEW d \in Clients, NEW r \in Requests, Asks(d, r)
      PROVE  \A n \in 1 .. Len(orders[c]) : orders'[c][n] = orders[c][n]
  <2>1. orders' = [orders EXCEPT ![d] = Append(orders[d], r)]
    BY <1>3 DEF Asks
  <2>2. CASE c = d
    <3>1. orders'[c] = Append(orders[c], r)
      BY <1>1, <2>1, <2>2
    <3> QED
      BY <1>1, <3>1
  <2>3. CASE c # d
    <3>1. orders'[c] = orders[c]
      BY <1>1, <2>1, <2>3
    <3> QED
      BY <3>1
  <2> QED
    BY <2>2, <2>3
<1> QED
  BY <1>2, <1>3, HistorySteps DEF ProxyInv

\* The steps of the commands in a turn of the proxy that carries out no request
\* leave a DEL alone, or it is over.
LEMMA DelLeftAlone ==
  ASSUME [PNext]_pvars, ~ ProcessNext
  PROVE  deleting' = <<>> \/ batch = <<>> \/ UNCHANGED <<deleting, request, expected, batch>>
<1>1. ASSUME NEW c \in Clients, Send(c) \/ Receive(c) \/ ConnectOrLeave(c)
      PROVE  UNCHANGED <<deleting, request, expected, batch>>
  BY <1>1 DEF Send, Receive, ConnectOrLeave, cvars, delVars
<1>2. CASE TimerExpires \/ UNCHANGED pvars
  BY <1>2 DEF TimerExpires, pvars, cvars, delVars
<1>3. CASE Poll \/ TimerCallback \/ SocketCallback \/ \E c \in Clients : on_read_cb(c)
  BY <1>3 DEF Poll, TimerCallback, TimerRuns, SocketCallback, on_read_cb, InRead
<1>4. CASE ReadReturns
  BY <1>4 DEF ReadReturns
<1>5. CASE WorkerStops \/ WorkerStarts
  BY <1>5 DEF WorkerStops, WorkerStarts, Restart, Forgotten, NotDeleting
<1> QED
  BY <1>1, <1>2, <1>3, <1>4, <1>5 DEF PNext, Turn

LEMMA DelInHandPreserved ==
  ASSUME ProxyInv, DelInHand, [PNext]_pvars
  PROVE  DelInHand'
<1> SUFFICES ASSUME deleting' # <<>>
             PROVE  /\ batch' # <<>>
                    /\ request' = "DEL"
                    /\ InHand'.name = "DEL"
                    /\ expected' \in 0 .. Cardinality(Range(InHand'.keys))
  BY DEF DelInHand
<1>1. ASSUME batch # <<>>, UNCHANGED batch PROVE InHand' = InHand
  <2>1. PICK c \in Clients : c = batch[1][1] /\ batch[1][2] \in 1 .. Len(orders[c])
    BY <1>1, InHandIsAsked
  <2>2. orders'[c][batch[1][2]] = orders[c][batch[1][2]]
    BY <2>1, OrdersGrow
  <2> QED
    BY <1>1, <2>1, <2>2 DEF InHand
<1>2. CASE ProcessNext
  <2>1. PICK r \in Requests : UnderWay(r) /\ (Process(r) \/ DeleteNext)
    BY <1>2 DEF ProcessNext
  <2>2. batch # <<>> /\ r = InHand
    BY <2>1, InHandIsAsked DEF UnderWay, InHand
  <2>3. batch' = batch /\ InHand' = r
    BY <1>1, <1>2, <2>2 DEF ProcessNext, Answered
  <2>4. CASE DeleteNext
    BY <2>2, <2>3, <2>4 DEF DeleteNext, DelInHand
  <2>5. CASE Process(r)
    <3>1. r.name = "DEL" /\ process_del(r.keys)
      BY <2>5 DEF Process, process_get, process_set, process_ping, process_error, process_command,
                  WithoutData, NotDeleting
    <3>2. r.keys \in Seq(Keys)
      BY <3>1, RequestParts, CommandsAssumption
    <3>3. expected' \in 0 .. Cardinality(Range(r.keys))
      BY <3>1, <3>2, PresentBound DEF process_del
    <3> QED
      BY <2>2, <2>3, <3>1, <3>3 DEF process_del, Begin
  <2> QED
    BY <2>1, <2>4, <2>5
<1>3. CASE ~ ProcessNext
  <2>1. batch = <<>> => deleting' = <<>>
    <3>1. batch = <<>> => deleting = <<>>
      BY DEF DelInHand
    <3>2. batch = <<>> => deleting' = <<>> \/ UNCHANGED deleting
      BY <1>3 DEF PNext, Turn, Send, Receive, ConnectOrLeave, TimerExpires, Poll, TimerCallback,
                  on_timer_timeout_cb, SocketCallback, on_read_cb, Carried, ReadReturns, EndOfRead,
                  WorkerStops, WorkerStarts, Restart, Forgotten, NotDeleting, pvars, cvars, delVars
    <3> QED
      BY <3>1, <3>2
  <2>2. batch # <<>> /\ UNCHANGED <<deleting, request, expected, batch>>
    BY <1>3, <2>1, DelLeftAlone
  <2> QED
    BY <1>1, <2>2 DEF DelInHand
<1> QED
  BY <1>2, <1>3

LEMMA AnswersOf ==
  ASSUME NEW r, NEW contents
  PROVE  /\ r.name = "GET" => RightAnswers(r, contents) = {ValueAnswer(x) : x \in contents}
         /\ r.name = "SET" => RightAnswers(r, contents) = {<<0>> \o OK \o <<0>>}
         /\ r.name = "DEL" => RightAnswers(r, contents)
                                = {<<2>> \o Decimal[n] : n \in 0 .. Cardinality(Range(r.keys))}
         /\ r.name = "PING" => RightAnswers(r, contents) = {<<0>> \o PONG \o <<0>>}
         /\ r.name \in DOMAIN Message => RightAnswers(r, contents) = {<<1>> \o Message[r.name]}
<1>1. DOMAIN Message = {"SYNTAX", "UNKNOWN"}
  BY DEF Message
<1> DEFINE gets == {ValueAnswer(x) : x \in contents}
           sets == {<<0>> \o OK \o <<0>>}
           dels == {<<2>> \o Decimal[n] : n \in 0 .. Cardinality(Range(r.keys))}
           pings == {<<0>> \o PONG \o <<0>>}
           errors == {<<1>> \o Message[r.name]}
<1>2. RightAnswers(r, contents) = CASE r.name = "GET"  -> gets
                                    [] r.name = "SET"  -> sets
                                    [] r.name = "DEL"  -> dels
                                    [] r.name = "PING" -> pings
                                    [] r.name \in DOMAIN Message -> errors
  BY DEF RightAnswers
<1> HIDE DEF gets, sets, dels, pings, errors
<1>3. /\ r.name = "GET" => RightAnswers(r, contents) = gets
      /\ r.name = "SET" => RightAnswers(r, contents) = sets
      /\ r.name = "DEL" => RightAnswers(r, contents) = dels
      /\ r.name = "PING" => RightAnswers(r, contents) = pings
      /\ r.name \in DOMAIN Message => RightAnswers(r, contents) = errors
  BY <1>1, <1>2
<1> QED
  BY <1>3 DEF gets, sets, dels, pings, errors

\* The answer to the request under way: a GET is answered with what its key holds
\* now, which its window has come to contain.
LEMMA AnswerIsRight ==
  ASSUME ProxyInv, CInv, DelInHand, DelAnswersExpected', LargeValues = {},
         ProcessNext, deleting' = <<>>, InHand.name # "COMMAND"
  PROVE  pg_answer' \in RightAnswers(InHand, window'[batch[1][1]][batch[1][2]])
<1>1. batch # <<>>
  BY DEF ProcessNext, UnderWay
<1>2. PICK c \in Clients : /\ c = batch[1][1]
                           /\ batch[1][2] = Len(results[c]) + 1
                           /\ Len(results[c]) + 1 \in 1 .. Len(orders[c])
  BY <1>1, InHandIsAsked
<1> DEFINE n == Len(results[c]) + 1
<1>3. PICK r \in Requests : UnderWay(r) /\ (Process(r) \/ DeleteNext)
  BY DEF ProcessNext
<1>4. r = InHand /\ r = orders[c][n]
  BY <1>1, <1>2, <1>3, InHandIsAsked DEF UnderWay, InHand
<1> SUFFICES pg_answer' \in RightAnswers(r, window'[c][n])
  BY <1>2, <1>4
<1>5. CASE DeleteNext
  <2>1. r.name = "DEL" /\ expected' = expected /\ expected \in 0 .. Cardinality(Range(r.keys))
        /\ request' = "DEL"
    BY <1>4, <1>5 DEF DeleteNext, DelInHand
  <2>2. pg_answer' = <<2>> \o Decimal[expected]
    BY <2>1 DEF DelAnswersExpected
  <2>3. RightAnswers(r, window'[c][n]) = {<<2>> \o Decimal[m] : m \in 0 .. Cardinality(Range(r.keys))}
    BY <2>1, AnswersOf, Zenon
  <2> QED
    BY <2>1, <2>2, <2>3, Zenon
<1>6. CASE r.name = "GET" /\ process_get(r.key)
  <2>1. r.key \in Keys
    BY <1>6, RequestParts
  <2>2. KV!Get(r.key) /\ worker' = "up"
    BY <1>6, <2>1, GetImplements DEF process_get, req_get, CInv, HInv
  <2>3. reply'.value = acked[r.key] /\ reply'.op = "GET"
    BY <2>2 DEF KV!Get, KV!GetReply, CInv, HInv
  <2>4. acked' = acked
    BY <1>6, <2>2, <2>3 DEF process_get, Recorded, Acknowledge
  <2>5. pg_answer' = ValueAnswer(acked'[r.key])
    BY <1>6, <2>3, <2>4 DEF process_get
  <2>6. acked'[r.key] \in window'[c][n]
    <3>1. n \in DOMAIN window[c]
      <4>1. window[c] \in Seq(SUBSET Contents) /\ Len(window[c]) = Len(orders[c])
        BY DEF ProxyInv, Histories
      <4> QED
        BY <1>2, <4>1
    <3>2. n > Len(results[c])
      <4>1. Len(results[c]) \in Nat
        BY StepTypes DEF ProxyInv
      <4> QED
        BY <4>1
    <3>3. orders[c][n].name = "GET" /\ orders[c][n].key = r.key
      BY <1>4, <1>6
    <3> HIDE DEF n
    <3>4. window'[c][n] = window[c][n] \cup {acked'[r.key]}
      BY <3>1, <3>2, <3>3 DEF ProcessNext, WindowsGrow
    <3> QED
      BY <3>4
  <2> HIDE DEF n
  <2> QED
    BY <1>6, <2>5, <2>6, AnswersOf
<1>7. CASE r.name = "SET" /\ process_set(r.key, r.value)
  BY <1>7, AnswersOf DEF process_set
<1>8. CASE r.name = "DEL" /\ process_del(r.keys)
  <2>1. r.keys \in Seq(Keys)
    BY <1>8, RequestParts, CommandsAssumption
  <2>2. expected' \in 0 .. Cardinality(Range(r.keys)) /\ request' = "DEL"
    BY <1>8, <2>1, PresentBound DEF process_del, Begin
  <2>3. pg_answer' = <<2>> \o Decimal[expected']
    BY <2>2 DEF DelAnswersExpected
  <2>4. RightAnswers(r, window'[c][n]) = {<<2>> \o Decimal[m] : m \in 0 .. Cardinality(Range(r.keys))}
    BY <1>8, AnswersOf, Zenon
  <2> QED
    BY <2>2, <2>3, <2>4, Zenon
<1>9. CASE r.name = "PING" /\ process_ping
  BY <1>9, AnswersOf DEF process_ping
<1>10. CASE r.name \in DOMAIN Message /\ process_error(r.name)
  BY <1>10, AnswersOf DEF process_error
<1> QED
  BY <1>3, <1>4, <1>5, <1>6, <1>7, <1>8, <1>9, <1>10 DEF Process

ResultsRight ==
  \A c \in Clients : \A n \in 1 .. Len(results[c]) :
    orders[c][n].name # "COMMAND" => results[c][n] \in RightAnswers(orders[c][n], window[c][n])

\* Only what was asked is answered.
LEMMA AnsweredIsAsked ==
  ASSUME ProxyInv, NEW c \in Clients
  PROVE  Len(results[c]) <= Len(orders[c]) /\ Len(results[c]) \in Nat /\ Len(orders[c]) \in Nat
<1>1. Len(results[c]) <= handled[c] /\ Len(results[c]) \in Nat /\ handled[c] \in Nat
  BY StepTypes DEF ProxyInv, InStep
<1>2. handled[c] <= Len(asked[c])
  BY DEF ProxyInv, LoopInv, LP!IInv, LP!Served, LP!Stream
<1>3. Len(asked[c]) = Len(orders[c]) /\ Len(orders[c]) \in Nat
  <2>1. orders[c] \in Seq(Requests) /\ [i \in DOMAIN orders[c] |-> Kind(orders[c][i])] = asked[c]
    BY DEF ProxyInv, Histories
  <2> QED
    BY <2>1
<1> QED
  BY <1>1, <1>2, <1>3

\* An answer that was given is judged by a window that no longer grows.
LEMMA WindowsClose ==
  ASSUME ProxyInv, [PNext]_pvars, NEW c \in Clients, NEW n \in 1 .. Len(results[c])
  PROVE  /\ n \in 1 .. Len(orders[c])
         /\ window'[c][n] = window[c][n]
<1>1. /\ window \in [Clients -> Seq(SUBSET Contents)] /\ window[c] \in Seq(SUBSET Contents)
      /\ Len(window[c]) = Len(orders[c]) /\ Len(window[c]) \in Nat
      /\ DOMAIN window[c] = 1 .. Len(window[c])
  <2>1. window \in [Clients -> Seq(SUBSET Contents)] /\ Len(window[c]) = Len(orders[c])
    BY DEF ProxyInv, Histories
  <2> QED
    BY <2>1
<1>2. n \in 1 .. Len(orders[c])
  BY AnsweredIsAsked
<1>3. CASE UNCHANGED window
  BY <1>2, <1>3
<1>4. CASE WindowsGrow
  <2>1. n \in DOMAIN window[c] /\ ~ (n > Len(results[c]))
    <3>1. Len(results[c]) \in Nat
      BY StepTypes DEF ProxyInv
    <3> QED
      BY <1>1, <1>2, <3>1
  <2> QED
    BY <1>2, <1>4, <2>1 DEF WindowsGrow
<1>5. ASSUME NEW d \in Clients, NEW r \in Requests, Asks(d, r) PROVE window'[c][n] = window[c][n]
  <2>1. PICK w \in SUBSET Contents : window' = [window EXCEPT ![d] = Append(window[d], w)]
    <3>1. (IF r.name = "GET" THEN {acked[r.key]} ELSE {}) \in SUBSET Contents
      BY RequestParts DEF ProxyInv
    <3> QED
      BY <1>5, <3>1 DEF Asks
  <2>2. CASE c = d
    <3>1. window'[c] = Append(window[c], w)
      BY <1>1, <2>1, <2>2
    <3> QED
      BY <1>1, <1>2, <3>1
  <2>3. CASE c # d
    BY <1>1, <2>1, <2>3
  <2> QED
    BY <2>2, <2>3
<1> QED
  BY <1>2, <1>3, <1>4, <1>5, HistorySteps DEF ProxyInv, Sees

LEMMA ResultsRightPreserved ==
  ASSUME ProxyInv, CInv, DelInHand, DelAnswersExpected', LargeValues = {},
         ResultsRight, [PNext]_pvars
  PROVE  ResultsRight'
<1> SUFFICES ASSUME NEW c \in Clients, NEW n \in 1 .. Len(results'[c]),
                    orders'[c][n].name # "COMMAND"
             PROVE  results'[c][n] \in RightAnswers(orders'[c][n], window'[c][n])
  BY DEF ResultsRight, RightAnswers
<1>1. ASSUME n \in 1 .. Len(results[c])
      PROVE  results'[c][n] \in RightAnswers(orders'[c][n], window'[c][n])
  <2>1. n \in 1 .. Len(orders[c]) /\ window'[c][n] = window[c][n]
    BY <1>1, WindowsClose
  <2>2. results'[c][n] = results[c][n] /\ orders'[c][n] = orders[c][n]
    BY <1>1, <2>1, ResultsGrow, OrdersGrow DEF ProxyInv
  <2> QED
    BY <1>1, <2>1, <2>2 DEF ResultsRight
<1>2. /\ results \in [Clients -> Seq(Seq(0 .. 255))]
      /\ results[c] \in Seq(Seq(0 .. 255)) /\ Len(results[c]) \in Nat
  BY DEF ProxyInv, InStep
<1>3. CASE UNCHANGED results
  BY <1>1, <1>3
<1>4. CASE Answers
  <2>1. batch # <<>> /\ Head(batch) = batch[1]
    BY <1>4, InHandIsAsked DEF Answers
  <2>2. results' = [results EXCEPT ![batch[1][1]] = Append(results[batch[1][1]], pg_answer')]
    BY <1>4, <2>1 DEF Answers
  <2>3. CASE c = batch[1][1]
    <3>1. results'[c] = Append(results[c], pg_answer')
      BY <1>2, <2>2, <2>3
    <3>2. CASE n \in 1 .. Len(results[c])
      BY <1>1, <3>2
    <3>3. CASE n \notin 1 .. Len(results[c])
      <4>1. n = Len(results[c]) + 1 /\ results'[c][n] = pg_answer'
        <5>1. n \in 1 .. Len(results[c]) + 1
          BY <1>2, <3>1
        <5> QED
          BY <1>2, <3>1, <3>3, <5>1
      <4>2. batch[1][2] = n /\ orders[c][n] = InHand /\ n \in 1 .. Len(orders[c])
        BY <2>1, <2>3, <4>1, InHandIsAsked DEF InHand
      <4>3. orders'[c][n] = InHand
        BY <4>2, OrdersGrow
      <4>4. ProcessNext /\ deleting' = <<>>
        BY <1>4, <2>1 DEF Answers
      <4>5. pg_answer' \in RightAnswers(InHand, window'[c][n])
        BY <2>3, <4>2, <4>3, <4>4, AnswerIsRight
      <4> QED
        BY <4>1, <4>3, <4>5
    <3> QED
      BY <3>2, <3>3
  <2>4. CASE c # batch[1][1]
    <3>1. results'[c] = results[c]
      BY <1>2, <2>2, <2>4
    <3> QED
      BY <1>1, <3>1
  <2> QED
    BY <2>3, <2>4
<1> QED
  BY <1>3, <1>4, StepKinds DEF Quiet, Ends, Reads, ProxyInv

\* What the proxy keeps where every value fits in the cache and write(2) passes on
\* all it is given.
TimeInv ==
  /\ ProxyInv
  /\ LP!Owned
  /\ CInv /\ DelAnswersExpected
  /\ Passed /\ DelInHand /\ ResultsRight

LEMMA TimeInvInit == PInit => TimeInv
<1> SUFFICES ASSUME PInit PROVE TimeInv
  OBVIOUS
<1>1. LP!Owned
  BY SameInit, LP!InitIsOwned, LoopSizes DEF PInit
<1>2. DelInHand /\ ResultsRight
  BY DEF PInit, CInit, DelInHand, ResultsRight
<1> QED
  BY <1>1, <1>2, ProxyInvInit, PassedInit, CInitInvariant DEF PInit, TimeInv

LEMMA TimeInvStep ==
  ASSUME LargeValues = {}, ~ PartialWrites
  PROVE  TimeInv /\ [PNext]_pvars => TimeInv'
<1> SUFFICES ASSUME TimeInv, [PNext]_pvars PROVE TimeInv'
  OBVIOUS
<1>1. ProxyInv'
  BY ProxyInvStep DEF TimeInv
<1>2. LP!Owned'
  BY NextOfLoop, SameNext, LP!OwnedPreserved, LoopSizes DEF TimeInv, ProxyInv, LoopInv
<1>3. CInv' /\ DelAnswersExpected'
  BY NextOfCommands, CNextPreserves DEF TimeInv
<1>4. Passed'
  BY <1>1, PassedPreserved DEF TimeInv, ProxyInv
<1>5. DelInHand'
  BY DelInHandPreserved DEF TimeInv
<1>6. ResultsRight'
  BY <1>3, ResultsRightPreserved DEF TimeInv
<1> QED
  BY <1>1, <1>2, <1>3, <1>4, <1>5, <1>6 DEF TimeInv

LEMMA TimeInvImplies == TimeInv => RepliesAreOfTheirTime
<1> SUFFICES ASSUME TimeInv, NEW c \in Clients, NEW p \in DOMAIN received[c],
                    orders[c][LP!RequestAt(p)].name # "COMMAND"
             PROVE  LET piece == received[c][p]
                        n == LP!RequestAt(p)
                    IN
                    /\ piece[1] \in DOMAIN results[c]
                    /\ piece[2] = ((p - 1) % REPLY_PARTS) + 1
                    /\ results[c][piece[1]] \in RightAnswers(orders[c][n], window[c][n])
  BY DEF RepliesAreOfTheirTime, LP!RequestAt
<1> DEFINE n == LP!RequestAt(p)
<1>1. /\ received[c] \in Seq(LP!Pieces(REPLY_PARTS)) /\ results[c] \in Seq(Seq(0 .. 255))
      /\ Len(received[c]) \in Nat /\ Len(results[c]) \in Nat
      /\ Len(received[c]) <= Len(results[c]) * REPLY_PARTS
      /\ Len(results[c]) * REPLY_PARTS \in Nat
  <2>1. received[c] \in Seq(LP!Pieces(REPLY_PARTS))
    BY DEF TimeInv, ProxyInv, LoopInv, LP!IInv, LP!TypeOK
  <2>2. results[c] \in Seq(Seq(0 .. 255))
    BY DEF TimeInv, ProxyInv, InStep
  <2>3. Len(received[c]) <= Len(results[c]) * REPLY_PARTS
    BY DEF TimeInv, Passed
  <2>4. Len(results[c]) \in Nat
    BY <2>2
  <2>5. Len(results[c]) * REPLY_PARTS \in Nat
    BY <2>4, LoopSizes, LP!Sizes, LP!ProductGrows
  <2> QED
    BY <2>1, <2>2, <2>3, <2>4, <2>5
<1>2. p \in 1 .. Len(results[c]) * REPLY_PARTS
  <2> DEFINE m == Len(results[c]) * REPLY_PARTS
  <2>1. m \in Nat /\ Len(received[c]) <= m
    BY <1>1
  <2>2. p \in 1 .. Len(received[c])
    BY <1>1
  <2> HIDE DEF m
  <2>3. p \in 1 .. m
    BY <1>1, <2>1, <2>2
  <2> QED
    BY <2>3, Zenon DEF m
<1>3. n \in 1 .. Len(results[c])
  BY <1>1, <1>2, LP!RequestAtBound, LoopSizes
<1>4. LP!InTheirPlaces
  BY LP!OwnedInPlaces, LoopSizes DEF TimeInv, ProxyInv, LoopInv
<1>5. LP!OwnPiece(c, received[c][p], p)
  BY <1>4 DEF LP!InTheirPlaces
<1>6. asked[c][n] = "DATA"
  <2>1. n \in 1 .. Len(orders[c])
    BY <1>3, AnsweredIsAsked DEF TimeInv
  <2>2. orders[c] \in Seq(Requests) /\ [i \in DOMAIN orders[c] |-> Kind(orders[c][i])] = asked[c]
    BY DEF TimeInv, ProxyInv, Histories
  <2> HIDE DEF n
  <2>3. asked[c][n] = Kind(orders[c][n])
    BY <2>1, <2>2
  <2> QED
    BY <2>3 DEF Kind, n
<1>7. received[c][p][1] = n /\ received[c][p][2] = ((p - 1) % REPLY_PARTS) + 1
  BY <1>5, <1>6 DEF LP!OwnPiece
<1>8. results[c][n] \in RightAnswers(orders[c][n], window[c][n])
  BY <1>3 DEF TimeInv, ResultsRight
<1>9. n \in DOMAIN results[c]
  BY <1>1, <1>3
<1> HIDE DEF n
<1> QED
  BY <1>7, <1>8, <1>9 DEF n

\* Whatever other clients do and whenever they do it, what a client reads in the
\* place of a reply is a right answer to its request, piece by piece; a GET is
\* answered with a content that its key had between its sending and its reply.
\* Values too large for the cache, and writes that return short, are left out
\* (on_read_cb, process_redis_to_postgres, on_write_cb).
THEOREM RepliesAreRight ==
  ASSUME LargeValues = {}, ~ PartialWrites
  PROVE  PSpec => []RepliesAreOfTheirTime
BY TimeInvInit, TimeInvStep, TimeInvImplies, PTL DEF PSpec

-----------------------------------------------------------------------------
(***************************************************************************)
(* What follows.                                                           *)
(***************************************************************************)

\* Over all connections, whoever sends and whoever reads, requests act on one
\* map, which the end of the worker sets back to its durable copy.
THEOREM ClientsShareAMap == LargeValues = {} /\ PSpec => ImplementsKeyValueStore
BY ProxyRunsCommands, CommandsActOnAMap

\* In the composition, too, a GET is answered with the last acknowledged value.
THEOREM ProxyServesTheLatest == LargeValues = {} /\ PSpec => LatestValueServed
BY ProxyRunsCommands, CommandsServeTheLatest

\* In the composition, too, the end of the worker leaves whole batches, whichever
\* callback it ends in.
THEOREM ProxyKeepsBatches == PSpec => CrashKeepsWholeBatches
BY ProxyRunsCommands, CommandsKeepBatches
=============================================================================
