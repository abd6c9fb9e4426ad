-------------------------------- MODULE Proxy --------------------------------
(***************************************************************************)
(* The worker as a whole: the event loop (EventLoop) whose read callback   *)
(* carries out the requests it parses (Commands, over the storage path),   *)
(* and whose timer dumps the log. Several clients talk to one map.         *)
(*                                                                         *)
(* The thread of the worker does one thing at a time. A read callback      *)
(* takes a chunk, then carries out the requests of the chunk one by one;   *)
(* until it returns nothing else of the worker moves, but clients do.      *)
(***************************************************************************)
EXTENDS Commands

CONSTANTS
  Clients, NoClient,
  Requests,       \* the requests that clients make
  Scripts,        \* what each of them may ask for, in order: sets of sequences
  MAX_REQUESTS, REQUEST_PARTS, REPLY_PARTS, BUFFER_SIZE, SEND_BUFFER, MAX_FDS,
  PartialWrites   \* all of them as in EventLoop

ProxyRequest ==
  [name : {"GET"}, key : Keys] \cup [name : {"SET"}, key : Keys, value : Values]
  \cup [name : {"DEL"}, keys : KeyLists] \cup [name : {"PING", "COMMAND"} \cup DOMAIN Message]

ASSUME ProxyAssumption ==
  /\ Requests \subseteq ProxyRequest
  /\ \A c \in Clients : Scripts[c] \subseteq Seq(Requests)
  /\ NoClient \notin Clients
  /\ MAX_REQUESTS \in Nat
  /\ {REQUEST_PARTS, REPLY_PARTS, BUFFER_SIZE, SEND_BUFFER, MAX_FDS} \subseteq Nat \ {0}
  /\ PartialWrites \in BOOLEAN

VARIABLES
  pending, blocked, taken, conn, parsed, answer, writing, peer, asked, sent,
  inbound, outbound, received, handled,  \* as in EventLoop
  batch,    \* the requests of a chunk that on_read_cb has still to carry out
  timer,    \* of DEFFER_DUMP: "set", "expired", or "pending" in this round
  orders,   \* history: the requests of each client
  results,  \* history: the pg_answer of each request carried out
  window    \* history: what the key of a GET held from its sending on

loopVars == <<pending, blocked, taken, conn, parsed, answer, writing, peer, asked,
              sent, inbound, outbound, received, handled>>
historyVars == <<orders, results, window>>
pvars == <<cvars, loopVars, batch, timer, historyVars>>

\* The loop sees of a request whether it sets pg_answer.
Kind(r) == IF r.name = "COMMAND" THEN "COMMAND" ELSE "DATA"

Loop == INSTANCE EventLoop WITH Commands <- {Kind(r) : r \in Requests}

ProxyTypeOK ==
  /\ batch \in Seq(Clients \X (1 .. MAX_REQUESTS))
  /\ timer \in {"set", "expired", "pending"}
  /\ orders \in [Clients -> Seq(Requests)]
  /\ results \in [Clients -> Seq(Seq(0 .. 255))]
  /\ window \in [Clients -> Seq(SUBSET Contents)]
  /\ \A c \in Clients : /\ [i \in DOMAIN orders[c] |-> Kind(orders[c][i])] = asked[c]
                        /\ Len(results[c]) <= handled[c]
                        /\ Len(window[c]) = Len(orders[c])

-----------------------------------------------------------------------------
(***************************************************************************)
(* The history.                                                            *)
(***************************************************************************)

\* A request that was not carried out sees every content its key comes to have.
WindowsGrow ==
  window' = [c \in Clients |-> [n \in DOMAIN window[c] |->
    IF n > Len(results[c]) /\ orders[c][n].name = "GET"
    THEN window[c][n] \cup {acked'[orders[c][n].key]}
    ELSE window[c][n]]]

-----------------------------------------------------------------------------
(***************************************************************************)
(* Clients.                                                                *)
(***************************************************************************)

\* Request r is the next one of a script of client c.
MayAsk(c, r) == \E script \in Scripts[c] : IsPrefix(Append(orders[c], r), script)

\* A request is decided on when its first piece is sent.
Send(c) ==
  /\ Loop!Send(c)
  /\ \/ /\ asked'[c] # asked[c]
        /\ \E r \in Requests :
             /\ MayAsk(c, r)
             /\ Kind(r) = asked'[c][Len(asked'[c])]
             /\ orders' = [orders EXCEPT ![c] = Append(@, r)]
             /\ window' = [window EXCEPT ![c] =
                  Append(@, IF r.name = "GET" THEN {acked[r.key]} ELSE {})]
     \/ /\ asked'[c] = asked[c]
        /\ UNCHANGED <<orders, window>>
  /\ UNCHANGED <<cvars, batch, timer, results>>

Receive(c) ==
  /\ Loop!Receive(c)
  /\ UNCHANGED <<cvars, batch, timer, historyVars>>

ConnectOrLeave(c) ==
  /\ Loop!Connect(c) \/ Loop!Leave(c)
  /\ UNCHANGED <<cvars, batch, timer, historyVars>>

-----------------------------------------------------------------------------
(***************************************************************************)
(* The loop.                                                               *)
(***************************************************************************)

InRead == batch # <<>> \/ request # "none"

\* What a step of the loop does to the rest of the worker: nothing, or it ends it.
Carried ==
  \/ /\ worker' = worker
     /\ UNCHANGED <<cvars, timer, window>>
  \/ /\ worker' # worker
     /\ Terminate
     /\ Recorded
     /\ Forgotten
     /\ timer' = "set"
     /\ WindowsGrow

\* The time of the timer passes, whatever the worker does.
TimerExpires ==
  /\ worker = "up"
  /\ caching_regime = "DEFFER_DUMP"
  /\ timer = "set"
  /\ timer' = "expired"
  /\ UNCHANGED <<cvars, loopVars, batch, historyVars>>

\* ev_run collects the sockets that are ready and the timer if it has expired. It
\* returns after the last callback.
Poll ==
  /\ ~InRead
  /\ \/ /\ timer = "set"
        /\ Loop!Poll
        /\ UNCHANGED timer
     \/ /\ timer = "expired"
        /\ worker = "up" /\ pending = {} /\ blocked = NoClient
        /\ pending' = Loop!Ready
        /\ timer' = "pending"
        /\ UNCHANGED <<blocked, taken, conn, parsed, answer, writing, peer, asked,
                       sent, inbound, outbound, received, handled>>
  /\ UNCHANGED <<cvars, batch, historyVars>>

TimerRuns ==
  /\ ~InRead
  /\ Idle
  /\ blocked = NoClient
  /\ timer = "pending"

TimerCallback ==
  /\ TimerRuns
  /\ timer' = "set"
  /\ \/ /\ on_timer_timeout_cb
        /\ WindowsGrow
     \/ /\ log = <<>>
        /\ UNCHANGED <<cvars, window>>
  /\ UNCHANGED <<loopVars, batch, orders, results>>

\* The callbacks that leave the data alone.
SocketCallback ==
  /\ ~InRead
  /\ \/ Loop!on_accept_cb
     \/ \E c \in Clients :
          \/ Loop!on_write_cb(c) \/ Loop!WritePasses(c)
          \/ Loop!WriteReturnsShort(c) \/ Loop!WriteEndsWorker(c)
  /\ Carried
  /\ UNCHANGED <<batch, orders, results>>

\* The beginning of a read callback: it takes a chunk.
on_read_cb(c) ==
  /\ ~InRead
  /\ Loop!on_read_cb(c)
  /\ LET done == Loop!Completed(Loop!read_data(c)) IN
     batch' = IF worker' = "up" THEN [j \in DOMAIN done |-> <<c, done[j][1]>>] ELSE <<>>
  /\ Carried
  /\ UNCHANGED <<orders, results>>

\* process_redis_to_postgres, for the request that it is given.
Process(r) ==
  \/ r.name = "GET" /\ process_get(r.key)
  \/ r.name = "SET" /\ process_set(r.key, r.value)
  \/ r.name = "DEL" /\ process_del(r.keys)
  \/ r.name = "PING" /\ process_ping
  \/ r.name = "COMMAND" /\ process_command
  \/ r.name \in DOMAIN Message /\ process_error(r.name)

\* The request that on_read_cb carries out.
UnderWay(r) ==
  /\ batch # <<>>
  /\ r = orders[Head(batch)[1]][Head(batch)[2]]

\* Faulty form: a DEL is answered after each of its keys.
Answered_each_key ==
  /\ batch' = IF deleting' = <<>> THEN Tail(batch) ELSE batch
  /\ results' = [results EXCEPT ![Head(batch)[1]] = Append(@, pg_answer')]

\* A request is answered when it leaves nothing to delete.
Answered ==
  \/ /\ deleting' = <<>>
     /\ batch' = Tail(batch)
     /\ results' = [results EXCEPT ![Head(batch)[1]] = Append(@, pg_answer')]
  \/ /\ deleting' # <<>>
     /\ UNCHANGED <<batch, results>>

\* The next request of the chunk, or the next key of its DEL.
ProcessNext ==
  /\ \E r \in Requests : UnderWay(r) /\ (Process(r) \/ DeleteNext)
  /\ Answered
  /\ WindowsGrow
  /\ UNCHANGED <<loopVars, timer, orders>>

\* on_read_cb returns.
ReadReturns ==
  /\ batch = <<>>
  /\ EndOfRead
  /\ UNCHANGED <<loopVars, batch, timer, historyVars>>

-----------------------------------------------------------------------------
(***************************************************************************)
(* The end of the worker and its restart.                                  *)
(***************************************************************************)

\* The request under way fails and may have been carried out: its UPDATE, or the
\* dump of the log that it fills.
RequestFails(r) ==
  \/ /\ deleting = <<>>
     /\ \/ /\ r.name = "SET"
           /\ \/ UpdateFails(r.key, r.value)
              \/ /\ caching_regime = "DEFFER_DUMP"
                 /\ FitsInCache(r.key, r.value)
                 /\ Len(log) + 1 = MAX_COUNT_OPERATION
                 /\ Exit(do_transaction(Append(log, [key |-> r.key, value |-> r.value]), db))
        \/ /\ r.name = "DEL"
           /\ DeletionFails(Head(r.keys))
  \/ /\ deleting # <<>>
     /\ DeletionFails(Head(deleting))

\* So does the dump of the timer.
TimerFails ==
  /\ TimerRuns
  /\ caching_regime = "DEFFER_DUMP"
  /\ log # <<>>
  /\ Exit(do_transaction(log, db))

\* SIGTERM, or an ereport(ERROR): the connections and the memory go together.
WorkerStops ==
  /\ Loop!Terminate
  /\ \/ Terminate
     \/ \E r \in Requests : UnderWay(r) /\ RequestFails(r)
     \/ TimerFails
  /\ Recorded
  /\ Forgotten
  /\ WindowsGrow
  /\ batch' = <<>>
  /\ timer' = "set"
  /\ UNCHANGED <<orders, results>>

WorkerStarts ==
  /\ Loop!proxy_start_work
  /\ Restart
  /\ UNCHANGED <<batch, timer, historyVars>>

-----------------------------------------------------------------------------

PInit ==
  /\ CInit
  /\ Loop!Init
  /\ batch = <<>>
  /\ timer = "set"
  /\ orders = [c \in Clients |-> <<>>]
  /\ results = [c \in Clients |-> <<>>]
  /\ window = [c \in Clients |-> <<>>]

\* What the thread of the worker does.
Turn ==
  \/ Poll
  \/ TimerCallback
  \/ SocketCallback
  \/ \E c \in Clients : on_read_cb(c)
  \/ ProcessNext
  \/ ReadReturns

PNext ==
  \/ \E c \in Clients : Send(c) \/ Receive(c) \/ ConnectOrLeave(c)
  \/ TimerExpires
  \/ Turn
  \/ WorkerStops
  \/ WorkerStarts

PSpec == PInit /\ [][PNext]_pvars

\* The thread never rests while it has something to do, time passes, the
\* postmaster restarts the worker, and connected clients read what they are sent.
PFairSpec ==
  /\ PSpec
  /\ WF_pvars(Turn)
  /\ WF_pvars(TimerExpires)
  /\ WF_pvars(WorkerStarts)
  /\ \A c \in Clients : WF_pvars(Receive(c))

-----------------------------------------------------------------------------
(***************************************************************************)
(* Properties.                                                             *)
(***************************************************************************)

\* The answers that a request may get, if its key held these contents while it
\* was under way.
RightAnswers(r, contents) ==
  CASE r.name = "GET"  -> {ValueAnswer(x) : x \in contents}
    [] r.name = "SET"  -> {<<0>> \o OK \o <<0>>}
    [] r.name = "DEL"  -> {<<2>> \o Decimal[n] : n \in 0 .. Cardinality(Range(r.keys))}
    [] r.name = "PING" -> {<<0>> \o PONG \o <<0>>}
    [] r.name \in DOMAIN Message -> {<<1>> \o Message[r.name]}

\* What a client reads in the place of the reply to its n-th request is, piece by
\* piece, a right answer to that request, whatever other clients do and whenever
\* they do it: a GET is answered with a content that its key had between the
\* sending of the GET and its reply, never with an older one. So a client that
\* has seen a write confirmed, its own or through another connection, finds it
\* (on_read_cb, process_redis_to_postgres, on_write_cb). COMMAND is let off.
RepliesAreOfTheirTime ==
  \A c \in Clients : \A p \in DOMAIN received[c] :
    LET n == ((p - 1) \div REPLY_PARTS) + 1
        part == ((p - 1) % REPLY_PARTS) + 1
        piece == received[c][p]
    IN orders[c][n].name # "COMMAND" =>
         /\ piece[1] \in DOMAIN results[c] /\ piece[2] = part
         /\ results[c][piece[1]] \in RightAnswers(orders[c][n], window[c][n])
=============================================================================
