------------------------------ MODULE EventLoop ------------------------------
(***************************************************************************)
(* The event loop of the worker (redis_proxy.c) and its connections        *)
(* (work_with_socket.c): clients connect, send requests in fragments, read *)
(* their replies or do not, and go away at any moment; the loop polls, then*)
(* runs one callback for every event it was told of.                       *)
(*                                                                         *)
(* Data are counted, not spelled: a request arrives in REQUEST_PARTS       *)
(* pieces, the first of which sets argc, and its reply has REPLY_PARTS     *)
(* pieces. Piece i of the n-th request (or reply) of a client is <<n, i>>. *)
(***************************************************************************)
EXTENDS Naturals, Sequences, FiniteSets

CONSTANTS
  Clients,        \* one connection each
  NoClient,       \* nobody: the loop is not blocked in write(2)
  Commands,       \* a subset of {"DATA", "COMMAND"}: see process_redis_to_postgres
  MAX_REQUESTS,   \* bound: requests of one client
  REQUEST_PARTS,
  REPLY_PARTS,
  BUFFER_SIZE,    \* pieces that one read_data takes (200 bytes in the code)
  SEND_BUFFER,    \* pieces the kernel holds for a client that is not reading
  MAX_FDS,        \* connections for which the process has descriptors
  PartialWrites   \* write(2) may return when it has passed on what fits: a
                  \* signal cut it short, or accepted sockets are non-blocking
                  \* (inherited on FreeBSD). Otherwise it returns when all is
                  \* taken (get_socket leaves them blocking on Linux).

ASSUME LoopAssumption ==
  /\ NoClient \notin Clients
  /\ Commands \subseteq {"DATA", "COMMAND"}
  /\ MAX_REQUESTS \in Nat
  /\ {REQUEST_PARTS, REPLY_PARTS, BUFFER_SIZE, SEND_BUFFER, MAX_FDS} \subseteq Nat \ {0}
  /\ PartialWrites \in BOOLEAN

VARIABLES
  worker,    \* "up" while the background worker runs
  pending,   \* the events of the last poll whose callbacks have not run
  blocked,   \* the client whose on_write_cb sleeps in write(2), or NoClient
  taken,     \* pieces of its answer that this write(2) has passed on
  conn,      \* the connection as the worker has it
  parsed,    \* pieces of an unfinished request: its argc is set, if not 0
  answer,    \* write_data.answer, size_answer pieces of it
  writing,   \* the write watcher is started
  peer,      \* the connection as the client has it
  asked,     \* the commands the client has begun to send
  sent,      \* pieces sent of the last of them
  inbound,   \* pieces sent and not read by the worker
  outbound,  \* pieces written by the worker and not read by the client
  received,  \* history: pieces the client has read
  handled    \* history: requests of the client that were processed

serverVars == <<worker, pending, blocked, taken, conn, parsed, answer, writing>>
clientVars == <<peer, asked, sent, inbound, outbound, received>>
vars == <<serverVars, clientVars, handled>>

ACCEPT == <<NoClient, "ACCEPT">>
READ(c) == <<c, "READ">>
WRITE(c) == <<c, "WRITE">>
Events == {ACCEPT} \cup {READ(c) : c \in Clients} \cup {WRITE(c) : c \in Clients}

Pieces(parts) == (1 .. MAX_REQUESTS) \X (1 .. parts)

TypeOK ==
  /\ worker \in {"up", "down"}
  /\ pending \subseteq Events
  /\ blocked \in Clients \cup {NoClient}
  /\ taken \in Nat
  /\ conn \in [Clients -> {"none", "backlog", "open", "closed"}]
  /\ parsed \in [Clients -> 0 .. REQUEST_PARTS - 1]
  /\ answer \in [Clients -> Seq(Pieces(REPLY_PARTS))]
  /\ writing \in [Clients -> BOOLEAN]
  /\ peer \in [Clients -> {"absent", "connected", "finished", "reset"}]
  /\ asked \in [Clients -> Seq(Commands)]
  /\ \A c \in Clients : Len(asked[c]) <= MAX_REQUESTS
  /\ sent \in [Clients -> 1 .. REQUEST_PARTS]
  /\ inbound \in [Clients -> Seq(Pieces(REQUEST_PARTS))]
  /\ outbound \in [Clients -> Seq(Pieces(REPLY_PARTS))]
  /\ \A c \in Clients : Len(outbound[c]) <= SEND_BUFFER
  /\ received \in [Clients -> Seq(Pieces(REPLY_PARTS))]
  /\ handled \in [Clients -> 0 .. MAX_REQUESTS]

-----------------------------------------------------------------------------
(***************************************************************************)
(* The clients.                                                            *)
(***************************************************************************)

Connect(c) ==
  /\ peer[c] = "absent"
  /\ worker = "up"
  /\ peer' = [peer EXCEPT ![c] = "connected"]
  /\ conn' = [conn EXCEPT ![c] = "backlog"]
  /\ UNCHANGED <<worker, pending, blocked, taken, parsed, answer, writing,
                 asked, sent, inbound, outbound, received, handled>>

\* Pieces are sent one by one, so reads see every fragmentation and pipelining.
Send(c) ==
  /\ peer[c] = "connected"
  /\ \/ /\ sent[c] = REQUEST_PARTS
        /\ Len(asked[c]) < MAX_REQUESTS
        /\ \E command \in Commands : asked' = [asked EXCEPT ![c] = Append(@, command)]
        /\ sent' = [sent EXCEPT ![c] = 1]
     \/ /\ sent[c] < REQUEST_PARTS
        /\ sent' = [sent EXCEPT ![c] = @ + 1]
        /\ UNCHANGED asked
  /\ inbound' = [inbound EXCEPT ![c] = Append(@, <<Len(asked'[c]), sent'[c]>>)]
  /\ UNCHANGED <<serverVars, peer, outbound, received, handled>>

Receive(c) ==
  /\ peer[c] = "connected"
  /\ outbound[c] # <<>>
  /\ received' = [received EXCEPT ![c] = Append(@, Head(outbound[c]))]
  /\ outbound' = [outbound EXCEPT ![c] = Tail(@)]
  /\ UNCHANGED <<serverVars, peer, asked, sent, inbound, handled>>

\* A client that closes with unread replies resets the connection; what it had
\* sent may still be readable.
Leave(c) ==
  /\ peer[c] = "connected"
  /\ \/ /\ outbound[c] = <<>>
        /\ peer' = [peer EXCEPT ![c] = "finished"]
        /\ UNCHANGED inbound
     \/ /\ peer' = [peer EXCEPT ![c] = "reset"]
        /\ inbound' \in {inbound, [inbound EXCEPT ![c] = <<>>]}
  /\ outbound' = [outbound EXCEPT ![c] = <<>>]
  /\ UNCHANGED <<serverVars, asked, sent, received, handled>>

-----------------------------------------------------------------------------
(***************************************************************************)
(* The worker ends and starts.                                             *)
(***************************************************************************)

\* The kernel closes what the process had open.
Exit ==
  LET served == {c \in Clients : conn[c] \in {"backlog", "open"}} IN
  /\ worker' = "down"
  /\ pending' = {}
  /\ blocked' = NoClient
  /\ taken' = 0
  /\ conn' = [c \in Clients |-> IF c \in served THEN "closed" ELSE conn[c]]
  /\ peer' = [c \in Clients |-> IF c \in served THEN "reset" ELSE peer[c]]
  /\ parsed' = [c \in Clients |-> 0]
  /\ answer' = [c \in Clients |-> <<>>]
  /\ writing' = [c \in Clients |-> FALSE]
  /\ inbound' = [c \in Clients |-> <<>>]
  /\ outbound' = [c \in Clients |-> <<>>]
  /\ UNCHANGED <<asked, sent, received, handled>>

\* SIGTERM is acted on between two rounds of the loop, and at the end of every
\* ereport that is logged; not while write(2) sleeps.
Terminate ==
  /\ worker = "up"
  /\ blocked = NoClient
  /\ Exit

proxy_start_work ==
  /\ worker = "down"
  /\ worker' = "up"
  /\ UNCHANGED <<pending, blocked, taken, conn, parsed, answer, writing, clientVars, handled>>

-----------------------------------------------------------------------------
(***************************************************************************)
(* The loop: ev_run(loop, EVRUN_ONCE) polls, then runs the callbacks. libev*)
(* promises no order among them. What a callback finds may be newer than   *)
(* what the poll saw.                                                      *)
(***************************************************************************)

Ready ==
  {ACCEPT : c \in {d \in Clients : conn[d] = "backlog"}}
  \cup {READ(c) : c \in {d \in Clients :
         conn[d] = "open" /\ (inbound[d] # <<>> \/ peer[d] # "connected")}}
  \cup {WRITE(c) : c \in {d \in Clients :
         /\ conn[d] = "open" /\ writing[d]
         /\ Len(outbound[d]) < SEND_BUFFER \/ peer[d] # "connected"}}

Poll ==
  /\ worker = "up"
  /\ pending = {}
  /\ blocked = NoClient
  /\ Ready # {}
  /\ pending' = Ready
  /\ UNCHANGED <<worker, blocked, taken, conn, parsed, answer, writing, clientVars, handled>>

Callback(event) ==
  /\ blocked = NoClient
  /\ event \in pending

\* accept fails when the process is out of descriptors, and get_socket reports
\* that with ereport(ERROR).
get_socket_fails == Cardinality({c \in Clients : conn[c] = "open"}) >= MAX_FDS

on_accept_cb ==
  /\ Callback(ACCEPT)
  /\ \/ /\ ~get_socket_fails
        /\ \E c \in Clients :
             /\ conn[c] = "backlog"
             /\ conn' = [conn EXCEPT ![c] = "open"]
        /\ pending' = pending \ {ACCEPT}
        /\ UNCHANGED <<worker, blocked, taken, parsed, answer, writing, clientVars, handled>>
     \/ /\ get_socket_fails
        /\ Exit

\* Faulty form: the write watcher goes on.
Released_keeps_writer(c) ==
  /\ conn' = [conn EXCEPT ![c] = "closed"]
  /\ pending' = pending \ {READ(c)}
  /\ parsed' = [parsed EXCEPT ![c] = 0]
  /\ answer' = [answer EXCEPT ![c] = <<>>]
  /\ writing' = [writing EXCEPT ![c] = FALSE]
  /\ peer' = [peer EXCEPT ![c] = "reset"]
  /\ inbound' = [inbound EXCEPT ![c] = <<>>]
  /\ outbound' = [outbound EXCEPT ![c] = <<>>]
  /\ UNCHANGED <<worker, blocked, taken, asked, sent, received, handled>>

\* Both watchers are stopped, which takes their events out of pending, and the
\* memory is freed.
Released(c) ==
  /\ conn' = [conn EXCEPT ![c] = "closed"]
  /\ pending' = pending \ {READ(c), WRITE(c)}
  /\ parsed' = [parsed EXCEPT ![c] = 0]
  /\ answer' = [answer EXCEPT ![c] = <<>>]
  /\ writing' = [writing EXCEPT ![c] = FALSE]
  /\ peer' = [peer EXCEPT ![c] = "reset"]
  /\ inbound' = [inbound EXCEPT ![c] = <<>>]
  /\ outbound' = [outbound EXCEPT ![c] = <<>>]
  /\ UNCHANGED <<worker, blocked, taken, asked, sent, received, handled>>

\* Frees argc arguments. In the middle of a request fewer were allocated, and
\* what free is given then may or may not end the process.
close_connection(c) ==
  \/ Released(c)
  \/ parsed[c] # 0 /\ Exit

\* What one read takes; nothing is the end of the connection.
read_data(c) ==
  SubSeq(inbound[c], 1,
         IF Len(inbound[c]) < BUFFER_SIZE THEN Len(inbound[c]) ELSE BUFFER_SIZE)

\* The places in a chunk where a request is complete.
Ends(chunk) == {i \in DOMAIN chunk : chunk[i][2] = REQUEST_PARTS}

\* The last pieces of the requests that a chunk completes, in order.
Completed(chunk) ==
  [j \in 1 .. Cardinality(Ends(chunk)) |->
     chunk[CHOOSE i \in Ends(chunk) : Cardinality({h \in Ends(chunk) : h <= i}) = j]]

\* COMMAND leaves pg_answer as it was: the reply of the latest request before
\* it in the same callback that has set pg_answer.
AnswerSource(c, done, j) ==
  CHOOSE i \in 1 .. j :
    /\ asked[c][done[i][1]] = "DATA"
    /\ \A h \in (i + 1) .. j : asked[c][done[h][1]] = "COMMAND"

\* Faulty form: counts the pieces of a reply from 0.
Replies_from_zero(c, done) ==
  [p \in 1 .. Len(done) * REPLY_PARTS |->
     <<done[AnswerSource(c, done, ((p - 1) \div REPLY_PARTS) + 1)][1], p % REPLY_PARTS>>]

\* Their replies, one behind the other.
Replies(c, done) ==
  [p \in 1 .. Len(done) * REPLY_PARTS |->
     <<done[AnswerSource(c, done, ((p - 1) \div REPLY_PARTS) + 1)][1],
       ((p - 1) % REPLY_PARTS) + 1>>]

\* Faulty form: the watcher is started where the answer is allocated.
StartWriting_first(c) ==
  writing' = [writing EXCEPT ![c] = @ \/ (handled[c] = 0 /\ answer'[c] # <<>>)]

StartWriting(c) == writing' = [writing EXCEPT ![c] = @ \/ answer'[c] # <<>>]

\* One read, then as many requests as it completes; the buffer is left empty.
on_read_cb(c) ==
  LET chunk == read_data(c)
      size == Len(chunk)
      done == Completed(chunk)
  IN
  /\ Callback(READ(c))
  /\ \/ /\ size = 0
        /\ close_connection(c)
     \/ /\ size # 0
        /\ done # <<>> => asked[c][done[1][1]] = "DATA"
        /\ inbound' = [inbound EXCEPT ![c] = SubSeq(@, size + 1, Len(@))]
        /\ parsed' = [parsed EXCEPT ![c] = chunk[size][2] % REQUEST_PARTS]
        /\ handled' = [handled EXCEPT ![c] = @ + Len(done)]
        /\ answer' = [answer EXCEPT ![c] = @ \o Replies(c, done)]
        /\ StartWriting(c)
        /\ pending' = pending \ {READ(c)}
        /\ UNCHANGED <<worker, blocked, taken, conn, peer, asked, sent, outbound, received>>
     \* The storage reports an error, or there is no pg_answer to convert.
     \/ /\ done # <<>>
        /\ Exit

-----------------------------------------------------------------------------
(***************************************************************************)
(* Writing.                                                                *)
(***************************************************************************)

\* The first count pieces of an answer go to the kernel.
Taken(c, from, count) ==
  outbound' = [outbound EXCEPT ![c] = @ \o SubSeq(answer[c], from, from + count - 1)]

\* Faulty forms: size_answer is not reset; the watcher is not stopped.
Written_keeps_answer(c) ==
  /\ writing' = [writing EXCEPT ![c] = FALSE]
  /\ UNCHANGED answer

Written_keeps_watching(c) ==
  /\ answer' = [answer EXCEPT ![c] = <<>>]
  /\ UNCHANGED writing

\* write_data has returned size_answer.
Written(c) ==
  /\ answer' = [answer EXCEPT ![c] = <<>>]
  /\ writing' = [writing EXCEPT ![c] = FALSE]

\* Faulty form: size_answer is not reduced.
MoveRest_keeps_size(c, byte_write) ==
  /\ Len(answer[c]) >= 2 * byte_write
  /\ answer' = [answer EXCEPT ![c] =
       [i \in 1 .. Len(@) |-> IF i <= Len(@) - byte_write THEN @[i + byte_write] ELSE @[i]]]
  /\ UNCHANGED writing

\* write_data has returned less. size_answer is reduced first, and memcpy is
\* then asked for the reduced size less byte_write: the last pieces are not
\* moved. A negative size is a huge one, and the end of the process.
MoveRest(c, byte_write) ==
  LET size_answer == Len(answer[c]) - byte_write IN
  /\ size_answer >= byte_write
  /\ answer' = [answer EXCEPT ![c] =
       [i \in 1 .. size_answer |->
          IF i <= size_answer - byte_write THEN @[i + byte_write] ELSE @[i]]]
  /\ UNCHANGED writing

Room(c) ==
  LET free == SEND_BUFFER - Len(outbound[c]) IN
  IF Len(answer[c]) < free THEN Len(answer[c]) ELSE free

\* What is written to a client that has gone is lost; the kernel learns that it
\* has gone from the reply to it.
WriteToNobody(c) ==
  /\ peer[c] = "finished"
  /\ peer' = [peer EXCEPT ![c] = "reset"]
  /\ Written(c)
  /\ UNCHANGED outbound

on_write_cb(c) ==
  /\ Callback(WRITE(c))
  /\ pending' = pending \ {WRITE(c)}
  /\ UNCHANGED <<worker, conn, parsed, asked, sent, inbound, received, handled>>
  /\ \/ /\ WriteToNobody(c)
        /\ UNCHANGED <<blocked, taken>>
     \/ /\ peer[c] = "connected"
        /\ Taken(c, 1, Room(c))
        /\ UNCHANGED peer
        /\ \/ /\ Room(c) = Len(answer[c])
              /\ Written(c)
              /\ UNCHANGED <<blocked, taken>>
           \/ /\ Room(c) < Len(answer[c])
              /\ PartialWrites
              /\ MoveRest(c, Room(c))
              /\ UNCHANGED <<blocked, taken>>
           \/ /\ Room(c) < Len(answer[c])
              /\ blocked' = c
              /\ taken' = Room(c)
              /\ UNCHANGED <<answer, writing>>

\* The sleeping write(2) passes on a piece, and returns after the last one.
WritePasses(c) ==
  /\ blocked = c
  /\ \/ /\ peer[c] = "connected"
        /\ Len(outbound[c]) < SEND_BUFFER
        /\ Taken(c, taken + 1, 1)
        /\ UNCHANGED peer
        /\ \/ /\ taken + 1 < Len(answer[c])
              /\ taken' = taken + 1
              /\ UNCHANGED <<blocked, answer, writing>>
           \/ /\ taken + 1 = Len(answer[c])
              /\ Written(c)
              /\ taken' = 0
              /\ blocked' = NoClient
     \/ /\ WriteToNobody(c)
        /\ taken' = 0
        /\ blocked' = NoClient
  /\ UNCHANGED <<worker, pending, conn, parsed, asked, sent, inbound, received, handled>>

\* Faulty form: the write is tried again after a short one.
WriteReturnsShort_retries(c) ==
  /\ blocked = c
  /\ peer[c] = "reset"
  /\ UNCHANGED vars

\* A connection that is reset, or a signal, ends the sleep: write(2) returns what
\* it has passed on until then.
SleepEnds(c) == peer[c] = "reset" \/ PartialWrites

WriteReturnsShort(c) ==
  /\ blocked = c
  /\ SleepEnds(c)
  /\ MoveRest(c, taken)
  /\ taken' = 0
  /\ blocked' = NoClient
  /\ UNCHANGED <<worker, pending, conn, parsed, clientVars, handled>>

\* memcpy is given a negative size.
RestIsNegative(c, byte_write) ==
  byte_write < Len(answer[c]) /\ Len(answer[c]) - byte_write < byte_write

\* write(2) fails on a connection that was reset, which write_data reports with
\* ereport(ERROR), or the rest of an answer is moved with a negative size.
WriteEndsWorker(c) ==
  /\ \/ /\ Callback(WRITE(c))
        /\ \/ peer[c] = "reset"
           \/ peer[c] = "connected" /\ PartialWrites /\ RestIsNegative(c, Room(c))
     \/ /\ blocked = c
        /\ SleepEnds(c)
        /\ RestIsNegative(c, taken)
  /\ Exit

-----------------------------------------------------------------------------

Init ==
  /\ worker = "down"
  /\ pending = {}
  /\ blocked = NoClient
  /\ taken = 0
  /\ conn = [c \in Clients |-> "none"]
  /\ parsed = [c \in Clients |-> 0]
  /\ answer = [c \in Clients |-> <<>>]
  /\ writing = [c \in Clients |-> FALSE]
  /\ peer = [c \in Clients |-> "absent"]
  /\ asked = [c \in Clients |-> <<>>]
  /\ sent = [c \in Clients |-> REQUEST_PARTS]
  /\ inbound = [c \in Clients |-> <<>>]
  /\ outbound = [c \in Clients |-> <<>>]
  /\ received = [c \in Clients |-> <<>>]
  /\ handled = [c \in Clients |-> 0]

\* The steps of the loop.
Turn ==
  \/ Poll
  \/ on_accept_cb
  \/ \E c \in Clients :
       \/ on_read_cb(c) \/ on_write_cb(c)
       \/ WritePasses(c) \/ WriteReturnsShort(c) \/ WriteEndsWorker(c)

Next ==
  \/ \E c \in Clients : Connect(c) \/ Send(c) \/ Receive(c) \/ Leave(c)
  \/ Turn
  \/ Terminate
  \/ proxy_start_work

Spec == Init /\ [][Next]_vars

\* The loop never rests while it has something to do; it does not depend on what
\* clients do, but clients may do nothing.
LoopSpec == Spec /\ WF_vars(Turn)

\* In addition every client reads what it is sent, as long as it is connected.
FairSpec == LoopSpec /\ \A c \in Clients : WF_vars(Receive(c))

-----------------------------------------------------------------------------
(***************************************************************************)
(* Properties.                                                             *)
(***************************************************************************)

\* The replies to the first n requests.
RepliesTo(n) ==
  [p \in 1 .. n * REPLY_PARTS |->
     <<((p - 1) \div REPLY_PARTS) + 1, ((p - 1) % REPLY_PARTS) + 1>>]

Unsent(c) ==
  SubSeq(answer[c], (IF blocked = c THEN taken ELSE 0) + 1, Len(answer[c]))

\* What a client has received, what the kernel holds for it and what the answer
\* buffer still has to send are together the replies to the requests handled,
\* each once, in the order of the requests: pipelining, fragments and a slow
\* reader lose, repeat and reorder nothing (on_read_cb, on_write_cb).
RepliesInOrder ==
  \A c \in Clients : peer[c] = "connected" =>
    received[c] \o outbound[c] \o Unsent(c)
      = RepliesTo(handled[c])

\* Even where a short write garbles replies and COMMAND repeats them, as many
\* pieces as the requests call for are on their way: no client can be left
\* waiting, or get more replies than it sent requests.
RepliesCounted ==
  \A c \in Clients : peer[c] = "connected" =>
    Len(received[c]) + Len(outbound[c]) + Len(Unsent(c)) = handled[c] * REPLY_PARTS

\* Every piece a client has received answers the request at its place.
AnswersAreOwn ==
  \A c \in Clients : \A p \in DOMAIN received[c] :
    received[c][p] = <<((p - 1) \div REPLY_PARTS) + 1, ((p - 1) % REPLY_PARTS) + 1>>

\* The write watcher is started exactly while there is something to write: no
\* reply waits for an event that cannot come, and no poll returns at once for
\* nothing (ev_io_start in on_read_cb, ev_io_stop in on_write_cb).
WatcherFollowsAnswer ==
  \A c \in Clients : conn[c] = "open" => (writing[c] <=> answer[c] # <<>>)

\* A callback that runs finds its connection still there, although another
\* callback of the same round may have closed it (close_connection).
NoEventOfClosed ==
  \A c \in Clients : {READ(c), WRITE(c)} \cap pending # {} => conn[c] = "open"

\* A request that was sent is answered, or its connection has ended.
EventuallyAnswered ==
  \A c \in Clients, n \in 1 .. MAX_REQUESTS :
    peer[c] = "connected" /\ Len(asked[c]) >= n /\ (Len(asked[c]) > n \/ sent[c] = REQUEST_PARTS)
      ~> Len(received[c]) >= n * REPLY_PARTS \/ peer[c] # "connected"

\* The loop gets back to its timer, which is what saves the cache in DEFFER_DUMP
\* (README.md:39-40, on_timer_timeout_cb).
TimerGetsItsTurn == []<>(blocked = NoClient)
=============================================================================
