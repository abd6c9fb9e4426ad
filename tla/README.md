# A TLA+ verification of pg_redis_proxy

pg_redis_proxy is a PostgreSQL background worker that speaks the Redis protocol
and keeps the data in hstore tables. This directory holds TLA+ models of it,
TLC configurations that check them on small instances, and TLAPS proofs.

Paths without a directory below refer to the repository: `redis_proxy.c`,
`send_req_postgres.c` for `send_req_postgres/send_req_postgres.c`, and so on.

## 1. The system

One process, one thread, one libev loop. It holds one connection to PostgreSQL
and one to each client.

| Part | Code | State | Operations | Talks to |
|---|---|---|---|---|
| Event loop | `redis_proxy.c` | watchers, per client: parser state, answer buffer | `on_accept_cb`, `on_read_cb`, `on_write_cb`, `on_timer_timeout_cb` | everything below, by calls |
| Sockets | `work_with_socket.c` | descriptors, 200 byte read buffers | `get_socket`, `read_data`, `write_data`, `close_connection` | kernel |
| RESP parser | `work_with_socket.c` (`parse_cli_mes`) | read status, number, argument under way | one call per request of a chunk | event loop |
| Command layer | `redis_reqv_converter.c` | none | `process_get/set/del/ping/error` | storage path |
| Reply formatting | `postgres_reqv_converter.c` | none | `define_type_req` | event loop |
| Storage path | `send_req_postgres.c` | none of its own | `req_get`, `req_set`, `req_del`, `sync_with_db` | hash table, log, database |
| Hash table | `proxy_hash.c` | per table: key -> status byte and value | `check_hash_table`, `set_hash_table` | dynahash |
| Operation log | `logger.c` | list of nodes, cursor, count, size | `add_log`, `clear_log` | calls `sync_with_db` when it is full |
| Database access | `work_with_db.c` | libpq connection, transaction buffer | `get_value`, `set_value`, `del_value`, `init/add/do_transaction`, `create_table` | PostgreSQL |
| Configuration, start-up | `configure_proxy.c`, `proxy_start_work` | `config`, `proxy_status` | `init_configuration`, `init_table` | `redis.conf`, database |

Two facts about the surroundings decide a great deal:

* `ereport(ERROR, ...)` does not return. In a background worker without an error
  handler it ends the process; whatever the code says behind it is never run.
  `bgw_restart_time` is 0 (`register_proxy` clears the structure), so the
  postmaster starts the worker again. Hash table, log and connections are lost.
* The loop of `proxy_start_work` has no exit: lines 310-318 are never reached.
  SIGTERM ends the process in `CHECK_FOR_INTERRUPTS` (the one of the loop, or the
  one at the end of an `ereport` that is logged), without a last dump.

### What is hard about it

* In DEFFER_DUMP three places hold a key - log, hash table, row - and each
  request must choose the right one (`send_req_postgres.c`).
* The log reuses its nodes after a dump, and two of its fields have a double
  meaning (`logger.c:53-67`).
* The worker may end anywhere, a dump under way may or may not have been carried
  out, and the next worker may run under another regime.
* Clients pipeline, fragment, stop reading and leave, while callbacks of one
  round of the loop are still pending.

The properties that make each part correct are listed with its module in
section 3, the hazards with their lines in `PROJECT.json`.

## 2. The modules

```
KeyValueStore <-- CacheStore --- CacheStoreHistory --- Commands --- Proxy
BatchQueue    <-- OperationLog                           |           |
                             Bytes --- ReplyFormat ------+           |
                               |                                     |
                               +------ RespParser                    |
EventLoop <----------------------------------------------------------+
StartUp
```

`A <-- B`: B is shown to implement A. `A --- B`: B extends A. Each module that
TLC runs has an `MC` module with values for its constants. Proofs are in
`CacheStoreProofs` (with those of CacheStoreHistory), `CommandsProofs`,
`OperationLogProofs`, `StartUpProofs`, `RespParserProofs`, `EventLoopProofs` and
`ProxyProofs`; `RecursionProofs` holds the lemmas about recursive functions and
concatenations that they share.

| Module | Models | Lines of the code |
|---|---|---|
| `KeyValueStore` | what the storage path promises: one map, and a durable copy that may lag | - |
| `CacheStore` | a request for one key under the four regimes, dump, crash, restart | `send_req_postgres.c`, `proxy_hash.c`, `work_with_db.c:117-323` |
| `CacheStoreHistory` | CacheStore with the history of acknowledged writes | - |
| `Commands` | the dispatch of requests, DEL of several keys, `pg_answer` | `redis_reqv_converter.c`, `redis_proxy.c:44-48`, `:87-153` |
| `Bytes` | the grammar of the Redis protocol | - |
| `ReplyFormat` | replies, byte by byte | `postgres_reqv_converter.c` |
| `RespParser` | the automaton of one connection and the loop around it | `work_with_socket.c:70-228`, `redis_proxy.c:99-145` |
| `BatchQueue` | what the log promises: a queue sent in batches | - |
| `OperationLog` | the list in memory and the transaction buffer | `logger.c`, `work_with_db.c:24-134`, `sync_with_db` |
| `EventLoop` | callbacks, watchers, sockets, clients | `redis_proxy.c:54-199`, `:246-309`, `work_with_socket.c` |
| `StartUp` | configuration, tables, failed starts | `configure_proxy.c`, `work_with_db.c:325-396`, `proxy_start_work` |
| `Proxy` | the whole worker: EventLoop with the requests of Commands in its read callback, and the timer | `redis_proxy.c`, `redis_reqv_converter.c:188-234` |

The exact lines of every definition are in `PROJECT.json` under "map".

Definitions whose name has a suffix (`MoreTables_late`, `Counted_twice`) are
marked `Faulty form`: a plausible bug, kept beside the definition it spoils, to
show that the properties notice it.

### CacheStore

State: `worker`, `caching_regime` (`config.caching_regime`), `cache` (the hash
table: a value, `Absent` for status byte 1, `NotCached` for no entry), `log`,
`db` (the hstore), `reply`. One action per request: `req_get`, `req_set`,
`req_del`; `sync_with_db` is the timer; `UpdateFails`, `DumpFails` and
`Terminate` end the worker; `proxy_start_work` starts it. A request is one step,
because the only thread of the worker runs it from parse to reply without going
back to the loop, and because nobody else writes the tables (README.md:33 of
the repository advises against it).

A key is short or long, a value small or large, as `fit_in_cache` tells them
apart. The contents do not matter otherwise. `get_value` takes an empty string
in the database for no value (`work_with_db.c:205`); no client can store one,
since `parse_cli_mes` never completes an empty argument, so `Absent` stands for
both. A failed request that may have been carried out is a choice of `db'`.

### Commands and ReplyFormat

Commands adds the request under way, `pg_answer` with its bytes, and what a DEL
still has to do. Each request is one step but DEL, which takes one step per key,
with a worker that may end between two of them (a statement fails, the dump of
the log that the deletion fills fails, SIGTERM). `pg_answer` is NULL at the start
of a read; COMMAND sets nothing (`redis_reqv_converter.c`), so it repeats the
reply of the request before it, and as the first request of a read it makes the
worker convert NULL, which is one of the `WorkerEnds` outcomes.

ReplyFormat computes every size and place as the code does. A byte no `memcpy`
reaches, or copied from behind a text, is `UNSET`, so a size that is wrong by one
shows. What comes out is compared with `Bytes`, which is written from the
protocol and shares nothing with the code. Texts have no NUL in them.

### RespParser

State: the bytes not read, the read buffer, `read_status`, `exit_status`,
`parsing_num`, the argument under way, `argc` and `argv`, all as in `socket_data`
and `socket_parsing`. `read_data` takes any number of bytes up to the size of the
buffer, so reads end everywhere: in an argument, a number, a terminator. Each
other action is one branch of the automaton and takes one byte; `Skip` is every
byte that no branch is for. `RequestEnds` with `replace_part_of_buffer` hands the
request on, `NextRequest` is the next round of the loop of `on_read_cb`.

The streams are what clients of Redis send: arrays of bulk strings, with any
bytes in them. `ArgumentOverflows` is a byte behind the memory of an empty
argument: it may end the process, or be taken like any other.
`WritesStayInside` leaves out that one argument, if it was itself sent empty, and
holds for all others of the stream, those in front of it included.

### OperationLog

State: the nodes in the order of their links, the index of the current one, the
running size, the count. `add_log`, `sync_with_db` and `init_logger` (after the
worker's end) are the actions. The arithmetic on sizes is exact: `Size` gives
the length of every key and value, and the sizes of statements as `snprintf`
writes them (counted from the format strings) are kept apart from the constants
of `work_with_db.h`, so that a wrong constant would show. The operation of the
log that CacheStore abstracts as a sequence is justified by `LogIsAQueue`.

### EventLoop

State: the events of the last poll that have not been handled, for each
connection its parser progress, answer buffer and write watcher, and the
kernel's buffers. A request arrives in `REQUEST_PARTS` pieces, a reply has
`REPLY_PARTS` pieces; pieces are numbered, so loss, duplication and reordering
are visible. `Poll` collects the ready events; the callbacks then run in any
order, since libev promises none. A blocking `write(2)` that does not fit
is a state of its own (`blocked`, `taken`), in which only clients move.

`PartialWrites` adds writes that return short to those that sleep: a signal can
cut a blocking write, and accepted sockets are non-blocking on FreeBSD (which
README.md:49 of the repository names as a platform), because `get_socket` sets
`O_NONBLOCK` on the listening descriptor only and FreeBSD lets them inherit it.
`MoveRest` is what the code then does with the rest. A signal may cut a write
at once or after it has slept and passed on a part (`WriteReturnsShort`,
`SleepEnds`), and that is taken for a short write by the code in both cases.

Where the code reads what was never written - the arguments that
`close_connection` frees in the middle of a request - the model leaves open
whether the process survives. `memcpy` on overlapping memory is taken to copy
forward. The write of `res` to freed memory (`redis_proxy.c:100`) has no effect
in the model.

### StartUp

State: redis.conf, the step the start is at, `config` with the two fields that
matter, `parameter_value`, the names `init_table` has read, and the tables with
their rows, which outlive the worker. A line is a name and the words of its
value. `parameter_value` is never reset: a line without a value takes the one
left over from an earlier line (or, on the first line, what the stack held,
`Garbage`). What such a line does to the field it names is left open:
`ConfigIsOfTheFile` says that no other field is touched by it. `save` is parsed with `strtok`, which cuts that value; a word that is
no number is looked at for ever (`spinning`, as is a blank first line), with
signals blocked; pairs behind the sixteenth are written past the array, which
ends the worker or does not. `init_table` asks for the table names once;
`create_table` and `InsertRow` are two statements and two steps. `Fails` ends a
start anywhere, before or after PostgreSQL has carried out the statement under
way; `Edit` changes the file at any moment.

### Proxy

State: that of Commands and that of EventLoop, with `worker` in common, and
three things neither has alone: the requests of the chunk under way (`batch`),
the state of the timer, and the history the property is about. `on_read_cb` is
the step of EventLoop that takes a chunk and makes room for its replies;
`ProcessNext` then carries out its requests one by one, a DEL key by key, with
the actions of Commands, and `ReadReturns` ends the callback. While `InRead`
holds nothing else of the worker moves, as in its one thread, but clients send,
read and leave, and SIGTERM or a statement that fails may end it. That the places
of the replies are in the buffer before their bytes are worked out is not visible
outside: nobody writes the buffer before the callback returns.

The timer is `set`, `expired`, or `pending` among the events of a round, where it
competes with the sockets for its place; `TimerCallback` is the dump. Time passes
on its own (`TimerExpires`).

History: `orders` are the requests of each client, `results` the answers they
got when they were carried out, `window` the contents that the key of a GET had
from the sending of the GET until it was carried out. `RepliesAreOfTheirTime`
compares them with what the client has read.

## 3. What TLC checks

| Run | Question | Result |
|---|---|---|
| `store_regimes` | `TypeOK`, `LatestPendingIsCached`, `CacheCoherence`, `MemoryIsOfTheRegime`, `CrashKeepsWholeBatches`, `StaleOnlyBehindLarge` for all regimes, long keys, large values, crashes and restarts under another regime | holds |
| `commands` | if all values fit in the cache: Commands implements `KeyValueStore`; `LatestValueServed`, `CrashLosesOnlyPending`; `DelCountsKeys`; `AnswersAreWellFormed`; `EventuallySaved` under fairness; `CommandsTypeOK` | holds |
| `dump_undoes_large_set` | `NothingPendingMeansSaved` with a large value | violated |
| `log_batches` | `TypeOK`, `CursorFollowsCount`, `TransactionFits`; OperationLog implements `BatchQueue` | holds |
| `loop_two_clients` | `TypeOK`, `RepliesInOrder`, `WatcherFollowsAnswer`, `NoEventOfClosed`: two clients that pipeline, fragment, stop reading and leave | holds |
| `loop_progress` | `RepliesCounted`, `EventuallyAnswered`, `TimerGetsItsTurn` if clients read, with short and sleeping writes, COMMAND, and descriptors that run out | holds |
| `slow_client_stops_timer` | `TimerGetsItsTurn` if clients need not read | violated |
| `partial_write_garbles` | `AnswersAreOwn` with short writes | violated |
| `parser_fragments` | `TypeOK`, `ParsedAsSent`, `WritesStayInside`, `EventuallyParsed`: every cut of the bytes into reads | holds |
| `whole_proxy` | `ProxyTypeOK`, `RepliesAreOfTheirTime`, `EventuallySaved`: two clients of one worker under DEFFER_DUMP, from what they send to what they read | holds |
| `startup_restarts` | `TypeOK`, `ConfigIsOfTheFile`, `OneRowPerTable`, `ServingTablesExist`, `EventuallyServing` over failed starts and edits | holds |
| `torn_table` | `ServingTablesHaveRows` | violated |

### The violations

1. `dump_undoes_large_set`. `req_set` sends a value of 98 bytes or more past the
   cache and the log (`send_req_postgres.c:95`). In DEFFER_DUMP it overtakes an
   operation for the same key that waits in the log; the next dump puts the older
   value back, and an acknowledged write is gone.
2. `slow_client_stops_timer`. A client that does not read its replies stops the
   loop in `write(2)`, and the dump timer and every other client with it
   (`work_with_socket.c:197` makes the wrong descriptor non-blocking).
3. `partial_write_garbles`. After a short write the rest of an answer is moved by
   `size - 2 * written` bytes, as the size was already reduced
   (`redis_proxy.c:69-70`).
4. `torn_table`. A start that ends between CREATE TABLE and INSERT
   (`work_with_db.c:386`) leaves a table that `check_table_existence` finds, and
   that no later start gives its row. Every UPDATE of it then changes nothing.

Also visible in the models, without a run of their own: `parse_cli_mes` looks for
the end of an argument after it has taken a byte of it
(`work_with_socket.c:138`), so an argument of length 0 has no end, and neither it
nor anything behind it on that connection is parsed (`ParsedAsSent` says so);
the SET of violation 1 leaves an older entry of its key in the cache in every
regime that has one, so a later GET returns that value, or none if the entry is
the mark of a DEL (`StaleOnlyBehindLarge` says when this ends;
`t/001_whole_test.pl:96` uses short values);
COMMAND repeats the reply of the request before it in the read, and ends the
worker as the first one; a client that leaves in the middle of a request
makes `close_connection` free pointers never set; a save line with a word in it,
or a blank first line, keeps a start busy for ever with signals blocked; `databases
0` serves without the table redis_0 that every request uses.

### Bounds

* `store_regimes`: two short keys, one long key, two small values and a large one
  are enough for a key to have a pending write, a cached read and a direct write
  at once while another key is untouched; four operations fill the log
  (`MAX_COUNT_OPERATION`), so a dump happens with a full and a partly filled log,
  with two operations for one key, and with operations for two keys in a log that
  is not about to be full, where a dump carried out in part would show.
* `commands`: the same keys with two small values, one of them a text of eleven
  bytes with CRLF and `$10` in it, so that its size has two digits; seven lists
  of keys for DEL, with the same key twice and with keys of different paths.
* `log_batches`: keys and values of length 0, 3, 5 and 99, so sizes of SET and DEL
  nodes differ, and a node is reused with another operation. The dump that a full
  log forces is one step with the `add_log` that fills it; `TransactionFits`
  evaluates its batch, which no state holds, for every operation that may come.
* `loop_two_clients`: each client may send three requests in halves
  (`MAX_REQUESTS`), with a read of three pieces (a request and a half) and a send
  buffer of one and a half replies (`SEND_BUFFER`); either leaves at any moment.
  `loop_progress` has two requests and a send buffer of half a reply, so every
  reply is cut, and one descriptor for two clients (`MAX_FDS`).
* `parser_fragments`: arguments of 0, 1, 2, 6 and 10 bytes, made of the bytes the
  automaton looks for; all requests of one or two of them, pairs of requests,
  and three in a row, with a read of at most 13 bytes: less than most requests,
  more than one short request.
* `startup_restarts`: two tables, one slot for save pairs, two failures
  (`MAX_FAILURES`) and twelve files: every field, repeated, wrong and without a
  value, in front of and behind a save line, and every file the code stumbles
  over.

* `whole_proxy`: one key with one value, and three kinds of client behaviour
  (`Scripts`): one that writes and reads the key or uses what needs no data, one
  that reads it, deletes it twice in one DEL, or asks for the unknown. Every
  order of two connections on one key is among them, and a dump with a full and a
  partly filled log (`MAX_COUNT_OPERATION` 2). Requests and replies are in one
  piece, as fragments are the question of `loop_two_clients`; a send buffer of one
  reply makes every second one wait.

`store_regimes` and `loop_two_clients` use symmetry; they check invariants and action
properties only, no liveness.

### Fairness

* `CFairSpec` of Commands: a DEL goes on to its last key; the postmaster restarts
  the worker. The timer of DEFFER_DUMP repeats (`ev_timer_init` with a repeat) and
  is looked at in every turn of the loop, but between two turns there may be
  another request, so `on_timer_timeout_cb` is strongly fair. That the loop gets
  back to the timer at all is `TimerGetsItsTurn` of EventLoop. Nothing is assumed
  of clients, failures or SIGTERM.
* `PFairSpec` of Proxy: the thread of the worker does not rest while it has
  something to do (one weak fairness for all of `Turn`), time passes, the
  postmaster restarts the worker, clients read. The strong fairness of
  `CFairSpec` is not assumed here: that the dump of the timer comes about follows
  from the order in which the loop works, as `EventuallySaved` shows.
* `LoopSpec` of EventLoop: the loop goes on while it has something to do.
  `FairSpec` adds that a connected client reads what was sent to it; the run
  without that assumption is `slow_client_stops_timer`.
* `FairSpec` of RespParser: what is sent arrives, and the loop reads on.
* `FairSpec` of StartUp: a start goes on until it fails. `MAX_FAILURES` says that
  what fails stops failing.

### Deadlock

Deadlock is checked in every run but `parser_fragments`, where a client has sent
all it has to send and the parser rightly stops. In EventLoop and Proxy a state
with nothing to poll still allows `Terminate`; in StartUp the user may edit the
file.

## 4. What is proved

All theorems are for any sets of keys, values, clients and files and any bounds
that satisfy the assumptions of the module (`StoreAssumption`, `LogAssumption`,
`CommandsAssumption`, `ParserAssumption`, `LoopAssumption`, `StartUpAssumption`,
`ProxyAssumption`).

### Storage path

`CacheStoreProofs`: `TypeCorrect`, `PendingWritesAreVisible`, `CacheIsCoherent`,
`NoMemoryOutlivesTheWorker`, the invariants of `store_regimes`. The inductive
invariant is `TypeOK /\ MemoryIsOfTheRegime /\ HasLast(log) /\
LatestPendingIsCached /\ CacheCoherence`. CacheCoherence alone is not inductive:
an operation leaves the log by a dump, and its row agrees with the cache
afterwards only because the cache held the last logged value before.
`HasLast(log)` says that every logged key has a last operation, without which
`LastFor` would be an arbitrary choice; `AppendedIsLast` shows that appending
keeps it.

The following suppose `LargeValues = {}`; with large values they are false
(violation 1).

* `StoreIsAMap`: CacheStore implements KeyValueStore. The
  abstract map is the cache over the database, and a dump changes no key of it,
  because the last operation of the log for a key is what the cache holds.
* Of CacheStoreHistory: `OnlyPendingIsLost`, `GetsAreAnsweredWithTheLatest`. The
  invariant adds to the one above that the acknowledged values are that abstract
  map.
* `CommandsProofs`: the same for Commands, where requests of several steps and
  the end of the worker between them come in (`CommandsActOnAMap`,
  `CommandsLoseOnlyPending`, `CommandsServeTheLatest`), and `DelCountsItsKeys`: deletions done and values
  still to be deleted add up to the keys that had one at the beginning, so a key
  named twice counts once. `DelSendsItsCount` carries that on to the bytes that
  are sent.

Two properties are proved for large values too: `EndOfWorkerKeepsBatches` and
`GetsMissOnlyLargeValues` of CacheStoreHistory, and for the commands
`CommandsKeepBatches` and `CommandsMissOnlyLargeValues`. Their invariant, `KInv`,
says that every key but those whose last value is large has that value in its view
(`ViewIsKept`), and in its row unless an operation of it waits in the log
(`RowsAreKept`). A dump then writes what was acknowledged (`DumpKeeps`), and of the
statements that are sent at once only those for large values are for a key that
waits in the log (`SentIsNotLogged`).

Two more theorems of `CommandsProofs` do without the assumption:
`CommandsTypeCorrect`, and `AnswersAreOfTheProtocol`. The latter says that the
bytes that `define_type_req` writes - one `memcpy` after the other into a buffer
whose size was worked out before - are the message of the protocol, for texts of
any length: each copy fills the place the next one begins behind
(`Begins`, `Copied`, `Complete`), and a number takes as many bytes as `snprintf` was
asked for.

### Recursive functions

`Decimal` and the sums over nodes are recursive functions. That a function
defined so satisfies its equation, and what it computes, is proved by induction;
as no prover at hand can take a predicate as a parameter, `RecursionProofs`
states induction about a set (`LeastElement`, `StrongInduction`, `Induction`) and
each proof names the set of the numbers it holds for. It gives the equation of
`Decimal`, the range of its bytes, and the lemmas on sums that the log needs.
For the parser it adds that a number read from the left, digit by digit, is the
number `Decimal` wrote from the right (`ReadingExists`), and how a
concatenation of strings (`FlattenSeq`) is taken apart at its first string or
behind any of them (`FlatFirst`, `FlatRest`).

### RESP parser

`RespParserProofs`: `TypeCorrect`, `RequestsAreParsedAsSent` and
`WritesAreInside`, the invariants of `parser_fragments`, for all streams of
well-formed requests, of any length and any bytes, and every size of the read
buffer. `ParserAssumption` demands of a stream that its requests have arguments
and that its numbers fit in an `int`, with the NUL; so no step of `parsing_num`
overflows, as what is read never exceeds the number that was sent (`ReadingIs`).

The inductive invariant is `ParserInv`: k requests are done, and the parser is
either between requests with exactly the bytes behind the k-th left (`Between`),
or in request k + 1 (`Within`). For each place in a request it says what the
variables hold and which bytes are left, those in the buffer and those unread
together: a part of a number and the value of the digits before it (`InNumber`), a
part of an argument and the bytes before it (`InArgument`), what is left of a
terminator (`InGap`, `InTerminator`). A read moves bytes from one to the other and
keeps all of this, so it makes no difference where it ends. An empty argument is
a place of its own that no byte leads out of (`Stuck`). There is one lemma for
each place (`NumberStep`, `ByteStep`, ...); `TakenAre` turns the bytes that are
left back into the requests whose last byte was taken.

### Operation log

`OperationLogProofs`: `TypeCorrect`, `CursorIsRight`, and `LogIsAQueue`: `Spec =>
ImplementsBatchQueue`, by the mapping that takes the first `count_operation`
nodes for the queue, and `TransactionIsFilled`: `init_transaction` works the size
of its buffer out from the running size and constants, and the statements of the
batch, written one behind the other, end exactly where it ends. The invariant behind it is `CursorFollowsCount`: the cursor
stands on the last operation exactly while the running size is not 0.

### Start-up

`StartUpProofs`: `TypeCorrect`, `TablesHaveOneRow`, `ServingHasItsTables`,
`ConfigurationIsTheFiles`. The invariant of the tables says which of them
`init_table` has passed (`TablesInv`); that of the configuration says that
`config` is what the lines up to the current one mean (`ConfigInv`), and is kept
apart because it is about the file only.

### Event loop

`EventLoopProofs`: `TypeCorrect`, `CallbacksFindTheirConnection`,
`WatchersFollowAnswers`, `RepliesAreCounted`, for every instance;
`RepliesAreInTheirPlaces` for writes that never return short; `RepliesComeInOrder`
for clients without COMMAND besides, and `ShortWritesAlone` for clients with one
command. Without these conditions the last three are false.

* The inductive invariant, `IInv`, relates for each client what is on its way to
  the worker to what the client has begun to send and what was processed, ties
  the watcher to the answer, and says what a sleeping write has still to pass on.
* `Delivery` divides the steps: each either keeps what is on its way to a client
  (received, in the kernel, still to be written), or appends replies to the
  requests that it has processed, or ends the connection.
* `Owned` says of each piece on its way that it is the right piece of the reply to
  the request in whose place it is, or, if that request is a COMMAND, that piece of
  some reply. It is an invariant by `Delivery`, and with `RepliesCounted` it gives the
  order. The arithmetic of pieces is in `Division` and `PieceOfReply`.

### The whole worker

`ProxyProofs`: `ProxyIsALoop` (`PSpec => Loop!Spec`) and `ProxyRunsCommands`
(`PSpec => CSpec`). Every step of the composition is a step of the loop or leaves
what the loop sees alone, and likewise for the data; the end of the worker is the
end of it in both. From the second follow `ClientsShareAMap`,
`ProxyServesTheLatest` and `ProxyKeepsBatches`. By the first, the theorems of `EventLoopProofs` hold of
the loop within Proxy, with the commands of EventLoop standing for the kinds of
requests: the module takes them over through an instance of `EventLoopProofs`.

* `ProxyTypeCorrect`: `ProxyTypeOK` for every instance. It is not inductive: that
  `results` has a place for each request processed, and that `ProcessNext` finds
  the order it answers, need `InStep`: while the read callback runs its connection
  stays open, and what was processed by the loop is what has been answered and
  what is left of the batch.
* `RepliesAreRight`: `RepliesAreOfTheirTime`, from end to end, if every value fits
  in the cache and writes never return short (violations 1 and 3 are what
  happens otherwise). Three invariants meet: `Owned` of the loop (each piece is in its
  place), `ResultsRight` (what a request was answered with is right: by the lemma
  `AnswerIsRight` when it is carried out, by `WindowsClose` ever after, as later
  writes do not change what it could be), and `Passed` (no piece reaches a socket before its request was carried out, as
  nothing is written while the read callback runs).

### Model-checked only

Liveness under fairness, and with it everything about ENABLED: `EventuallySaved`
of Commands and of Proxy, `EventuallyAnswered` and `TimerGetsItsTurn` of EventLoop,
`EventuallyParsed` of RespParser, `EventuallyServing` of StartUp. No prover at
hand has rules for it.

## 5. What is not modelled

* Requests that are not well formed: negative or very large numbers, the minus
  sign, an argument count of 0. RespParser's streams have none.
* NULs inside values: the code measures values with `strlen`.
* The values of `port`, `tcp-backlog`, `bind`, `logfile`, `daemonize` and the
  numbers of `save`, which decide nothing modelled here.
* `malloc` failing, and the memory that is never given back (`write_io_handle`
  of a closed connection, answers of pipelined requests, the hash table).
* What a program does with memory it has overwritten, beyond that it ends or
  goes on.
* Direct use of the tables by others, several databases (`cur_table_num` is
  always 0), and quoting of keys and values in statements: a statement that
  PostgreSQL refuses is `UpdateFails`, or a dump that ends in `Terminate`.
* Packaging and the test drivers.

## 6. What the composition leaves open

Proxy is EventLoop and Commands in one. Two parts stay beside it, and what each
takes from the others is stated:

* RespParser hands on whole requests in their order (`ParsedAsSent`); EventLoop
  and Proxy take from it that a request is carried out when its last piece was
  read. Its bytes are not repeated there.
* StartUp gives the worker its tables and its regime (`ServingTablesExist`,
  `ConfigIsOfTheFile`); CacheStore lets every start choose a regime.

`whole_proxy` checks one regime, DEFFER_DUMP, the one with a log and a timer. The
module and its theorems are for all four.
