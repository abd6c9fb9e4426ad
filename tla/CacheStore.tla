------------------------------ MODULE CacheStore ------------------------------
(***************************************************************************)
(* The storage path of the proxy: a request for one key, answered from the *)
(* hash table of the worker process or from PostgreSQL, under each of the  *)
(* four cache regimes (send_req_postgres.c), with the hash table it fills  *)
(* (proxy_hash.c), the operation log of DEFFER_DUMP (logger.c) and the     *)
(* statements it sends (work_with_db.c).                                   *)
(*                                                                         *)
(* The worker is one process with one thread, so a request is one step.    *)
(* ereport(ERROR) does not return: in a background worker it ends the      *)
(* process, so every "ereport(ERROR, ...); return" of the code is the exit *)
(* of the worker, with the loss of the hash table and of the log.  The     *)
(* postmaster starts the worker again.                                     *)
(***************************************************************************)
EXTENDS Naturals, Sequences

CONSTANTS
  ShortKeys,    \* keys with strlen(key) + 1 < KEY_SIZE: they fit in the cache
  LongKeys,     \* the other keys
  SmallValues,  \* values with strlen(value) + 1 < VALUE_SIZE
  LargeValues,  \* the other values
  Absent,       \* no value: NULL in hstore, status byte 1 in the hash table
  NotCached,    \* the hash table has no entry
  Regimes,      \* the cache-regime lines redis.conf may have
  MAX_COUNT_OPERATION  \* logged operations that force a dump (10000 in logger.h)

Keys == ShortKeys \cup LongKeys
Values == SmallValues \cup LargeValues
Contents == Values \cup {Absent}

AllRegimes == {"NO_CACHE", "GET_CACHE", "ONLY_CACHE", "DEFFER_DUMP"}

ASSUME StoreAssumption ==
  /\ ShortKeys \cap LongKeys = {}
  /\ SmallValues \cap LargeValues = {}
  /\ Absent \notin Values
  /\ NotCached \notin Contents
  /\ Regimes \subseteq AllRegimes
  /\ MAX_COUNT_OPERATION \in Nat \ {0}

VARIABLES
  worker,          \* "up" while the background worker serves requests
  caching_regime,  \* config.caching_regime, read when the worker starts
  cache,           \* the hash table of the current table
  log,             \* the operations the logger holds, oldest first
  db,              \* the hstore of the current table
  reply            \* the result of the last request

vars == <<worker, caching_regime, cache, log, db, reply>>

NoReply == [op |-> "none"]
GetReply(k, x) == [op |-> "GET", key |-> k, value |-> x]
SetReply(k, v) == [op |-> "SET", key |-> k, value |-> v]
DelReply(k, existed) == [op |-> "DEL", key |-> k, existed |-> existed]

Replies == {NoReply}
           \cup [op : {"GET"}, key : Keys, value : Contents]
           \cup [op : {"SET"}, key : Keys, value : Values]
           \cup [op : {"DEL"}, key : Keys, existed : BOOLEAN]

\* A log entry: SET with its value, DEL with Absent.
Operation == [key : ShortKeys, value : SmallValues \cup {Absent}]

EmptyCache == [k \in ShortKeys |-> NotCached]

TypeOK ==
  /\ worker \in {"up", "down"}
  /\ caching_regime \in Regimes
  /\ cache \in [ShortKeys -> SmallValues \cup {Absent, NotCached}]
  /\ log \in Seq(Operation)
  /\ Len(log) < MAX_COUNT_OPERATION
  /\ db \in [Keys -> Contents]
  /\ reply \in Replies

-----------------------------------------------------------------------------
(***************************************************************************)
(* The hash table, the statements and the log.                             *)
(***************************************************************************)

\* The branches on get_caching_status().
Caching == caching_regime # "NO_CACHE"
WritesToCacheOnly == caching_regime \in {"ONLY_CACHE", "DEFFER_DUMP"}

\* Faulty form: the mark of a deleted key is taken for a missing entry.
check_hash_table_values_only(k) ==
  Caching /\ k \in ShortKeys /\ cache[k] \notin {NotCached, Absent}

\* check_hash_table finds an entry: a value, or the mark of a deleted key.
check_hash_table(k) == Caching /\ k \in ShortKeys /\ cache[k] # NotCached

\* Faulty form: the status byte of a deleted key is never reset.
set_hash_table_keeps_mark(k, x) ==
  cache' = [cache EXCEPT ![k] = IF @ = Absent THEN Absent ELSE x]

set_hash_table(k, x) == cache' = [cache EXCEPT ![k] = x]

\* SELECT h[key], UPDATE ... SET h[key]=value, UPDATE ... SET h = delete(h, key).
get_value(k) == db[k]
set_value(k, v) == [db EXCEPT ![k] = v]
del_value(k) == [db EXCEPT ![k] = Absent]

\* The transaction of a dump carries out the logged operations in order, so
\* the last one for a key decides.
Logged(ops) == {ops[i].key : i \in DOMAIN ops}

IsLastFor(ops, k, i) ==
  /\ i \in DOMAIN ops
  /\ ops[i].key = k
  /\ \A j \in DOMAIN ops : ops[j].key = k => j <= i

\* Faulty form: the operations take effect newest first.
LastFor_oldest(ops, k) ==
  CHOOSE i \in DOMAIN ops :
    ops[i].key = k /\ \A j \in DOMAIN ops : ops[j].key = k => i <= j

LastFor(ops, k) == CHOOSE i \in DOMAIN ops : IsLastFor(ops, k, i)

do_transaction(ops, d) ==
  [k \in Keys |-> IF k \in Logged(ops) THEN ops[LastFor(ops, k)].value ELSE d[k]]

\* Faulty forms: a full log is not dumped; it is cleared without a dump; it is
\* dumped without the operation that filled it.
add_log_unbounded(op, d) ==
  /\ log' = Append(log, op)
  /\ db' = d

add_log_clears(op, d) ==
  /\ log' = IF Len(log) + 1 = MAX_COUNT_OPERATION THEN <<>> ELSE Append(log, op)
  /\ db' = d

add_log_dumps_first(op, d) ==
  LET full == Len(log) + 1 = MAX_COUNT_OPERATION IN
  /\ log' = IF full THEN <<>> ELSE Append(log, op)
  /\ db' = IF full THEN do_transaction(log, d) ELSE d

\* Appends an operation; d is what the request has left in the database. The
\* operation that fills the log dumps it before the request is answered.
add_log(op, d) ==
  LET ops == Append(log, op) IN
  \/ /\ Len(ops) # MAX_COUNT_OPERATION
     /\ log' = ops
     /\ db' = d
  \/ /\ Len(ops) = MAX_COUNT_OPERATION
     /\ log' = <<>>
     /\ db' = do_transaction(ops, d)

\* Faulty form: ONLY_CACHE keeps a log too.
RememberOnly_logs(k, x, d) ==
  /\ set_hash_table(k, x)
  /\ add_log([key |-> k, value |-> x], d)

\* The end of a write that the regime keeps away from the database.
RememberOnly(k, x, d) ==
  /\ set_hash_table(k, x)
  /\ \/ /\ caching_regime = "DEFFER_DUMP"
        /\ add_log([key |-> k, value |-> x], d)
     \/ /\ caching_regime # "DEFFER_DUMP"
        /\ db' = d
        /\ UNCHANGED log

-----------------------------------------------------------------------------
(***************************************************************************)
(* The requests.                                                           *)
(***************************************************************************)

\* The cache answers, or the database does and the cache remembers what it
\* said (a missing key too) if it fits.
req_get(k) ==
  /\ worker = "up"
  /\ \/ /\ check_hash_table(k)
        /\ reply' = GetReply(k, cache[k])
        /\ UNCHANGED cache
     \/ /\ ~check_hash_table(k)
        /\ reply' = GetReply(k, get_value(k))
        /\ IF Caching /\ k \in ShortKeys /\ get_value(k) \notin LargeValues
             THEN set_hash_table(k, get_value(k))
             ELSE UNCHANGED cache
  /\ UNCHANGED <<worker, caching_regime, log, db>>

FitsInCache(k, v) == k \in ShortKeys /\ v \in SmallValues

\* A write that does not fit goes to the database and leaves the cache alone.
req_set(k, v) ==
  /\ worker = "up"
  /\ reply' = SetReply(k, v)
  /\ \/ /\ caching_regime = "NO_CACHE" \/ ~FitsInCache(k, v)
        /\ db' = set_value(k, v)
        /\ UNCHANGED <<cache, log>>
     \/ /\ caching_regime = "GET_CACHE"
        /\ FitsInCache(k, v)
        /\ db' = set_value(k, v)
        /\ set_hash_table(k, v)
        /\ UNCHANGED log
     \/ /\ WritesToCacheOnly
        /\ FitsInCache(k, v)
        /\ RememberOnly(k, v, db)
  /\ UNCHANGED <<worker, caching_regime>>

\* The database is asked, and changed, unless the cache knows the key.
req_del(k) ==
  /\ worker = "up"
  /\ \/ /\ caching_regime = "NO_CACHE" \/ k \in LongKeys
        /\ reply' = DelReply(k, db[k] # Absent)
        /\ db' = del_value(k)
        /\ UNCHANGED <<cache, log>>
     \/ /\ caching_regime = "GET_CACHE"
        /\ k \in ShortKeys
        /\ reply' = DelReply(k, db[k] # Absent)
        /\ db' = del_value(k)
        /\ set_hash_table(k, Absent)
        /\ UNCHANGED log
     \/ /\ WritesToCacheOnly
        /\ k \in ShortKeys
        /\ check_hash_table(k)
        /\ reply' = DelReply(k, cache[k] # Absent)
        /\ RememberOnly(k, Absent, db)
     \/ /\ WritesToCacheOnly
        /\ k \in ShortKeys
        /\ ~check_hash_table(k)
        /\ reply' = DelReply(k, db[k] # Absent)
        /\ RememberOnly(k, Absent, del_value(k))
  /\ UNCHANGED <<worker, caching_regime>>

\* Faulty form: a log of one operation passes for an empty one.
sync_with_db_off_by_one ==
  /\ worker = "up"
  /\ caching_regime = "DEFFER_DUMP"
  /\ Len(log) > 1
  /\ db' = do_transaction(log, db)
  /\ log' = <<>>
  /\ UNCHANGED <<worker, caching_regime, cache, reply>>

\* The timer of DEFFER_DUMP; an empty log has nothing to send.
sync_with_db ==
  /\ worker = "up"
  /\ caching_regime = "DEFFER_DUMP"
  /\ log # <<>>
  /\ db' = do_transaction(log, db)
  /\ log' = <<>>
  /\ UNCHANGED <<worker, caching_regime, cache, reply>>

-----------------------------------------------------------------------------
(***************************************************************************)
(* The end of the worker and its restart.                                  *)
(***************************************************************************)

\* The process is gone, with all it had in memory; d is what PostgreSQL keeps.
Exit(d) ==
  /\ worker = "up"
  /\ worker' = "down"
  /\ cache' = EmptyCache
  /\ log' = <<>>
  /\ db' = d
  /\ reply' = NoReply
  /\ UNCHANGED caching_regime

\* The requests "k := x" that send their UPDATE before they are answered.
WritesThrough(k, x) ==
  \/ ~WritesToCacheOnly
  \/ k \in LongKeys
  \/ x \in LargeValues
  \/ x = Absent /\ ~check_hash_table(k)

\* PQexec reports an error for the UPDATE of a request: it was refused, or the
\* connection broke and nobody knows whether it was carried out.
UpdateFails(k, x) ==
  /\ WritesThrough(k, x)
  /\ \E d \in {db, [db EXCEPT ![k] = x]} : Exit(d)

\* Faulty form: the statements of a dump are not in one transaction.
DumpFails_in_part ==
  /\ caching_regime = "DEFFER_DUMP"
  /\ \E n \in 0 .. Len(log) : Exit(do_transaction(SubSeq(log, 1, n), db))

\* The same for the transaction of a dump, started by the timer or by the
\* request that fills the log.
DumpFails ==
  /\ caching_regime = "DEFFER_DUMP"
  /\ \/ /\ log # <<>>
        /\ Exit(do_transaction(log, db))
     \/ /\ Len(log) + 1 = MAX_COUNT_OPERATION
        /\ \E op \in Operation : Exit(do_transaction(Append(log, op), db))

\* SIGTERM, a failed SELECT, a failed dump that was not carried out, or any
\* other ereport(ERROR) of the worker.
Terminate == Exit(db)

\* The postmaster starts the worker; redis.conf is read again.
proxy_start_work ==
  /\ worker = "down"
  /\ worker' = "up"
  /\ caching_regime' \in Regimes
  /\ UNCHANGED <<cache, log, db, reply>>

-----------------------------------------------------------------------------

\* The tables may hold anything an earlier life of the proxy has left.
Init ==
  /\ worker = "down"
  /\ caching_regime \in Regimes
  /\ cache = EmptyCache
  /\ log = <<>>
  /\ db \in [Keys -> Contents]
  /\ reply = NoReply

Next ==
  \/ \E k \in Keys : req_get(k) \/ req_del(k)
  \/ \E k \in Keys, v \in Values : req_set(k, v)
  \/ sync_with_db
  \/ \E k \in Keys, x \in Contents : UpdateFails(k, x)
  \/ DumpFails
  \/ Terminate
  \/ proxy_start_work

Spec == Init /\ [][Next]_vars

-----------------------------------------------------------------------------
(***************************************************************************)
(* Properties.                                                             *)
(***************************************************************************)

\* While an operation waits in the log of DEFFER_DUMP, the database is behind
\* and only the cache knows: whatever is last in the log for a key is what the
\* cache holds for it (req_get never goes to the stale row, and a dump writes
\* what clients were reading).
LatestPendingIsCached ==
  \A k \in Logged(log) : cache[k] = log[LastFor(log, k)].value

\* A cached key with nothing pending agrees with its row in NO_CACHE, GET_CACHE
\* and DEFFER_DUMP. The one exception is a row holding a value too large for
\* the cache: req_set writes it past a live entry, which stays as it was.
CacheCoherence ==
  caching_regime # "ONLY_CACHE" =>
    \A k \in ShortKeys \ Logged(log) :
      cache[k] # NotCached => cache[k] = db[k] \/ db[k] \in LargeValues

\* Only DEFFER_DUMP keeps a log, only a caching regime fills the hash table, and
\* nothing of either survives the worker.
MemoryIsOfTheRegime ==
  /\ log # <<>> => worker = "up" /\ caching_regime = "DEFFER_DUMP"
  /\ \A k \in ShortKeys : cache[k] # NotCached => worker = "up" /\ Caching

\* What a GET of each key would be answered.
View == [k \in Keys |-> IF check_hash_table(k) THEN cache[k] ELSE db[k]]

\* The storage path is a map of which PostgreSQL holds an earlier state. This
\* is checked where every value fits in the cache.
KV == INSTANCE KeyValueStore WITH store <- View, disk <- db

ImplementsKeyValueStore == KV!Spec
=============================================================================
