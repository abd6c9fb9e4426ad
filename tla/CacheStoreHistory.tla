-------------------------- MODULE CacheStoreHistory --------------------------
(***************************************************************************)
(* CacheStore with a history variable: for every key, what the last write  *)
(* the proxy acknowledged has left in it. It is the state the clients      *)
(* believe in, against which cache, log and database are judged.           *)
(***************************************************************************)
EXTENDS CacheStore

VARIABLE acked  \* history: no action of the code reads it

hvars == <<vars, acked>>

\* What a reply tells about its key.
Acknowledge(a, r) ==
  CASE r.op = "SET" -> [a EXCEPT ![r.key] = r.value]
    [] r.op = "DEL" -> [a EXCEPT ![r.key] = Absent]
    [] OTHER        -> a

HInit == Init /\ acked = db

\* When the worker exits, clients lose their connections and what the cache
\* knew; what they find afterwards is the database.
Recorded == acked' = IF worker' = "down" THEN db' ELSE Acknowledge(acked, reply')

HNext == Next /\ Recorded

HSpec == HInit /\ [][HNext]_hvars

-----------------------------------------------------------------------------

\* A GET is answered with the last value acknowledged for its key
\* (t/001_whole_test.pl:96, "looking if the latest value is in key").
LatestValueServed ==
  [][reply' # reply /\ reply'.op = "GET" => reply'.value = acked[reply'.key]]_hvars

\* With nothing waiting in the log, the database holds every acknowledged write
\* (README.md:39-40, sync_with_db, and the immediate writes of req_set and
\* req_del). ONLY_CACHE promises nothing of the kind. Large values break it
\* (req_set); without them it follows from CrashLosesOnlyPending.
NothingPendingMeansSaved ==
  caching_regime # "ONLY_CACHE" /\ log = <<>> => db = acked

\* The keys a crash can set back are those with an operation in the log.
CrashLosesOnlyPending ==
  caching_regime # "ONLY_CACHE" =>
    \A k \in Keys : db[k] # acked[k] => k \in Logged(log)

\* The row has what was acknowledged. Where that was a large value, it may have
\* lost it (NothingPendingMeansSaved).
Kept(row, k) == row = acked[k] \/ acked[k] \in LargeValues

\* However the worker ends, in a request or in a dump, the database keeps what it
\* held, or the waiting log was carried out whole and it has everything that was
\* acknowledged. One write that was sent and not answered may be there besides;
\* a waiting operation never is without the others (BEGIN and COMMIT of
\* init_transaction and do_transaction).
CrashKeepsWholeBatches ==
  [][worker = "up" /\ worker' = "down" =>
       \/ db' = db
       \/ \E k \in Keys, x \in Contents :
            db' = [db EXCEPT ![k] = x] /\ (k \in Logged(log) => x \in LargeValues)
       \/ caching_regime = "DEFFER_DUMP" /\ \A k \in Keys : Kept(db'[k], k)
       \/ /\ caching_regime = "DEFFER_DUMP" /\ Len(log) + 1 = MAX_COUNT_OPERATION
          /\ \E op \in Operation :
               db'[op.key] = op.value /\ \A k \in Keys \ {op.key} : Kept(db'[k], k)]_hvars

\* A GET misses the last value of its key only while that is a large one, which
\* req_set writes past the cache: once a value that fits or a DEL has followed, no
\* dump and no entry left over brings an older value back (req_get).
StaleOnlyBehindLarge ==
  [][reply' # reply /\ reply'.op = "GET" => Kept(reply'.value, reply'.key)]_hvars

\* An acknowledged write of DEFFER_DUMP reaches the database, unless it is
\* overwritten or lost with the worker first.
EventuallySaved ==
  \A k \in Keys, x \in Contents :
    acked[k] = x /\ caching_regime = "DEFFER_DUMP" ~> db[k] = x \/ acked[k] # x
=============================================================================
