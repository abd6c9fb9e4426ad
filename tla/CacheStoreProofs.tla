--------------------------- MODULE CacheStoreProofs ---------------------------
(***************************************************************************)
(* Proofs about the storage path, for every set of keys and values, every  *)
(* choice of regimes and every bound of the log: its invariants; that it   *)
(* implements the map of KeyValueStore where every value fits in the cache;*)
(* and what a client may still rely on when the worker has ended.          *)
(***************************************************************************)
EXTENDS CacheStoreHistory, SequenceTheorems, TLAPS

-----------------------------------------------------------------------------
(***************************************************************************)
(* The log: every logged key has a last operation.                         *)
(***************************************************************************)

HasLast(ops) == \A k \in Logged(ops) : \E i \in DOMAIN ops : IsLastFor(ops, k, i)

\* LastFor picks the operation a dump lets win (do_transaction).
LEMMA LastForIsLast ==
  ASSUME NEW ops, HasLast(ops), NEW k \in Logged(ops)
  PROVE  IsLastFor(ops, k, LastFor(ops, k))
BY DEF HasLast, LastFor

\* There is only one such operation.
LEMMA LastIsUnique ==
  ASSUME NEW ops \in Seq(Operation), NEW k, NEW i, NEW j,
         IsLastFor(ops, k, i), IsLastFor(ops, k, j)
  PROVE  i = j
<1>1. i \in 1 .. Len(ops) /\ j \in 1 .. Len(ops)
  BY DEF IsLastFor
<1>2. i <= j /\ j <= i
  BY DEF IsLastFor
<1> QED
  BY <1>1, <1>2

\* add_log: the appended operation is the last for its key, and the last ones
\* of the other keys stay what they were.
LEMMA AppendedIsLast ==
  ASSUME NEW ops \in Seq(Operation), HasLast(ops), NEW op \in Operation
  PROVE  LET new == Append(ops, op) IN
         /\ HasLast(new)
         /\ Logged(new) = Logged(ops) \cup {op.key}
         /\ new[LastFor(new, op.key)].value = op.value
         /\ \A k \in Logged(ops) \ {op.key} :
              new[LastFor(new, k)].value = ops[LastFor(ops, k)].value
<1> DEFINE new == Append(ops, op)
           n == Len(ops) + 1
<1>1. /\ new \in Seq(Operation)
      /\ DOMAIN ops = 1 .. Len(ops)
      /\ Len(ops) \in Nat
      /\ DOMAIN new = 1 .. n
      /\ new[n] = op
      /\ \A i \in 1 .. Len(ops) : new[i] = ops[i]
  OBVIOUS
<1> HIDE DEF new
<1>2. Logged(new) = Logged(ops) \cup {op.key}
  <2>1. Logged(new) \subseteq Logged(ops) \cup {op.key}
    <3> SUFFICES ASSUME NEW i \in 1 .. n
                 PROVE  new[i].key \in Logged(ops) \cup {op.key}
      BY <1>1 DEF Logged
    <3> QED
      BY <1>1 DEF Logged
  <2>2. Logged(ops) \subseteq Logged(new)
    BY <1>1 DEF Logged
  <2>3. op.key \in Logged(new)
    BY <1>1 DEF Logged
  <2> QED
    BY <2>1, <2>2, <2>3
<1>3. IsLastFor(new, op.key, n)
  BY <1>1 DEF IsLastFor
<1>4. ASSUME NEW k \in Logged(ops) \ {op.key}
      PROVE  IsLastFor(new, k, LastFor(ops, k))
  <2>1. IsLastFor(ops, k, LastFor(ops, k))
    BY LastForIsLast
  <2>2. LastFor(ops, k) \in 1 .. Len(ops) /\ ops[LastFor(ops, k)].key = k
    BY <1>1, <2>1 DEF IsLastFor
  <2>3. ASSUME NEW j \in 1 .. n, new[j].key = k
        PROVE  j <= LastFor(ops, k)
    BY <1>1, <2>1, <2>3 DEF IsLastFor
  <2> QED
    BY <1>1, <2>2, <2>3 DEF IsLastFor
<1>5. HasLast(new)
  BY <1>2, <1>3, <1>4 DEF HasLast, IsLastFor
<1>6. new[LastFor(new, op.key)].value = op.value
  <2>1. IsLastFor(new, op.key, LastFor(new, op.key))
    BY <1>2, <1>5, LastForIsLast
  <2>2. LastFor(new, op.key) = n
    BY <1>1, <1>3, <2>1, LastIsUnique
  <2> QED
    BY <1>1, <2>2
<1>7. ASSUME NEW k \in Logged(ops) \ {op.key}
      PROVE  new[LastFor(new, k)].value = ops[LastFor(ops, k)].value
  <2>1. IsLastFor(new, k, LastFor(new, k))
    BY <1>2, <1>5, LastForIsLast
  <2>2. LastFor(new, k) = LastFor(ops, k)
    BY <1>1, <1>4, <2>1, LastIsUnique
  <2>3. LastFor(ops, k) \in 1 .. Len(ops)
    BY <1>1, LastForIsLast DEF IsLastFor
  <2> QED
    BY <1>1, <2>2, <2>3
<1> QED
  BY <1>2, <1>5, <1>6, <1>7 DEF new

\* A dump writes storable contents, and no large value comes out of the log.
LEMMA DumpType ==
  ASSUME NEW ops \in Seq(Operation), HasLast(ops), NEW d \in [Keys -> Contents]
  PROVE  /\ do_transaction(ops, d) \in [Keys -> Contents]
         /\ Logged(ops) \subseteq ShortKeys
         /\ \A k \in Logged(ops) :
              ops[LastFor(ops, k)].value \in SmallValues \cup {Absent}
<1>1. ASSUME NEW k \in Logged(ops)
      PROVE  ops[LastFor(ops, k)].value \in SmallValues \cup {Absent}
  <2>1. LastFor(ops, k) \in DOMAIN ops
    BY LastForIsLast DEF IsLastFor
  <2>2. ops[LastFor(ops, k)] \in Operation
    BY <2>1
  <2> QED
    BY <2>2 DEF Operation
<1>2. ASSUME NEW i \in DOMAIN ops
      PROVE  ops[i].key \in ShortKeys
  <2>1. ops[i] \in Operation
    OBVIOUS
  <2> QED
    BY <2>1 DEF Operation
<1>3. do_transaction(ops, d) \in [Keys -> Contents]
  BY <1>1 DEF do_transaction, Contents, Values
<1> QED
  BY <1>1, <1>2, <1>3 DEF Logged

-----------------------------------------------------------------------------
(***************************************************************************)
(* The inductive invariant. LatestPendingIsCached says nothing of a log    *)
(* that has no last operation for a key, and a dump would then write an    *)
(* unspecified value: hence HasLast(log). CacheCoherence alone is not      *)
(* inductive either: an operation leaves the log by a dump, and what makes *)
(* its row agree with its cache entry is LatestPendingIsCached.            *)
(***************************************************************************)

IInv ==
  /\ TypeOK
  /\ MemoryIsOfTheRegime
  /\ HasLast(log)
  /\ LatestPendingIsCached
  /\ CacheCoherence

\* The worker starts with an empty hash table and an empty log.
LEMMA InitInvariant == Init => IInv
<1> SUFFICES ASSUME Init PROVE IInv
  OBVIOUS
<1>1. TypeOK
  BY StoreAssumption DEF Init, TypeOK, EmptyCache, Replies
<1>2. Logged(log) = {}
  BY DEF Init, Logged
<1>3. MemoryIsOfTheRegime
  BY DEF Init, MemoryIsOfTheRegime, EmptyCache
<1>4. HasLast(log) /\ LatestPendingIsCached
  BY <1>2 DEF HasLast, LatestPendingIsCached
<1>5. CacheCoherence
  BY DEF Init, CacheCoherence, EmptyCache
<1> QED
  BY <1>1, <1>3, <1>4, <1>5 DEF IInv

\* Nothing in memory: true of every state Exit leaves behind.
LEMMA ExitPreserves ==
  ASSUME IInv, NEW d \in [Keys -> Contents], Exit(d)
  PROVE  IInv'
<1>1. Logged(log') = {}
  BY DEF Exit, Logged
<1>2. TypeOK'
  BY StoreAssumption DEF IInv, Exit, TypeOK, EmptyCache, Replies
<1>3. MemoryIsOfTheRegime' /\ CacheCoherence'
  BY DEF Exit, MemoryIsOfTheRegime, CacheCoherence, EmptyCache
<1>4. HasLast(log)' /\ LatestPendingIsCached'
  BY <1>1 DEF HasLast, LatestPendingIsCached
<1> QED
  BY <1>2, <1>3, <1>4 DEF IInv

\* A request that leaves the log alone: it changes at most the row of its key
\* and its cache entry, and never the entry of a key with something pending.
LEMMA DirectWritePreserves ==
  ASSUME IInv, worker = "up", UNCHANGED <<worker, caching_regime, log>>,
         reply' \in Replies,
         NEW k \in Keys,
         db' \in [Keys -> Contents],
         \A j \in Keys \ {k} : db'[j] = db[j],
         cache' \in [ShortKeys -> SmallValues \cup {Absent, NotCached}],
         \A j \in ShortKeys \ {k} : cache'[j] = cache[j],
         k \in Logged(log) => UNCHANGED cache,
         k \in ShortKeys /\ cache'[k] # NotCached => Caching,
         caching_regime # "ONLY_CACHE" /\ k \in ShortKeys \ Logged(log)
           /\ cache'[k] # NotCached
           => cache'[k] = db'[k] \/ db'[k] \in LargeValues
  PROVE  IInv'
<1>1. TypeOK'
  BY DEF IInv, TypeOK
<1>2. MemoryIsOfTheRegime'
  <2>1. log' # <<>> => worker' = "up" /\ caching_regime' = "DEFFER_DUMP"
    BY DEF IInv, MemoryIsOfTheRegime
  <2>2. ASSUME NEW j \in ShortKeys, cache'[j] # NotCached
        PROVE  worker' = "up" /\ Caching'
    BY <2>2 DEF IInv, MemoryIsOfTheRegime, Caching
  <2> QED
    BY <2>1, <2>2 DEF MemoryIsOfTheRegime
<1>3. HasLast(log)'
  BY DEF IInv
<1>4. LatestPendingIsCached'
  <2>1. Logged(log) \subseteq ShortKeys
    BY DumpType DEF IInv, TypeOK
  <2>2. ASSUME NEW j \in Logged(log)
        PROVE  cache'[j] = log[LastFor(log, j)].value
    <3>1. cache[j] = log[LastFor(log, j)].value
      BY DEF IInv, LatestPendingIsCached
    <3>2. cache'[j] = cache[j]
      BY <2>1
    <3> QED
      BY <3>1, <3>2
  <2>3. log' = log
    OBVIOUS
  <2> QED
    BY <2>2, <2>3 DEF LatestPendingIsCached
<1>5. CacheCoherence'
  <2> SUFFICES ASSUME caching_regime # "ONLY_CACHE",
                      NEW j \in ShortKeys \ Logged(log), cache'[j] # NotCached
               PROVE  cache'[j] = db'[j] \/ db'[j] \in LargeValues
    BY DEF CacheCoherence, Logged
  <2>1. CASE j = k
    BY <2>1
  <2>2. CASE j # k
    BY <2>2 DEF IInv, CacheCoherence, Keys
  <2> QED
    BY <2>1, <2>2
<1> QED
  BY <1>1, <1>2, <1>3, <1>4, <1>5 DEF IInv

\* sync_with_db: a dump moves every pending operation to its row. The cache
\* entry of a row so written is the value written.
LEMMA DumpPreserves ==
  ASSUME TypeOK', MemoryIsOfTheRegime', log' = <<>>,
         NEW ops \in Seq(Operation), HasLast(ops),
         NEW d \in [Keys -> Contents], db' = do_transaction(ops, d),
         \A k \in Logged(ops) : cache'[k] = ops[LastFor(ops, k)].value,
         caching_regime' # "ONLY_CACHE",
         \A k \in ShortKeys \ Logged(ops) :
           cache'[k] # NotCached => cache'[k] = d[k] \/ d[k] \in LargeValues
  PROVE  IInv'
<1>1. Logged(log') = {}
  BY DEF Logged
<1>2. HasLast(log)' /\ LatestPendingIsCached'
  BY <1>1 DEF HasLast, LatestPendingIsCached
<1>3. CacheCoherence'
  <2> SUFFICES ASSUME NEW k \in ShortKeys, cache'[k] # NotCached
               PROVE  cache'[k] = db'[k] \/ db'[k] \in LargeValues
    BY DEF CacheCoherence
  <2>1. CASE k \in Logged(ops)
    BY <2>1 DEF do_transaction, Keys
  <2>2. CASE k \notin Logged(ops)
    BY <2>2 DEF do_transaction, Keys
  <2> QED
    BY <2>1, <2>2
<1> QED
  BY <1>2, <1>3 DEF IInv

\* A write of DEFFER_DUMP: the cache and the log change together, the row of
\* the key may have been changed before (d), and a full log is dumped.
LEMMA LoggedWritePreserves ==
  ASSUME IInv, worker = "up", caching_regime = "DEFFER_DUMP",
         UNCHANGED <<worker, caching_regime>>, reply' \in Replies,
         NEW op \in Operation,
         NEW d \in [Keys -> Contents],
         \A j \in Keys \ {op.key} : d[j] = db[j],
         set_hash_table(op.key, op.value),
         add_log(op, d)
  PROVE  IInv'
<1> DEFINE ops == Append(log, op)
<1> USE DEF IInv
<1>1. /\ log \in Seq(Operation)
      /\ ops \in Seq(Operation)
      /\ Len(ops) = Len(log) + 1
      /\ op.key \in ShortKeys
      /\ op.value \in SmallValues \cup {Absent}
  BY DEF TypeOK, Operation
<1>2. /\ HasLast(ops)
      /\ Logged(ops) = Logged(log) \cup {op.key}
      /\ ops[LastFor(ops, op.key)].value = op.value
      /\ \A k \in Logged(log) \ {op.key} :
           ops[LastFor(ops, k)].value = log[LastFor(log, k)].value
  BY <1>1, AppendedIsLast
<1>3. /\ Logged(log) \subseteq ShortKeys
      /\ Logged(ops) \subseteq ShortKeys
      /\ do_transaction(ops, d) \in [Keys -> Contents]
  BY <1>1, <1>2, DumpType DEF TypeOK
<1>4. /\ cache' \in [ShortKeys -> SmallValues \cup {Absent, NotCached}]
      /\ cache'[op.key] = op.value
      /\ \A k \in ShortKeys \ {op.key} : cache'[k] = cache[k]
  BY <1>1 DEF set_hash_table, TypeOK
<1>5. \A k \in Logged(ops) : cache'[k] = ops[LastFor(ops, k)].value
  BY <1>2, <1>3, <1>4 DEF LatestPendingIsCached
<1>6. ASSUME NEW k \in ShortKeys \ Logged(ops), cache'[k] # NotCached
      PROVE  cache'[k] = d[k] \/ d[k] \in LargeValues
  BY <1>2, <1>4, <1>6 DEF CacheCoherence, Keys
<1> HIDE DEF ops
<1>7. CASE Len(ops) # MAX_COUNT_OPERATION /\ log' = ops /\ db' = d
  <2>1. TypeOK'
    BY <1>1, <1>4, <1>7, StoreAssumption DEF TypeOK
  <2>2. MemoryIsOfTheRegime'
    BY DEF MemoryIsOfTheRegime, Caching
  <2>3. HasLast(log)' /\ LatestPendingIsCached'
    BY <1>2, <1>5, <1>7 DEF LatestPendingIsCached
  <2>4. CacheCoherence'
    BY <1>6, <1>7 DEF CacheCoherence
  <2> QED
    BY <2>1, <2>2, <2>3, <2>4
<1>8. CASE Len(ops) = MAX_COUNT_OPERATION /\ log' = <<>> /\ db' = do_transaction(ops, d)
  <2>1. TypeOK'
    BY <1>3, <1>4, <1>8, StoreAssumption DEF TypeOK
  <2>2. MemoryIsOfTheRegime'
    BY DEF MemoryIsOfTheRegime, Caching
  <2> QED
    BY <1>1, <1>2, <1>5, <1>6, <1>8, <2>1, <2>2, DumpPreserves
<1> QED
  BY <1>7, <1>8 DEF add_log, ops

-----------------------------------------------------------------------------
(***************************************************************************)
(* The steps.                                                              *)
(***************************************************************************)

\* What a GET of a row finds is a value or Absent; the hash table holds no other.
LEMMA GetPreserves ==
  ASSUME IInv, NEW k \in Keys, req_get(k)
  PROVE  IInv'
<1> USE DEF IInv
<1>1. /\ worker = "up"
      /\ UNCHANGED <<worker, caching_regime, log, db>>
      /\ db \in [Keys -> Contents]
      /\ db' \in [Keys -> Contents]
      /\ cache \in [ShortKeys -> SmallValues \cup {Absent, NotCached}]
      /\ db[k] \in SmallValues \cup LargeValues \cup {Absent}
  BY DEF req_get, TypeOK, Contents, Values
<1>2. CASE check_hash_table(k) /\ reply' = GetReply(k, cache[k]) /\ UNCHANGED cache
  <2>1. cache[k] \in Contents
    BY <1>1, <1>2 DEF check_hash_table, Contents, Values
  <2>2. reply' \in Replies
    BY <1>2, <2>1 DEF Replies, GetReply
  <2> QED
    BY <1>1, <1>2, <2>2, DirectWritePreserves
       DEF MemoryIsOfTheRegime, CacheCoherence, Caching
<1>3. CASE ~check_hash_table(k) /\ reply' = GetReply(k, db[k])
  <2>1. reply' \in Replies
    BY <1>1, <1>3 DEF Replies, GetReply, Contents, Values
  <2>2. CASE Caching /\ k \in ShortKeys /\ db[k] \notin LargeValues
             /\ set_hash_table(k, db[k])
    <3>1. db[k] \in SmallValues \cup {Absent}
      BY <1>1, <2>2
    <3>2. /\ cache' \in [ShortKeys -> SmallValues \cup {Absent, NotCached}]
          /\ cache'[k] = db[k]
          /\ \A j \in ShortKeys \ {k} : cache'[j] = cache[j]
      BY <1>1, <2>2, <3>1 DEF set_hash_table
    <3>3. k \notin Logged(log)
      <4> SUFFICES ASSUME k \in Logged(log) PROVE FALSE
        OBVIOUS
      <4>1. cache[k] \in SmallValues \cup {Absent}
        BY DumpType DEF LatestPendingIsCached, TypeOK
      <4>2. cache[k] = NotCached
        BY <1>3, <2>2 DEF check_hash_table
      <4> QED
        BY <4>1, <4>2, StoreAssumption DEF Contents, Values
    <3> QED
      BY <1>1, <2>1, <2>2, <3>2, <3>3, DirectWritePreserves
  <2>3. CASE UNCHANGED cache
    BY <1>1, <2>1, <2>3, DirectWritePreserves
       DEF MemoryIsOfTheRegime, CacheCoherence, Caching
  <2> QED
    BY <1>3, <2>2, <2>3 DEF req_get, get_value
<1> QED
  BY <1>2, <1>3 DEF req_get, get_value

\* The regimes other than DEFFER_DUMP have an empty log.
LEMMA NothingLogged ==
  ASSUME IInv, caching_regime # "DEFFER_DUMP"
  PROVE  Logged(log) = {}
BY DEF IInv, MemoryIsOfTheRegime, Logged

\* The end of a write in ONLY_CACHE and DEFFER_DUMP.
LEMMA RememberPreserves ==
  ASSUME IInv, worker = "up", WritesToCacheOnly,
         UNCHANGED <<worker, caching_regime>>, reply' \in Replies,
         NEW k \in ShortKeys, NEW x \in SmallValues \cup {Absent},
         NEW d \in [Keys -> Contents],
         \A j \in Keys \ {k} : d[j] = db[j],
         RememberOnly(k, x, d)
  PROVE  IInv'
<1>1. CASE caching_regime = "DEFFER_DUMP" /\ add_log([key |-> k, value |-> x], d)
  <2> DEFINE op == [key |-> k, value |-> x]
  <2>1. op \in Operation /\ op.key = k /\ op.value = x
    BY DEF Operation
  <2>2. set_hash_table(op.key, op.value)
    BY <2>1 DEF RememberOnly
  <2> QED
    BY <1>1, <2>1, <2>2, LoggedWritePreserves
<1>2. CASE caching_regime # "DEFFER_DUMP" /\ db' = d /\ UNCHANGED log
  <2>1. Logged(log) = {} /\ caching_regime = "ONLY_CACHE"
    BY <1>2, NothingLogged DEF WritesToCacheOnly
  <2>2. /\ cache' \in [ShortKeys -> SmallValues \cup {Absent, NotCached}]
        /\ \A j \in ShortKeys \ {k} : cache'[j] = cache[j]
    BY DEF RememberOnly, set_hash_table, IInv, TypeOK
  <2>3. Caching /\ k \in Keys
    BY <2>1 DEF Caching, Keys
  <2> QED
    BY <1>2, <2>1, <2>2, <2>3, DirectWritePreserves
<1> QED
  BY <1>1, <1>2 DEF RememberOnly

\* req_set: through to the database, with or without the cache, or remembered.
LEMMA SetPreserves ==
  ASSUME IInv, NEW k \in Keys, NEW v \in Values, req_set(k, v)
  PROVE  IInv'
<1>1. /\ worker = "up"
      /\ UNCHANGED <<worker, caching_regime>>
      /\ db \in [Keys -> Contents]
      /\ cache \in [ShortKeys -> SmallValues \cup {Absent, NotCached}]
      /\ v \in Contents
  BY DEF req_set, IInv, TypeOK, Contents
<1>2. reply' \in Replies
  BY DEF req_set, SetReply, Replies
<1>3. CASE /\ caching_regime = "NO_CACHE" \/ ~FitsInCache(k, v)
           /\ db' = set_value(k, v)
           /\ UNCHANGED <<cache, log>>
  <2>1. /\ db' \in [Keys -> Contents]
        /\ db'[k] = v
        /\ \A j \in Keys \ {k} : db'[j] = db[j]
    BY <1>1, <1>3 DEF set_value
  <2>2. k \in ShortKeys /\ cache[k] # NotCached => Caching /\ v \in LargeValues
    BY <1>3 DEF IInv, MemoryIsOfTheRegime, Caching, FitsInCache, Values
  <2> QED
    BY <1>1, <1>2, <1>3, <2>1, <2>2, DirectWritePreserves
<1>4. CASE /\ caching_regime = "GET_CACHE"
           /\ FitsInCache(k, v)
           /\ db' = set_value(k, v)
           /\ set_hash_table(k, v)
           /\ UNCHANGED log
  <2>1. /\ db' \in [Keys -> Contents]
        /\ db'[k] = v
        /\ \A j \in Keys \ {k} : db'[j] = db[j]
    BY <1>1, <1>4 DEF set_value
  <2>2. /\ cache' \in [ShortKeys -> SmallValues \cup {Absent, NotCached}]
        /\ cache'[k] = v
        /\ \A j \in ShortKeys \ {k} : cache'[j] = cache[j]
    BY <1>1, <1>4 DEF FitsInCache, set_hash_table
  <2>3. Logged(log) = {} /\ Caching
    BY <1>4, NothingLogged DEF Caching
  <2> QED
    BY <1>1, <1>2, <1>4, <2>1, <2>2, <2>3, DirectWritePreserves
<1>5. CASE WritesToCacheOnly /\ FitsInCache(k, v) /\ RememberOnly(k, v, db)
  BY <1>1, <1>2, <1>5, RememberPreserves DEF FitsInCache
<1> QED
  BY <1>3, <1>4, <1>5 DEF req_set

\* req_del: the same, with Absent for the value.
LEMMA DelPreserves ==
  ASSUME IInv, NEW k \in Keys, req_del(k)
  PROVE  IInv'
<1> DEFINE gone == del_value(k)
<1>1. /\ worker = "up"
      /\ UNCHANGED <<worker, caching_regime>>
      /\ db \in [Keys -> Contents]
      /\ cache \in [ShortKeys -> SmallValues \cup {Absent, NotCached}]
  BY DEF req_del, IInv, TypeOK
<1>2. reply' \in Replies
  <2>1. PICK existed \in BOOLEAN : reply' = DelReply(k, existed)
    BY Zenon DEF req_del
  <2> QED
    BY <2>1 DEF DelReply, Replies
<1>3. /\ gone \in [Keys -> Contents]
      /\ gone[k] = Absent
      /\ \A j \in Keys \ {k} : gone[j] = db[j]
  BY <1>1 DEF del_value, Contents
<1> HIDE DEF gone
<1>4. CASE /\ caching_regime = "NO_CACHE" \/ k \in LongKeys
           /\ db' = gone
           /\ UNCHANGED <<cache, log>>
  <2>1. k \in ShortKeys => cache[k] = NotCached
    BY <1>4, StoreAssumption DEF IInv, MemoryIsOfTheRegime, Caching
  <2> QED
    BY <1>1, <1>2, <1>3, <1>4, <2>1, DirectWritePreserves
<1>5. CASE /\ caching_regime = "GET_CACHE"
           /\ k \in ShortKeys
           /\ db' = gone
           /\ set_hash_table(k, Absent)
           /\ UNCHANGED log
  <2>1. /\ cache' \in [ShortKeys -> SmallValues \cup {Absent, NotCached}]
        /\ cache'[k] = Absent
        /\ \A j \in ShortKeys \ {k} : cache'[j] = cache[j]
    BY <1>1, <1>5 DEF set_hash_table
  <2>2. Logged(log) = {} /\ Caching
    BY <1>5, NothingLogged DEF Caching
  <2> QED
    BY <1>1, <1>2, <1>3, <1>5, <2>1, <2>2, DirectWritePreserves
<1>6. CASE WritesToCacheOnly /\ k \in ShortKeys /\ RememberOnly(k, Absent, db)
  BY <1>1, <1>2, <1>6, RememberPreserves
<1>7. CASE WritesToCacheOnly /\ k \in ShortKeys /\ RememberOnly(k, Absent, gone)
  BY <1>1, <1>2, <1>3, <1>7, RememberPreserves
<1> QED
  BY <1>4, <1>5, <1>6, <1>7 DEF req_del, gone

\* The timer.
LEMMA SyncPreserves ==
  ASSUME IInv, sync_with_db
  PROVE  IInv'
<1>1. /\ log \in Seq(Operation)
      /\ HasLast(log)
      /\ db \in [Keys -> Contents]
  BY DEF IInv, TypeOK
<1>2. do_transaction(log, db) \in [Keys -> Contents]
  BY <1>1, DumpType
<1>3. TypeOK'
  BY <1>2, StoreAssumption DEF IInv, TypeOK, sync_with_db
<1>4. MemoryIsOfTheRegime'
  BY DEF IInv, MemoryIsOfTheRegime, Caching, sync_with_db
<1> QED
  BY <1>1, <1>3, <1>4, DumpPreserves
     DEF IInv, sync_with_db, LatestPendingIsCached, CacheCoherence

\* The ends of the worker.
LEMMA FailurePreserves ==
  ASSUME IInv,
         \/ \E k \in Keys, x \in Contents : UpdateFails(k, x)
         \/ DumpFails
         \/ Terminate
  PROVE  IInv'
<1>1. /\ log \in Seq(Operation)
      /\ HasLast(log)
      /\ db \in [Keys -> Contents]
  BY DEF IInv, TypeOK
<1>2. ASSUME NEW k \in Keys, NEW x \in Contents, UpdateFails(k, x)
      PROVE  IInv'
  <2>1. PICK d \in {db, [db EXCEPT ![k] = x]} : Exit(d)
    BY <1>2 DEF UpdateFails
  <2>2. d \in [Keys -> Contents]
    BY <1>1
  <2> QED
    BY <2>1, <2>2, ExitPreserves
<1>3. CASE DumpFails
  <2>1. CASE Exit(do_transaction(log, db))
    BY <1>1, <2>1, DumpType, ExitPreserves
  <2>2. ASSUME NEW op \in Operation, Exit(do_transaction(Append(log, op), db))
        PROVE  IInv'
    <3>1. Append(log, op) \in Seq(Operation) /\ HasLast(Append(log, op))
      BY <1>1, AppendedIsLast
    <3> QED
      BY <1>1, <2>2, <3>1, DumpType, ExitPreserves
  <2> QED
    BY <1>3, <2>1, <2>2 DEF DumpFails
<1>4. CASE Terminate
  BY <1>1, <1>4, ExitPreserves DEF Terminate
<1> QED
  BY <1>2, <1>3, <1>4

\* The restart, possibly in another regime, finds nothing in memory.
LEMMA StartPreserves ==
  ASSUME IInv, proxy_start_work
  PROVE  IInv'
<1>1. /\ log = <<>> /\ log' = <<>>
      /\ \A k \in ShortKeys : cache'[k] = NotCached
  BY DEF IInv, MemoryIsOfTheRegime, proxy_start_work
<1>2. TypeOK'
  BY <1>1 DEF IInv, TypeOK, proxy_start_work
<1>3. Logged(log') = {}
  BY <1>1 DEF Logged
<1>4. MemoryIsOfTheRegime' /\ CacheCoherence'
  BY <1>1 DEF MemoryIsOfTheRegime, CacheCoherence
<1>5. HasLast(log)' /\ LatestPendingIsCached'
  BY <1>3 DEF HasLast, LatestPendingIsCached
<1> QED
  BY <1>2, <1>4, <1>5 DEF IInv

LEMMA NextPreserves ==
  IInv /\ [Next]_vars => IInv'
<1> SUFFICES ASSUME IInv, [Next]_vars PROVE IInv'
  OBVIOUS
<1>1. ASSUME NEW k \in Keys, req_get(k) PROVE IInv'
  BY <1>1, GetPreserves
<1>2. ASSUME NEW k \in Keys, req_del(k) PROVE IInv'
  BY <1>2, DelPreserves
<1>3. ASSUME NEW k \in Keys, NEW v \in Values, req_set(k, v) PROVE IInv'
  BY <1>3, SetPreserves
<1>4. CASE sync_with_db
  BY <1>4, SyncPreserves
<1>5. CASE (\E k \in Keys, x \in Contents : UpdateFails(k, x)) \/ DumpFails \/ Terminate
  BY <1>5, FailurePreserves
<1>6. CASE proxy_start_work
  BY <1>6, StartPreserves
<1>7. CASE UNCHANGED vars
  <2> USE <1>7 DEF vars, IInv
  <2>1. TypeOK'
    BY DEF TypeOK
  <2>2. MemoryIsOfTheRegime' /\ CacheCoherence'
    BY DEF MemoryIsOfTheRegime, CacheCoherence, Caching, Logged
  <2>3. HasLast(log)' /\ LatestPendingIsCached'
    BY DEF HasLast, LatestPendingIsCached, Logged, LastFor, IsLastFor
  <2> QED
    BY <2>1, <2>2, <2>3
<1> QED
  BY <1>1, <1>2, <1>3, <1>4, <1>5, <1>6, <1>7 DEF Next

-----------------------------------------------------------------------------

\* Cache, log, database and replies hold what their types say; in particular a
\* log never reaches MAX_COUNT_OPERATION entries, because add_log dumps it.
THEOREM TypeCorrect == Spec => []TypeOK
<1>1. Spec => []IInv
  BY InitInvariant, NextPreserves, PTL DEF Spec
<1>2. IInv => TypeOK
  BY DEF IInv
<1> QED
  BY <1>1, <1>2, PTL

\* DEFFER_DUMP: as long as an operation waits for the dump, the cache answers
\* for its key, with the value that the dump will write (req_get, add_log).
THEOREM PendingWritesAreVisible == Spec => []LatestPendingIsCached
<1>1. Spec => []IInv
  BY InitInvariant, NextPreserves, PTL DEF Spec
<1>2. IInv => LatestPendingIsCached
  BY DEF IInv
<1> QED
  BY <1>1, <1>2, PTL

\* A cache entry with nothing pending agrees with its row, unless the row holds
\* a value that is too large for the cache (req_get, req_set, req_del, dumps).
THEOREM CacheIsCoherent == Spec => []CacheCoherence
<1>1. Spec => []IInv
  BY InitInvariant, NextPreserves, PTL DEF Spec
<1>2. IInv => CacheCoherence
  BY DEF IInv
<1> QED
  BY <1>1, <1>2, PTL

\* Only DEFFER_DUMP keeps a log, and no memory outlives the worker (Exit).
THEOREM NoMemoryOutlivesTheWorker == Spec => []MemoryIsOfTheRegime
<1>1. Spec => []IInv
  BY InitInvariant, NextPreserves, PTL DEF Spec
<1>2. IInv => MemoryIsOfTheRegime
  BY DEF IInv
<1> QED
  BY <1>1, <1>2, PTL

-----------------------------------------------------------------------------
(***************************************************************************)
(* A dump writes what clients were reading.                                *)
(***************************************************************************)

\* What clients read with the entries c over the rows d.
Over(c, d) == [k \in Keys |-> IF k \in ShortKeys /\ c[k] # NotCached THEN c[k] ELSE d[k]]

LEMMA ViewIsOver == Caching => View = Over(cache, db)
BY DEF View, Over, check_hash_table

\* The operations that a dump carries out are those the cache knows of; every
\* other entry agrees with its row.
LEMMA DumpWritesOver ==
  ASSUME NEW ops \in Seq(Operation), HasLast(ops), NEW c, NEW d,
         \A k \in Logged(ops) : c[k] = ops[LastFor(ops, k)].value,
         \A k \in ShortKeys \ Logged(ops) : c[k] # NotCached => c[k] = d[k]
  PROVE  do_transaction(ops, d) = Over(c, d)
<1>1. ASSUME NEW i \in DOMAIN ops
      PROVE  ops[i].key \in ShortKeys /\ ops[i].value \in SmallValues \cup {Absent}
  <2>1. ops[i] \in Operation
    OBVIOUS
  <2> QED
    BY <2>1 DEF Operation
<1>2. ASSUME NEW k \in Logged(ops)
      PROVE  k \in ShortKeys /\ c[k] # NotCached
  <2>1. k \in ShortKeys
    BY <1>1 DEF Logged
  <2>2. LastFor(ops, k) \in DOMAIN ops
    BY LastForIsLast DEF IsLastFor
  <2>3. c[k] \in SmallValues \cup {Absent}
    BY <1>1, <2>2
  <2> QED
    BY <2>1, <2>3, StoreAssumption DEF Contents, Values
<1>3. ASSUME NEW k \in Keys
      PROVE  do_transaction(ops, d)[k] = Over(c, d)[k]
  BY <1>2 DEF do_transaction, Over
<1> QED
  BY <1>3 DEF do_transaction, Over

\* CacheCoherence without its exception.
LEMMA EntriesAgree ==
  ASSUME IInv, LargeValues = {}, caching_regime = "DEFFER_DUMP"
  PROVE  \A k \in ShortKeys \ Logged(log) : cache[k] # NotCached => cache[k] = db[k]
BY DEF IInv, CacheCoherence

LEMMA DumpWritesView ==
  ASSUME IInv, LargeValues = {}, caching_regime = "DEFFER_DUMP"
  PROVE  do_transaction(log, db) = View
<1>1. do_transaction(log, db) = Over(cache, db)
  BY EntriesAgree, DumpWritesOver DEF IInv, TypeOK, LatestPendingIsCached
<1> QED
  BY <1>1, ViewIsOver DEF Caching

\* The same with one operation more, whose row may have been changed before.
LEMMA LongerDumpWritesView ==
  ASSUME IInv, LargeValues = {}, caching_regime = "DEFFER_DUMP",
         NEW op \in Operation, NEW d \in [Keys -> Contents],
         \A j \in Keys \ {op.key} : d[j] = db[j]
  PROVE  do_transaction(Append(log, op), d) = [View EXCEPT ![op.key] = op.value]
<1> DEFINE ops == Append(log, op)
           c == [cache EXCEPT ![op.key] = op.value]
<1> HIDE DEF ops, c
<1>1. /\ log \in Seq(Operation) /\ HasLast(log)
      /\ op.key \in ShortKeys /\ op.key \in Keys
      /\ op.value \in SmallValues \cup {Absent}
      /\ cache \in [ShortKeys -> SmallValues \cup {Absent, NotCached}]
  BY DEF IInv, TypeOK, Operation, Keys
<1>2. /\ ops \in Seq(Operation)
      /\ HasLast(ops)
      /\ Logged(ops) = Logged(log) \cup {op.key}
      /\ ops[LastFor(ops, op.key)].value = op.value
      /\ \A k \in Logged(log) \ {op.key} :
           ops[LastFor(ops, k)].value = log[LastFor(log, k)].value
  <2>1. ops \in Seq(Operation)
    BY <1>1 DEF ops
  <2> QED
    BY <1>1, <2>1, AppendedIsLast DEF ops
<1>3. Logged(log) \subseteq ShortKeys
  BY <1>1, DumpType DEF IInv, TypeOK
<1>4. c[op.key] = op.value /\ \A k \in ShortKeys \ {op.key} : c[k] = cache[k]
  BY <1>1 DEF c
<1>5. \A k \in Logged(ops) : c[k] = ops[LastFor(ops, k)].value
  BY <1>2, <1>3, <1>4 DEF IInv, LatestPendingIsCached
<1>6. \A k \in ShortKeys \ Logged(ops) : c[k] # NotCached => c[k] = d[k]
  BY <1>2, <1>4, EntriesAgree DEF Keys
<1>7. do_transaction(ops, d) = Over(c, d)
  BY <1>2, <1>5, <1>6, DumpWritesOver
<1>8. op.value # NotCached
  BY <1>1, StoreAssumption DEF Contents, Values
<1>9. Over(c, d) = [Over(cache, db) EXCEPT ![op.key] = op.value]
  <2>1. ASSUME NEW k \in Keys
        PROVE  Over(c, d)[k] = [Over(cache, db) EXCEPT ![op.key] = op.value][k]
    BY <1>1, <1>4, <1>8 DEF Over
  <2> QED
    BY <2>1 DEF Over
<1> QED
  BY <1>7, <1>9, ViewIsOver DEF ops, Caching

-----------------------------------------------------------------------------
(***************************************************************************)
(* The steps: each is one of KeyValueStore, or changes nothing of it.      *)
(***************************************************************************)

\* What every step of a request leaves of the view: the key's entry and row.
LEMMA ViewOfOthers ==
  ASSUME IInv, NEW k \in Keys, NEW x \in SmallValues \cup {Absent},
         UNCHANGED caching_regime,
         db' \in [Keys -> Contents],
         \A j \in Keys \ {k} : db'[j] = db[j],
         \A j \in ShortKeys \ {k} : cache'[j] = cache[j],
         \/ Caching /\ k \in ShortKeys /\ cache'[k] = x
         \/ (Caching /\ k \in ShortKeys => cache'[k] = NotCached) /\ db'[k] = x
  PROVE  View' = [View EXCEPT ![k] = x]
<1>1. x # NotCached
  BY StoreAssumption DEF Contents, Values
<1>2. ASSUME NEW j \in Keys
      PROVE  View'[j] = [View EXCEPT ![k] = x][j]
  <2>1. CASE j = k
    BY <1>1, <2>1 DEF View, check_hash_table, Caching
  <2>2. CASE j # k
    BY <2>2 DEF View, check_hash_table, Caching
  <2> QED
    BY <2>1, <2>2
<1> QED
  BY <1>2 DEF View

LEMMA GetImplements ==
  ASSUME IInv, LargeValues = {}, NEW k \in Keys, req_get(k)
  PROVE  KV!Get(k)
<1>1. reply' = GetReply(k, View[k])
  BY DEF req_get, View, get_value
<1>2. View' = View
  <2>1. ASSUME NEW j \in Keys PROVE View'[j] = View[j]
    BY DEF req_get, get_value, set_hash_table, View, check_hash_table, Caching, IInv, TypeOK
  <2> QED
    BY <2>1 DEF View
<1> QED
  BY <1>1, <1>2 DEF KV!Get, KV!GetReply, GetReply, req_get

\* A write of ONLY_CACHE and DEFFER_DUMP.
LEMMA RememberImplements ==
  ASSUME IInv, LargeValues = {}, WritesToCacheOnly, UNCHANGED <<worker, caching_regime>>,
         NEW k \in ShortKeys, NEW x \in SmallValues \cup {Absent},
         NEW d \in {db, [db EXCEPT ![k] = x]},
         RememberOnly(k, x, d)
  PROVE  KV!Write(k, x)
<1>1. k \in Keys /\ Caching
  BY DEF Keys, WritesToCacheOnly, Caching
<1>2. /\ db \in [Keys -> Contents]
      /\ cache \in [ShortKeys -> SmallValues \cup {Absent, NotCached}]
      /\ log \in Seq(Operation)
      /\ HasLast(log)
      /\ x \in Contents
  BY DEF IInv, TypeOK, Contents, Values
<1>3. d \in [Keys -> Contents] /\ \A j \in Keys \ {k} : d[j] = db[j]
  BY <1>1, <1>2
<1>4. cache'[k] = x /\ \A j \in ShortKeys \ {k} : cache'[j] = cache[j]
  BY <1>2 DEF RememberOnly, set_hash_table
<1> DEFINE op == [key |-> k, value |-> x]
<1>5. op \in Operation /\ op.key = k /\ op.value = x
  BY DEF Operation
<1>6. CASE db' = d
  <2>1. View' = [View EXCEPT ![k] = x]
    BY <1>1, <1>3, <1>4, <1>6, ViewOfOthers
  <2> QED
    BY <1>6, <2>1 DEF KV!Write
<1>7. CASE caching_regime = "DEFFER_DUMP" /\ db' = do_transaction(Append(log, op), d)
  <2> HIDE DEF op
  <2>1. db' = [View EXCEPT ![k] = x]
    BY <1>3, <1>5, <1>7, LongerDumpWritesView
  <2>2. View' = [View EXCEPT ![k] = x]
    <3>1. ASSUME NEW j \in Keys PROVE View'[j] = [View EXCEPT ![k] = x][j]
      BY <1>1, <1>4, <2>1, StoreAssumption DEF View, check_hash_table, Caching, Contents, Values
    <3> QED
      BY <3>1 DEF View
  <2> QED
    BY <2>1, <2>2 DEF KV!Write
<1> QED
  BY <1>6, <1>7 DEF RememberOnly, add_log

LEMMA SetImplements ==
  ASSUME IInv, LargeValues = {}, NEW k \in Keys, NEW v \in Values, req_set(k, v)
  PROVE  KV!Set(k, v)
<1> SUFFICES KV!Write(k, v)
  BY DEF KV!Set, KV!SetReply, SetReply, req_set
<1>1. /\ v \in SmallValues /\ v \in Contents
      /\ reply' = SetReply(k, v)
      /\ UNCHANGED <<worker, caching_regime>>
      /\ db \in [Keys -> Contents]
      /\ cache \in [ShortKeys -> SmallValues \cup {Absent, NotCached}]
  BY DEF req_set, IInv, TypeOK, Values, Contents
<1>2. CASE /\ caching_regime = "NO_CACHE" \/ ~FitsInCache(k, v)
           /\ db' = set_value(k, v)
           /\ UNCHANGED <<cache, log>>
  <2>1. db' = [db EXCEPT ![k] = v] /\ db' \in [Keys -> Contents]
    BY <1>1, <1>2 DEF set_value
  <2>2. ~(Caching /\ k \in ShortKeys)
    BY <1>1, <1>2 DEF Caching, FitsInCache
  <2>3. View' = [View EXCEPT ![k] = v]
    BY <1>1, <1>2, <2>1, <2>2, ViewOfOthers
  <2> QED
    BY <2>1, <2>3 DEF KV!Write
<1>3. CASE /\ caching_regime = "GET_CACHE"
           /\ FitsInCache(k, v)
           /\ db' = set_value(k, v)
           /\ set_hash_table(k, v)
  <2>1. db' = [db EXCEPT ![k] = v] /\ db' \in [Keys -> Contents]
    BY <1>1, <1>3 DEF set_value
  <2>2. Caching /\ k \in ShortKeys /\ cache'[k] = v /\ \A j \in ShortKeys \ {k} : cache'[j] = cache[j]
    BY <1>1, <1>3 DEF Caching, FitsInCache, set_hash_table
  <2>3. View' = [View EXCEPT ![k] = v]
    BY <1>1, <2>1, <2>2, ViewOfOthers
  <2> QED
    BY <2>1, <2>3 DEF KV!Write
<1>4. CASE WritesToCacheOnly /\ FitsInCache(k, v) /\ RememberOnly(k, v, db)
  BY <1>1, <1>4, RememberImplements DEF FitsInCache
<1> QED
  BY <1>2, <1>3, <1>4 DEF req_set

LEMMA DelImplements ==
  ASSUME IInv, LargeValues = {}, NEW k \in Keys, req_del(k)
  PROVE  KV!Del(k)
<1>1. /\ UNCHANGED <<worker, caching_regime>>
      /\ db \in [Keys -> Contents]
      /\ cache \in [ShortKeys -> SmallValues \cup {Absent, NotCached}]
      /\ Absent \in Contents
  BY DEF req_del, IInv, TypeOK, Contents
<1>2. reply' = DelReply(k, View[k] # Absent)
  <2>1. CASE caching_regime = "NO_CACHE" \/ k \in LongKeys
    <3>1. ~check_hash_table(k)
      BY <2>1, StoreAssumption DEF check_hash_table, Caching
    <3>2. reply' = DelReply(k, db[k] # Absent)
      BY <2>1, StoreAssumption DEF req_del, WritesToCacheOnly
    <3> QED
      BY <3>1, <3>2 DEF View
  <2>2. CASE caching_regime = "GET_CACHE" /\ k \in ShortKeys
    <3>1. reply' = DelReply(k, db[k] # Absent)
      BY <2>2, StoreAssumption DEF req_del, WritesToCacheOnly
    <3>2. View[k] = db[k]
      <4>1. Logged(log) = {}
        BY <2>2, NothingLogged
      <4> QED
        BY <2>2, <4>1 DEF View, check_hash_table, IInv, CacheCoherence
    <3> QED
      BY <3>1, <3>2
  <2>3. CASE WritesToCacheOnly /\ k \in ShortKeys
    BY <2>3, StoreAssumption DEF req_del, WritesToCacheOnly, View
  <2> QED
    BY <2>1, <2>2, <2>3 DEF req_del
<1> SUFFICES KV!Write(k, Absent)
  BY <1>2 DEF KV!Del, KV!DelReply, DelReply
<1>3. CASE /\ caching_regime = "NO_CACHE" \/ k \in LongKeys
           /\ db' = del_value(k)
           /\ UNCHANGED <<cache, log>>
  <2>1. db' = [db EXCEPT ![k] = Absent] /\ db' \in [Keys -> Contents]
    BY <1>1, <1>3 DEF del_value
  <2>2. ~(Caching /\ k \in ShortKeys)
    BY <1>3, StoreAssumption DEF Caching
  <2>3. View' = [View EXCEPT ![k] = Absent]
    BY <1>1, <1>3, <2>1, <2>2, ViewOfOthers
  <2> QED
    BY <2>1, <2>3 DEF KV!Write
<1>4. CASE /\ caching_regime = "GET_CACHE"
           /\ k \in ShortKeys
           /\ db' = del_value(k)
           /\ set_hash_table(k, Absent)
  <2>1. db' = [db EXCEPT ![k] = Absent] /\ db' \in [Keys -> Contents]
    BY <1>1, <1>4 DEF del_value
  <2>2. Caching /\ cache'[k] = Absent /\ \A j \in ShortKeys \ {k} : cache'[j] = cache[j]
    BY <1>1, <1>4 DEF Caching, set_hash_table
  <2>3. View' = [View EXCEPT ![k] = Absent]
    BY <1>1, <1>4, <2>1, <2>2, ViewOfOthers
  <2> QED
    BY <2>1, <2>3 DEF KV!Write
<1>5. CASE WritesToCacheOnly /\ k \in ShortKeys /\ RememberOnly(k, Absent, db)
  BY <1>1, <1>5, RememberImplements
<1>6. CASE WritesToCacheOnly /\ k \in ShortKeys /\ RememberOnly(k, Absent, del_value(k))
  BY <1>1, <1>6, RememberImplements DEF del_value
<1> QED
  BY <1>3, <1>4, <1>5, <1>6 DEF req_del

\* The timer makes the durable copy catch up.
LEMMA SyncImplements ==
  ASSUME IInv, LargeValues = {}, sync_with_db
  PROVE  KV!Save
<1>1. db' = View
  BY DumpWritesView DEF sync_with_db
<1>2. View' = View
  <2>1. ASSUME NEW k \in Keys PROVE View'[k] = View[k]
    BY <1>1 DEF View, check_hash_table, Caching, sync_with_db
  <2> QED
    BY <2>1 DEF View
<1> QED
  BY <1>1, <1>2 DEF KV!Save, sync_with_db

\* The end of the worker leaves what PostgreSQL has: the rows as they were, with
\* or without one statement, or those of a dump. Where there are no keys there
\* is nothing to lose.
LEMMA ExitImplements ==
  ASSUME IInv, NEW d \in [Keys -> Contents], Exit(d),
         \/ d = db
         \/ \E k \in Keys, x \in Contents : d \in {[db EXCEPT ![k] = x], [View EXCEPT ![k] = x]}
  PROVE  KV!Lose \/ KV!Other
<1>1. db' = d /\ reply' = NoReply /\ db \in [Keys -> Contents]
  BY DEF Exit, IInv, TypeOK
<1>2. View' = d
  <2>1. ASSUME NEW k \in Keys PROVE View'[k] = d[k]
    BY <1>1 DEF Exit, View, check_hash_table, EmptyCache
  <2> QED
    BY <1>1, <2>1 DEF View
<1>3. CASE \E k \in Keys : TRUE
  <2>1. \E k \in Keys, x \in Contents : d \in {db, [db EXCEPT ![k] = x], [View EXCEPT ![k] = x]}
    BY <1>3 DEF Contents
  <2> QED
    BY <1>1, <1>2, <2>1 DEF KV!Lose, KV!NoReply, NoReply, KV!Contents, Contents
<1>4. CASE Keys = {}
  <2>1. d = db /\ View = db
    BY <1>1, <1>4 DEF View
  <2> QED
    BY <1>1, <1>2, <2>1 DEF KV!Other, KV!NoReply, NoReply
<1> QED
  BY <1>3, <1>4

LEMMA FailureImplements ==
  ASSUME IInv, LargeValues = {},
         \/ \E k \in Keys, x \in Contents : UpdateFails(k, x)
         \/ DumpFails
         \/ Terminate
  PROVE  KV!Lose \/ KV!Other
<1>1. /\ log \in Seq(Operation) /\ HasLast(log)
      /\ db \in [Keys -> Contents]
  BY DEF IInv, TypeOK
<1>2. ASSUME NEW k \in Keys, NEW x \in Contents, UpdateFails(k, x)
      PROVE  KV!Lose \/ KV!Other
  <2>1. PICK d \in {db, [db EXCEPT ![k] = x]} : Exit(d)
    BY <1>2 DEF UpdateFails
  <2>2. d \in [Keys -> Contents]
    BY <1>1
  <2> QED
    BY <2>1, <2>2, ExitImplements
<1>3. CASE DumpFails
  <2>1. CASE log # <<>> /\ caching_regime = "DEFFER_DUMP" /\ Exit(do_transaction(log, db))
    <3>1. do_transaction(log, db) \in [Keys -> Contents] /\ Logged(log) \subseteq Keys
      BY <1>1, DumpType DEF Keys
    <3>2. PICK k \in Keys : k \in Logged(log)
      <4>1. 1 \in DOMAIN log
        BY <1>1, <2>1
      <4>2. log[1].key \in Logged(log)
        BY <4>1 DEF Logged
      <4> QED
        BY <3>1, <4>2
    <3>3. do_transaction(log, db) = View
      BY <2>1, DumpWritesView
    <3>4. View[k] \in Contents /\ View = [View EXCEPT ![k] = View[k]]
      BY <3>1, <3>3
    <3> QED
      BY <2>1, <3>1, <3>3, <3>4, ExitImplements
  <2>2. ASSUME caching_regime = "DEFFER_DUMP",
               NEW op \in Operation, Exit(do_transaction(Append(log, op), db))
        PROVE  KV!Lose \/ KV!Other
    <3>1. Append(log, op) \in Seq(Operation) /\ HasLast(Append(log, op))
      BY <1>1, AppendedIsLast
    <3>2. do_transaction(Append(log, op), db) \in [Keys -> Contents]
      BY <1>1, <3>1, DumpType
    <3>3. do_transaction(Append(log, op), db) = [View EXCEPT ![op.key] = op.value]
      BY <1>1, <2>2, LongerDumpWritesView
    <3>4. op.key \in Keys /\ op.value \in Contents
      BY DEF Operation, Keys, Contents, Values
    <3> QED
      BY <2>2, <3>2, <3>3, <3>4, ExitImplements
  <2> QED
    BY <1>3, <2>1, <2>2 DEF DumpFails
<1>4. CASE Terminate
  BY <1>1, <1>4, ExitImplements DEF Terminate
<1> QED
  BY <1>2, <1>3, <1>4

\* The restart, in whatever regime, shows clients the rows.
LEMMA StartImplements ==
  ASSUME IInv, proxy_start_work
  PROVE  UNCHANGED KV!vars
<1>1. \A k \in ShortKeys : cache[k] = NotCached /\ cache'[k] = NotCached
  BY DEF IInv, MemoryIsOfTheRegime, proxy_start_work
<1>2. View' = View
  BY <1>1 DEF View, check_hash_table, proxy_start_work
<1> QED
  BY <1>2 DEF KV!vars, proxy_start_work

LEMMA StepImplements ==
  ASSUME IInv, LargeValues = {}, [Next]_vars
  PROVE  [KV!Next]_(KV!vars)
<1>1. ASSUME NEW k \in Keys, req_get(k) PROVE KV!Next
  BY <1>1, GetImplements DEF KV!Next
<1>2. ASSUME NEW k \in Keys, req_del(k) PROVE KV!Next
  BY <1>2, DelImplements DEF KV!Next
<1>3. ASSUME NEW k \in Keys, NEW v \in Values, req_set(k, v) PROVE KV!Next
  BY <1>3, SetImplements DEF KV!Next
<1>4. CASE sync_with_db
  BY <1>4, SyncImplements DEF KV!Next
<1>5. CASE (\E k \in Keys, x \in Contents : UpdateFails(k, x)) \/ DumpFails \/ Terminate
  BY <1>5, FailureImplements DEF KV!Next
<1>6. CASE proxy_start_work
  BY <1>6, StartImplements
<1>7. CASE UNCHANGED vars
  BY <1>7 DEF vars, KV!vars, View, check_hash_table, Caching
<1> QED
  BY <1>1, <1>2, <1>3, <1>4, <1>5, <1>6, <1>7 DEF Next

LEMMA InitImplements == Init => KV!Init
<1> SUFFICES ASSUME Init PROVE KV!Init
  OBVIOUS
<1>1. View = db
  BY DEF Init, View, check_hash_table, EmptyCache
<1> QED
  BY <1>1 DEF Init, KV!Init, KV!NoReply, NoReply, KV!Contents, Contents

\* Whatever the regime, and however often the worker ends and comes back in
\* another one, clients see one map with a durable copy behind it, as long as no
\* value is too large for the cache (send_req_postgres.c, all of it).
THEOREM StoreIsAMap ==
  ASSUME LargeValues = {}
  PROVE  Spec => ImplementsKeyValueStore
<1>1. Spec => []IInv
  BY InitInvariant, NextPreserves, PTL DEF Spec
<1>2. Init => KV!Init
  BY InitImplements
<1>3. IInv /\ [Next]_vars => [KV!Next]_(KV!vars)
  BY StepImplements
<1> QED
  BY <1>1, <1>2, <1>3, PTL DEF Spec, ImplementsKeyValueStore, KV!Spec

-----------------------------------------------------------------------------
(***************************************************************************)
(* What clients were told, and what cache, log and database make of it.    *)
(***************************************************************************)

\* A reply that stays while the timer or the restart acts tells nothing new.
ReplyIsAcked ==
  /\ reply.op = "SET" => acked[reply.key] = reply.value
  /\ reply.op = "DEL" => acked[reply.key] = Absent

\* The history is what clients read. That this is inductive rests on the
\* invariant of the storage path: a dump would else change what they read.
HInv ==
  /\ IInv
  /\ acked = View
  /\ ReplyIsAcked

LEMMA HInitInvariant == HInit => HInv
<1> SUFFICES ASSUME HInit PROVE HInv
  OBVIOUS
<1>1. IInv
  BY InitInvariant DEF HInit
<1>2. View = db
  BY DEF HInit, Init, View, check_hash_table, EmptyCache
<1>3. ReplyIsAcked
  BY DEF HInit, Init, ReplyIsAcked, NoReply
<1> QED
  BY <1>1, <1>2, <1>3 DEF HInv, HInit

LEMMA RepliesOfKeys ==
  ASSUME reply \in Replies
  PROVE  reply.op \in {"SET", "DEL"} => reply.key \in Keys
BY DEF Replies, NoReply

\* A request that is answered; w is what it leaves in its key.
LEMMA WriteRecorded ==
  ASSUME HInv, worker' = "up", Recorded, NEW k \in Keys, NEW x \in Contents,
         View' = [View EXCEPT ![k] = x],
         reply' = SetReply(k, x) \/ (x = Absent /\ \E b \in BOOLEAN : reply' = DelReply(k, b))
  PROVE  acked' = View' /\ ReplyIsAcked'
<1>1. acked' = [acked EXCEPT ![k] = x]
  <2>1. CASE reply' = SetReply(k, x)
    <3>1. reply'.op = "SET" /\ reply'.key = k /\ reply'.value = x
      BY <2>1 DEF SetReply
    <3> QED
      BY <3>1 DEF Recorded, Acknowledge
  <2>2. ASSUME x = Absent, NEW b \in BOOLEAN, reply' = DelReply(k, b)
        PROVE  acked' = [acked EXCEPT ![k] = x]
    <3>1. reply'.op = "DEL" /\ reply'.key = k
      BY <2>2 DEF DelReply
    <3> QED
      BY <2>2, <3>1 DEF Recorded, Acknowledge
  <2> QED
    BY <2>1, <2>2
<1>2. acked' = View'
  BY <1>1 DEF HInv
<1>3. acked'[k] = x
  BY <1>1 DEF HInv, View
<1> QED
  BY <1>2, <1>3 DEF ReplyIsAcked, SetReply, DelReply

LEMMA HPreserved ==
  ASSUME HInv, LargeValues = {}, Next, Recorded
  PROVE  HInv'
<1> SUFFICES acked' = View' /\ ReplyIsAcked'
  BY NextPreserves DEF HInv
<1>1. ASSUME NEW k \in Keys, req_get(k)
      PROVE  acked' = View' /\ ReplyIsAcked'
  <2>1. KV!Get(k) /\ worker' = "up"
    BY <1>1, GetImplements DEF HInv, req_get
  <2>2. View' = View /\ reply'.op = "GET"
    BY <2>1 DEF KV!Get, KV!GetReply
  <2>3. acked' = acked
    BY <2>1, <2>2 DEF Recorded, Acknowledge
  <2> QED
    BY <2>2, <2>3 DEF HInv, ReplyIsAcked
<1>2. ASSUME NEW k \in Keys, NEW v \in Values, req_set(k, v)
      PROVE  acked' = View' /\ ReplyIsAcked'
  <2>1. KV!Set(k, v) /\ worker' = "up"
    BY <1>2, SetImplements DEF HInv, req_set
  <2>2. View' = [View EXCEPT ![k] = v] /\ reply' = SetReply(k, v) /\ v \in Contents
    BY <2>1 DEF KV!Set, KV!Write, KV!SetReply, SetReply, Contents
  <2> QED
    BY <2>1, <2>2, WriteRecorded
<1>3. ASSUME NEW k \in Keys, req_del(k)
      PROVE  acked' = View' /\ ReplyIsAcked'
  <2>1. KV!Del(k) /\ worker' = "up"
    BY <1>3, DelImplements DEF HInv, req_del
  <2>2. /\ View' = [View EXCEPT ![k] = Absent]
        /\ \E b \in BOOLEAN : reply' = DelReply(k, b)
        /\ Absent \in Contents
    BY <2>1 DEF KV!Del, KV!Write, KV!DelReply, DelReply, Contents
  <2> QED
    BY <2>1, <2>2, WriteRecorded
<1>4. CASE sync_with_db \/ proxy_start_work
  <2>1. View' = View
    BY <1>4, SyncImplements, StartImplements DEF HInv, KV!Save, KV!vars
  <2>2. worker' = "up" /\ reply' = reply
    BY <1>4 DEF sync_with_db, proxy_start_work
  <2>3. Acknowledge(acked, reply) = acked
    <3>1. reply \in Replies /\ acked = View
      BY DEF HInv, IInv, TypeOK
    <3>2. reply.op \in {"SET", "DEL"} => reply.key \in Keys
      BY <3>1, RepliesOfKeys
    <3>3. ASSUME NEW k \in Keys PROVE [View EXCEPT ![k] = View[k]] = View
      BY DEF View
    <3> QED
      BY <3>1, <3>2, <3>3 DEF HInv, ReplyIsAcked, Acknowledge
  <2> QED
    BY <2>1, <2>2, <2>3 DEF HInv, Recorded, ReplyIsAcked
<1>5. CASE (\E k \in Keys, x \in Contents : UpdateFails(k, x)) \/ DumpFails \/ Terminate
  <2>1. PICK d : Exit(d)
    BY <1>5 DEF UpdateFails, DumpFails, Terminate
  <2>2. HInv /\ IInv'
    BY NextPreserves DEF HInv
  <2>3. View' = db'
    <3>1. db' \in [Keys -> Contents]
      BY <2>2 DEF IInv, TypeOK
    <3>2. ASSUME NEW k \in Keys PROVE View'[k] = db'[k]
      BY <2>1 DEF Exit, View, check_hash_table, EmptyCache
    <3> QED
      BY <3>1, <3>2 DEF View
  <2> QED
    BY <2>1, <2>3 DEF Exit, Recorded, ReplyIsAcked, NoReply
<1> QED
  BY <1>1, <1>2, <1>3, <1>4, <1>5 DEF Next

LEMMA HNextPreserves ==
  ASSUME LargeValues = {}
  PROVE  HInv /\ [HNext]_hvars => HInv'
<1>1. CASE HNext
  BY <1>1, HPreserved DEF HNext
<1>2. ASSUME HInv, UNCHANGED hvars PROVE HInv'
  <2>1. IInv'
    BY <1>2, NextPreserves DEF HInv, hvars
  <2>2. View' = View
    BY <1>2 DEF hvars, vars, View, check_hash_table, Caching
  <2> QED
    BY <1>2, <2>1, <2>2 DEF HInv, hvars, vars, ReplyIsAcked
<1> QED
  BY <1>1, <1>2

-----------------------------------------------------------------------------

\* The rows are behind what clients were told for logged keys only.
LEMMA PendingIsLogged ==
  ASSUME HInv, LargeValues = {}
  PROVE  CrashLosesOnlyPending
<1> SUFFICES ASSUME caching_regime # "ONLY_CACHE",
                    NEW k \in Keys, db[k] # acked[k]
             PROVE  k \in Logged(log)
  BY DEF CrashLosesOnlyPending
<1>1. View[k] # db[k]
  BY DEF HInv
<1> QED
  BY <1>1 DEF View, check_hash_table, HInv, IInv, CacheCoherence

\* req_get answers what clients read.
LEMMA GetIsLatest ==
  ASSUME HInv, LargeValues = {}, HNext, reply' # reply, reply'.op = "GET"
  PROVE  reply'.value = acked[reply'.key]
<1>1. ASSUME NEW k \in Keys, req_get(k) PROVE reply'.value = acked[reply'.key]
  BY <1>1, GetImplements DEF HInv, KV!Get, KV!GetReply
<1>2. ASSUME NEW k \in Keys, req_del(k) PROVE FALSE
  BY <1>2, DelImplements DEF HInv, KV!Del, KV!DelReply
<1>3. ASSUME NEW k \in Keys, NEW v \in Values, req_set(k, v) PROVE FALSE
  BY <1>3 DEF req_set, SetReply
<1>4. CASE sync_with_db \/ proxy_start_work
  BY <1>4 DEF sync_with_db, proxy_start_work
<1>5. CASE (\E k \in Keys, x \in Contents : UpdateFails(k, x)) \/ DumpFails \/ Terminate
  BY <1>5 DEF UpdateFails, DumpFails, Terminate, Exit, NoReply
<1> QED
  BY <1>1, <1>2, <1>3, <1>4, <1>5 DEF HNext, Next

-----------------------------------------------------------------------------

\* Outside ONLY_CACHE a row that differs from what clients were told has an
\* operation in the log: the end of the worker can set back no other key
\* (req_set, req_del, add_log).
THEOREM OnlyPendingIsLost ==
  ASSUME LargeValues = {}
  PROVE  HSpec => []CrashLosesOnlyPending
BY HInitInvariant, HNextPreserves, PendingIsLogged, PTL DEF HSpec

\* Every GET is answered with the last value acknowledged for its key (req_get).
THEOREM GetsAreAnsweredWithTheLatest ==
  ASSUME LargeValues = {}
  PROVE  HSpec => LatestValueServed
<1>1. HInv /\ [HNext]_hvars =>
        [reply' # reply /\ reply'.op = "GET" => reply'.value = acked[reply'.key]]_hvars
  BY GetIsLatest
<1> QED
  BY <1>1, HInitInvariant, HNextPreserves, PTL DEF HSpec, LatestValueServed

-----------------------------------------------------------------------------
(***************************************************************************)
(* The same with large values. What was acknowledged is in the view of each*)
(* key and, unless an operation of it waits in the log, in its row; both   *)
(* but for keys whose last value is a large one.                           *)
(***************************************************************************)

ViewIsKept == \A k \in Keys : Kept(View[k], k)

RowsAreKept ==
  caching_regime # "ONLY_CACHE" => \A k \in Keys \ Logged(log) : Kept(db[k], k)

KInv ==
  /\ IInv
  /\ acked \in [Keys -> Contents]
  /\ ReplyIsAcked
  /\ ViewIsKept
  /\ RowsAreKept

LEMMA KInitInvariant == HInit => KInv
<1> SUFFICES ASSUME HInit PROVE KInv
  OBVIOUS
<1>1. HInv
  BY HInitInvariant
<1>2. acked = db /\ db \in [Keys -> Contents] /\ View = db
  BY <1>1 DEF HInit, Init, HInv
<1> QED
  BY <1>1, <1>2 DEF HInv, KInv, ViewIsKept, RowsAreKept, Kept

\* What a dump writes: the entry of a logged key, which is what clients read, and
\* no other row.
LEMMA DumpRows ==
  ASSUME IInv, caching_regime = "DEFFER_DUMP", NEW k \in Keys
  PROVE  do_transaction(log, db)[k] = IF k \in Logged(log) THEN View[k] ELSE db[k]
<1>1. log \in Seq(Operation) /\ HasLast(log) /\ db \in [Keys -> Contents]
  BY DEF IInv, TypeOK
<1>2. ASSUME k \in Logged(log)
      PROVE  View[k] = log[LastFor(log, k)].value
  <2>1. k \in ShortKeys /\ log[LastFor(log, k)].value \in SmallValues \cup {Absent}
    BY <1>1, <1>2, DumpType
  <2>2. cache[k] = log[LastFor(log, k)].value
    BY <1>2 DEF IInv, LatestPendingIsCached
  <2>3. cache[k] # NotCached
    BY <2>1, <2>2, StoreAssumption DEF Contents, Values
  <2> QED
    BY <2>1, <2>2, <2>3 DEF View, check_hash_table, Caching
<1> QED
  BY <1>2 DEF do_transaction

LEMMA LongerDumpRows ==
  ASSUME IInv, caching_regime = "DEFFER_DUMP", NEW op \in Operation,
         NEW d \in [Keys -> Contents], \A j \in Keys \ {op.key} : d[j] = db[j]
  PROVE  LET t == do_transaction(Append(log, op), d) IN
         /\ t \in [Keys -> Contents]
         /\ t[op.key] = op.value
         /\ \A j \in Keys \ {op.key} : t[j] = IF j \in Logged(log) THEN View[j] ELSE db[j]
<1> DEFINE ops == Append(log, op)
<1>1. log \in Seq(Operation) /\ HasLast(log) /\ op.key \in Keys
  BY DEF IInv, TypeOK, Operation, Keys
<1>2. /\ HasLast(ops)
      /\ Logged(ops) = Logged(log) \cup {op.key}
      /\ ops[LastFor(ops, op.key)].value = op.value
      /\ \A k \in Logged(log) \ {op.key} :
           ops[LastFor(ops, k)].value = log[LastFor(log, k)].value
  BY <1>1, AppendedIsLast
<1>3. ops \in Seq(Operation)
  BY <1>1
<1> HIDE DEF ops
<1>4. do_transaction(ops, d) \in [Keys -> Contents]
  BY <1>2, <1>3, DumpType
<1>5. do_transaction(ops, d)[op.key] = op.value
  BY <1>1, <1>2 DEF do_transaction
<1>6. ASSUME NEW j \in Keys \ {op.key}
      PROVE  do_transaction(ops, d)[j] = IF j \in Logged(log) THEN View[j] ELSE db[j]
  <2>1. do_transaction(log, db)[j] = IF j \in Logged(log) THEN View[j] ELSE db[j]
    BY DumpRows
  <2>2. do_transaction(ops, d)[j] = do_transaction(log, db)[j]
    BY <1>2 DEF do_transaction
  <2> QED
    BY <2>1, <2>2
<1> QED
  BY <1>4, <1>5, <1>6 DEF ops

\* A dump makes up for what the rows lacked.
LEMMA DumpKeeps ==
  ASSUME KInv, caching_regime = "DEFFER_DUMP"
  PROVE  \A k \in Keys : Kept(do_transaction(log, db)[k], k)
<1>1. ASSUME NEW k \in Keys PROVE Kept(do_transaction(log, db)[k], k)
  <2>1. CASE k \in Logged(log)
    BY <2>1, DumpRows DEF KInv, ViewIsKept
  <2>2. CASE k \notin Logged(log)
    BY <2>2, DumpRows DEF KInv, RowsAreKept
  <2> QED
    BY <2>1, <2>2
<1> QED
  BY <1>1

\* The history after a write, and after a step that answers nothing new.
LEMMA WriteIsAcked ==
  ASSUME acked \in [Keys -> Contents], worker' = "up", Recorded, NEW k \in Keys, NEW x \in Contents,
         reply' = SetReply(k, x) \/ (x = Absent /\ \E b \in BOOLEAN : reply' = DelReply(k, b))
  PROVE  acked' = [acked EXCEPT ![k] = x] /\ ReplyIsAcked'
<1>1. CASE reply' = SetReply(k, x)
  <2>1. reply'.op = "SET" /\ reply'.key = k /\ reply'.value = x
    BY <1>1 DEF SetReply
  <2> QED
    BY <2>1 DEF Recorded, Acknowledge, ReplyIsAcked
<1>2. ASSUME x = Absent, NEW b \in BOOLEAN, reply' = DelReply(k, b)
      PROVE  acked' = [acked EXCEPT ![k] = x] /\ ReplyIsAcked'
  <2>1. reply'.op = "DEL" /\ reply'.key = k
    BY <1>2 DEF DelReply
  <2> QED
    BY <1>2, <2>1 DEF Recorded, Acknowledge, ReplyIsAcked
<1> QED
  BY <1>1, <1>2

LEMMA NothingIsAcked ==
  ASSUME KInv, worker' = "up", Recorded, reply' = reply
  PROVE  acked' = acked /\ ReplyIsAcked'
<1>1. reply \in Replies /\ acked \in [Keys -> Contents] /\ ReplyIsAcked
  BY DEF KInv, IInv, TypeOK
<1>2. reply.op \in {"SET", "DEL"} => reply.key \in Keys
  BY <1>1, RepliesOfKeys
<1>3. \A k \in Keys : [acked EXCEPT ![k] = acked[k]] = acked
  BY <1>1
<1>4. Acknowledge(acked, reply) = acked
  BY <1>1, <1>2, <1>3 DEF ReplyIsAcked, Acknowledge
<1> QED
  BY <1>1, <1>4 DEF Recorded, ReplyIsAcked

\* A write of x to k: its entry has it, or its row and it has no entry, or it is
\* large; every other entry stays, and every other row or its view.
LEMMA WriteKeeps ==
  ASSUME KInv, UNCHANGED caching_regime, NEW k \in Keys, NEW x \in Contents,
         acked' = [acked EXCEPT ![k] = x],
         \A j \in ShortKeys \ {k} : cache'[j] = cache[j],
         \A j \in Keys \ {k} :
           IF j \in Logged(log) \ Logged(log') THEN db'[j] = View[j] ELSE db'[j] = db[j],
         \/ Caching /\ k \in ShortKeys /\ cache'[k] = x /\ x # NotCached
         \/ ~(Caching /\ k \in ShortKeys) /\ db'[k] = x
         \/ x \in LargeValues,
         caching_regime # "ONLY_CACHE" => k \in Logged(log') \/ db'[k] = x
  PROVE  acked' \in [Keys -> Contents] /\ ViewIsKept' /\ RowsAreKept'
<1>1. acked \in [Keys -> Contents] /\ ViewIsKept /\ RowsAreKept
  BY DEF KInv
<1>2. /\ acked' \in [Keys -> Contents]
      /\ acked'[k] = x
      /\ \A j \in Keys \ {k} : acked'[j] = acked[j]
  BY <1>1
<1>3. ASSUME NEW j \in Keys PROVE Kept(View[j], j)'
  <2>1. CASE j = k
    BY <1>2, <2>1 DEF Kept, View, check_hash_table, Caching
  <2>2. CASE j # k
    <3>1. View'[j] = View[j]
      BY <2>2 DEF View, check_hash_table, Caching
    <3> QED
      BY <1>1, <1>2, <2>2, <3>1 DEF Kept, ViewIsKept
  <2> QED
    BY <2>1, <2>2
<1>4. ASSUME caching_regime # "ONLY_CACHE", NEW j \in Keys \ Logged(log')
      PROVE  Kept(db[j], j)'
  <2>1. CASE j = k
    BY <1>2, <1>4, <2>1 DEF Kept
  <2>2. CASE j # k
    <3>1. Kept(db'[j], j)
      BY <1>1, <1>4, <2>2 DEF ViewIsKept, RowsAreKept
    <3> QED
      BY <1>2, <2>2, <3>1 DEF Kept
  <2> QED
    BY <2>1, <2>2
<1> QED
  BY <1>2, <1>3, <1>4 DEF ViewIsKept, RowsAreKept

\* A write that the cache remembers; its row may have been changed before (d).
LEMMA RememberKeeps ==
  ASSUME KInv, WritesToCacheOnly, UNCHANGED caching_regime,
         NEW k \in ShortKeys, NEW x \in SmallValues \cup {Absent},
         NEW d \in [Keys -> Contents], \A j \in Keys \ {k} : d[j] = db[j],
         RememberOnly(k, x, d), acked' = [acked EXCEPT ![k] = x]
  PROVE  acked' \in [Keys -> Contents] /\ ViewIsKept' /\ RowsAreKept'
<1>1. /\ IInv
      /\ k \in Keys /\ x \in Contents /\ x # NotCached /\ Caching
      /\ cache \in [ShortKeys -> SmallValues \cup {Absent, NotCached}]
      /\ log \in Seq(Operation) /\ HasLast(log)
  BY StoreAssumption DEF KInv, IInv, TypeOK, Keys, Values, Contents, WritesToCacheOnly, Caching
<1>2. cache'[k] = x /\ \A j \in ShortKeys \ {k} : cache'[j] = cache[j]
  BY <1>1 DEF RememberOnly, set_hash_table
<1> DEFINE op == [key |-> k, value |-> x]
<1>3. op \in Operation /\ op.key = k /\ op.value = x
  BY DEF Operation
<1> HIDE DEF op
<1>4. CASE caching_regime = "DEFFER_DUMP" /\ log' = Append(log, op) /\ db' = d
  <2>1. Logged(log') = Logged(log) \cup {k}
    BY <1>1, <1>3, <1>4, AppendedIsLast
  <2> QED
    BY <1>1, <1>2, <1>4, <2>1, WriteKeeps
<1>5. CASE /\ caching_regime = "DEFFER_DUMP"
           /\ log' = <<>>
           /\ db' = do_transaction(Append(log, op), d)
  <2>1. /\ db'[k] = x
        /\ \A j \in Keys \ {k} : db'[j] = IF j \in Logged(log) THEN View[j] ELSE db[j]
    BY <1>1, <1>3, <1>5, LongerDumpRows
  <2>2. Logged(log') = {}
    BY <1>5 DEF Logged
  <2> QED
    BY <1>1, <1>2, <1>5, <2>1, <2>2, WriteKeeps
<1>6. CASE caching_regime # "DEFFER_DUMP" /\ db' = d /\ UNCHANGED log
  <2>1. caching_regime = "ONLY_CACHE"
    BY <1>6 DEF WritesToCacheOnly
  <2> QED
    BY <1>1, <1>2, <1>6, <2>1, WriteKeeps
<1> QED
  BY <1>4, <1>5, <1>6 DEF RememberOnly, add_log, op

LEMMA SetKeeps ==
  ASSUME KInv, NEW k \in Keys, NEW v \in Values, req_set(k, v), Recorded
  PROVE  acked' \in [Keys -> Contents] /\ ReplyIsAcked' /\ ViewIsKept' /\ RowsAreKept'
<1>1. /\ db \in [Keys -> Contents]
      /\ cache \in [ShortKeys -> SmallValues \cup {Absent, NotCached}]
      /\ v \in Contents /\ v # NotCached
      /\ UNCHANGED caching_regime /\ worker' = "up"
      /\ acked \in [Keys -> Contents]
  BY StoreAssumption DEF KInv, IInv, TypeOK, req_set, Contents
<1>2. acked' = [acked EXCEPT ![k] = v] /\ ReplyIsAcked'
  BY <1>1, WriteIsAcked DEF req_set
<1>3. CASE /\ caching_regime = "NO_CACHE" \/ ~FitsInCache(k, v)
           /\ db' = set_value(k, v)
           /\ UNCHANGED <<cache, log>>
  <2>1. db'[k] = v /\ \A j \in Keys \ {k} : db'[j] = db[j]
    BY <1>1, <1>3 DEF set_value
  <2>2. ~(Caching /\ k \in ShortKeys) \/ v \in LargeValues
    BY <1>3 DEF Caching, FitsInCache, Values
  <2> QED
    BY <1>1, <1>2, <1>3, <2>1, <2>2, WriteKeeps
<1>4. CASE /\ caching_regime = "GET_CACHE"
           /\ FitsInCache(k, v)
           /\ db' = set_value(k, v)
           /\ set_hash_table(k, v)
           /\ UNCHANGED log
  <2>1. db'[k] = v /\ \A j \in Keys \ {k} : db'[j] = db[j]
    BY <1>1, <1>4 DEF set_value
  <2>2. Caching /\ k \in ShortKeys /\ cache'[k] = v /\ \A j \in ShortKeys \ {k} : cache'[j] = cache[j]
    BY <1>1, <1>4 DEF Caching, FitsInCache, set_hash_table
  <2> QED
    BY <1>1, <1>2, <1>4, <2>1, <2>2, WriteKeeps
<1>5. CASE WritesToCacheOnly /\ FitsInCache(k, v) /\ RememberOnly(k, v, db)
  BY <1>1, <1>2, <1>5, RememberKeeps DEF FitsInCache
<1> QED
  BY <1>2, <1>3, <1>4, <1>5 DEF req_set

LEMMA DelKeeps ==
  ASSUME KInv, NEW k \in Keys, req_del(k), Recorded
  PROVE  acked' \in [Keys -> Contents] /\ ReplyIsAcked' /\ ViewIsKept' /\ RowsAreKept'
<1> DEFINE gone == del_value(k)
<1>1. /\ db \in [Keys -> Contents]
      /\ cache \in [ShortKeys -> SmallValues \cup {Absent, NotCached}]
      /\ Absent \in Contents /\ Absent # NotCached
      /\ UNCHANGED caching_regime /\ worker' = "up"
      /\ acked \in [Keys -> Contents]
  BY StoreAssumption DEF KInv, IInv, TypeOK, req_del, Contents
<1>2. acked' = [acked EXCEPT ![k] = Absent] /\ ReplyIsAcked'
  <2>1. \E b \in BOOLEAN : reply' = DelReply(k, b)
    BY Zenon DEF req_del
  <2> QED
    BY <1>1, <2>1, WriteIsAcked
<1>3. gone \in [Keys -> Contents] /\ gone[k] = Absent /\ \A j \in Keys \ {k} : gone[j] = db[j]
  BY <1>1 DEF del_value
<1> HIDE DEF gone
<1>4. CASE (caching_regime = "NO_CACHE" \/ k \in LongKeys) /\ db' = gone /\ UNCHANGED <<cache, log>>
  <2>1. ~(Caching /\ k \in ShortKeys)
    BY <1>4, StoreAssumption DEF Caching
  <2> QED
    BY <1>1, <1>2, <1>3, <1>4, <2>1, WriteKeeps
<1>5. CASE /\ caching_regime = "GET_CACHE"
           /\ k \in ShortKeys
           /\ db' = gone
           /\ set_hash_table(k, Absent)
           /\ UNCHANGED log
  <2>1. Caching /\ cache'[k] = Absent /\ \A j \in ShortKeys \ {k} : cache'[j] = cache[j]
    BY <1>1, <1>5 DEF Caching, set_hash_table
  <2> QED
    BY <1>1, <1>2, <1>3, <1>5, <2>1, WriteKeeps
<1>6. CASE WritesToCacheOnly /\ k \in ShortKeys /\ RememberOnly(k, Absent, db)
  BY <1>1, <1>2, <1>6, RememberKeeps
<1>7. CASE WritesToCacheOnly /\ k \in ShortKeys /\ RememberOnly(k, Absent, gone)
  BY <1>1, <1>2, <1>3, <1>7, RememberKeeps
<1> QED
  BY <1>2, <1>4, <1>5, <1>6, <1>7 DEF req_del, gone

LEMMA GetIsKept ==
  ASSUME KInv, NEW k \in Keys, req_get(k)
  PROVE  reply' = GetReply(k, View[k]) /\ View' = View
<1>1. cache \in [ShortKeys -> SmallValues \cup {Absent, NotCached}]
  BY DEF KInv, IInv, TypeOK
<1>2. ASSUME NEW j \in Keys PROVE View'[j] = View[j]
  BY <1>1 DEF req_get, get_value, set_hash_table, View, check_hash_table, Caching
<1> QED
  BY <1>2 DEF req_get, View, get_value

LEMMA KPreserved ==
  ASSUME KInv, Next, Recorded
  PROVE  KInv'
<1> SUFFICES acked' \in [Keys -> Contents] /\ ReplyIsAcked' /\ ViewIsKept' /\ RowsAreKept'
  BY NextPreserves DEF KInv
<1>1. ASSUME NEW k \in Keys, req_get(k)
      PROVE  acked' \in [Keys -> Contents] /\ ReplyIsAcked' /\ ViewIsKept' /\ RowsAreKept'
  <2>1. View' = View /\ worker' = "up" /\ UNCHANGED <<caching_regime, log, db>> /\ reply'.op = "GET"
    BY <1>1, GetIsKept DEF req_get, GetReply
  <2>2. acked' = acked
    BY <2>1 DEF Recorded, Acknowledge
  <2> QED
    BY <2>1, <2>2 DEF KInv, ReplyIsAcked, ViewIsKept, RowsAreKept, Kept
<1>2. ASSUME NEW k \in Keys, NEW v \in Values, req_set(k, v)
      PROVE  acked' \in [Keys -> Contents] /\ ReplyIsAcked' /\ ViewIsKept' /\ RowsAreKept'
  BY <1>2, SetKeeps
<1>3. ASSUME NEW k \in Keys, req_del(k)
      PROVE  acked' \in [Keys -> Contents] /\ ReplyIsAcked' /\ ViewIsKept' /\ RowsAreKept'
  BY <1>3, DelKeeps
<1>4. CASE sync_with_db
  <2>1. acked' = acked /\ ReplyIsAcked'
    BY <1>4, NothingIsAcked DEF sync_with_db
  <2>2. \A k \in Keys : Kept(db'[k], k)
    BY <1>4, DumpKeeps DEF sync_with_db
  <2>3. ASSUME NEW k \in Keys PROVE View'[k] = View[k]
    BY <1>4, DumpRows DEF KInv, sync_with_db, View, check_hash_table, Caching
  <2> QED
    BY <2>1, <2>2, <2>3 DEF KInv, ViewIsKept, RowsAreKept, Kept
<1>5. CASE proxy_start_work
  <2>1. acked' = acked /\ ReplyIsAcked'
    BY <1>5, NothingIsAcked DEF proxy_start_work
  <2>2. UNCHANGED KV!vars
    BY <1>5, StartImplements DEF KInv
  <2>3. \A k \in ShortKeys : cache[k] = NotCached
    BY <1>5 DEF KInv, IInv, MemoryIsOfTheRegime, proxy_start_work
  <2>4. \A k \in Keys : View[k] = db[k]
    BY <2>3 DEF View, check_hash_table
  <2> QED
    BY <2>1, <2>2, <2>4 DEF KInv, ViewIsKept, RowsAreKept, Kept, KV!vars
<1>6. CASE (\E k \in Keys, x \in Contents : UpdateFails(k, x)) \/ DumpFails \/ Terminate
  <2>1. PICK d : Exit(d)
    BY <1>6 DEF UpdateFails, DumpFails, Terminate
  <2>2. db' \in [Keys -> Contents]
    BY NextPreserves DEF KInv, IInv, TypeOK
  <2>3. \A k \in Keys : View'[k] = db'[k]
    BY <2>1 DEF Exit, View, check_hash_table, EmptyCache
  <2>4. acked' = db' /\ reply' = NoReply
    BY <2>1 DEF Exit, Recorded
  <2> QED
    BY <2>2, <2>3, <2>4 DEF ReplyIsAcked, NoReply, ViewIsKept, RowsAreKept, Kept
<1> QED
  BY <1>1, <1>2, <1>3, <1>4, <1>5, <1>6 DEF Next

LEMMA KNextPreserves == KInv /\ [HNext]_hvars => KInv'
<1>1. ASSUME KInv, HNext PROVE KInv'
  BY <1>1, KPreserved DEF HNext
<1>2. ASSUME KInv, UNCHANGED hvars PROVE KInv'
  <2>1. IInv'
    BY <1>2, NextPreserves DEF KInv, hvars
  <2>2. View' = View
    BY <1>2 DEF hvars, vars, View, check_hash_table, Caching
  <2> QED
    BY <1>2, <2>1, <2>2 DEF KInv, hvars, vars, ReplyIsAcked, ViewIsKept, RowsAreKept, Kept
<1> QED
  BY <1>1, <1>2

-----------------------------------------------------------------------------

\* What the rows may be after the end of the worker.
WholeBatches ==
  \/ db' = db
  \/ \E k \in Keys, x \in Contents :
       db' = [db EXCEPT ![k] = x] /\ (k \in Logged(log) => x \in LargeValues)
  \/ caching_regime = "DEFFER_DUMP" /\ \A k \in Keys : Kept(db'[k], k)
  \/ /\ caching_regime = "DEFFER_DUMP" /\ Len(log) + 1 = MAX_COUNT_OPERATION
     /\ \E op \in Operation :
          db'[op.key] = op.value /\ \A k \in Keys \ {op.key} : Kept(db'[k], k)

\* Only a large value is sent past an operation that waits in the log for the same
\* key: the cache has an entry for it, and any other write of it stays there.
LEMMA SentIsNotLogged ==
  ASSUME IInv, NEW k \in Keys, NEW x \in Contents, WritesThrough(k, x), k \in Logged(log)
  PROVE  x \in LargeValues
<1>1. log \in Seq(Operation) /\ HasLast(log) /\ db \in [Keys -> Contents]
  BY DEF IInv, TypeOK
<1>2. k \in ShortKeys /\ log[LastFor(log, k)].value \in SmallValues \cup {Absent}
  BY <1>1, DumpType
<1>3. log # <<>>
  BY DEF Logged
<1>4. caching_regime = "DEFFER_DUMP"
  BY <1>3 DEF IInv, MemoryIsOfTheRegime
<1>5. cache[k] # NotCached
  BY <1>2, StoreAssumption DEF IInv, LatestPendingIsCached, Contents, Values
<1> QED
  BY <1>2, <1>4, <1>5, StoreAssumption DEF WritesThrough, WritesToCacheOnly, check_hash_table, Caching

\* A dump that was carried out leaves what clients were told, and the operation
\* that filled the log with it.
LEMMA EndKeepsBatches ==
  ASSUME KInv, HNext, worker = "up", worker' = "down"
  PROVE  WholeBatches
<1>1. IInv /\ log \in Seq(Operation) /\ db \in [Keys -> Contents]
  BY DEF KInv, IInv, TypeOK
<1>2. ASSUME NEW k \in Keys, NEW x \in Contents, UpdateFails(k, x)
      PROVE  WholeBatches
  <2>1. k \in Logged(log) => x \in LargeValues
    BY <1>1, <1>2, SentIsNotLogged DEF UpdateFails
  <2> QED
    BY <1>2, <2>1 DEF UpdateFails, Exit, WholeBatches
<1>3. CASE DumpFails
  <2>1. CASE caching_regime = "DEFFER_DUMP" /\ Exit(do_transaction(log, db))
    BY <2>1, DumpKeeps DEF Exit, WholeBatches
  <2>2. ASSUME caching_regime = "DEFFER_DUMP", Len(log) + 1 = MAX_COUNT_OPERATION,
               NEW op \in Operation, Exit(do_transaction(Append(log, op), db))
        PROVE  WholeBatches
    <3>1. /\ db'[op.key] = op.value
          /\ \A j \in Keys \ {op.key} : db'[j] = IF j \in Logged(log) THEN View[j] ELSE db[j]
      BY <1>1, <2>2, LongerDumpRows DEF Exit
    <3>2. \A j \in Keys \ {op.key} : Kept(db'[j], j)
      BY <2>2, <3>1 DEF KInv, ViewIsKept, RowsAreKept
    <3> QED
      BY <2>2, <3>1, <3>2 DEF WholeBatches
  <2> QED
    BY <1>3, <2>1, <2>2 DEF DumpFails
<1>4. CASE Terminate
  BY <1>4 DEF Terminate, Exit, WholeBatches
<1>5. ASSUME NEW k \in Keys, req_get(k) \/ req_del(k) PROVE FALSE
  BY <1>5 DEF req_get, req_del
<1>6. ASSUME NEW k \in Keys, NEW v \in Values, req_set(k, v) PROVE FALSE
  BY <1>6 DEF req_set
<1>7. CASE sync_with_db \/ proxy_start_work
  BY <1>7 DEF sync_with_db, proxy_start_work
<1> QED
  BY <1>2, <1>3, <1>4, <1>5, <1>6, <1>7 DEF HNext, Next

\* A GET answers the view of its key, which is kept.
LEMMA AnswerIsKept ==
  ASSUME KInv, HNext, reply' # reply, reply'.op = "GET"
  PROVE  Kept(reply'.value, reply'.key)
<1>1. ASSUME NEW k \in Keys, req_get(k) PROVE Kept(reply'.value, reply'.key)
  BY <1>1, GetIsKept DEF KInv, ViewIsKept, GetReply
<1>2. ASSUME NEW k \in Keys, req_del(k) PROVE FALSE
  <2>1. \E b \in BOOLEAN : reply' = DelReply(k, b)
    BY <1>2, Zenon DEF req_del
  <2> QED
    BY <2>1 DEF DelReply
<1>3. ASSUME NEW k \in Keys, NEW v \in Values, req_set(k, v) PROVE FALSE
  BY <1>3 DEF req_set, SetReply
<1>4. CASE sync_with_db \/ proxy_start_work
  BY <1>4 DEF sync_with_db, proxy_start_work
<1>5. CASE (\E k \in Keys, x \in Contents : UpdateFails(k, x)) \/ DumpFails \/ Terminate
  BY <1>5 DEF UpdateFails, DumpFails, Terminate, Exit, NoReply
<1> QED
  BY <1>1, <1>2, <1>3, <1>4, <1>5 DEF HNext, Next

\* However the worker ends, in a request, in a dump or between two of them, the
\* waiting operations are in the database all together or not at all
\* (init_transaction, do_transaction), and at most one write besides them.
THEOREM EndOfWorkerKeepsBatches == HSpec => CrashKeepsWholeBatches
<1>1. KInv /\ [HNext]_hvars => [worker = "up" /\ worker' = "down" => WholeBatches]_hvars
  BY EndKeepsBatches
<1> QED
  BY <1>1, KInitInvariant, KNextPreserves, PTL DEF HSpec, CrashKeepsWholeBatches, WholeBatches

\* A GET misses the last value of its key only while that is a large one (req_get
\* behind the direct write of req_set).
THEOREM GetsMissOnlyLargeValues == HSpec => StaleOnlyBehindLarge
<1>1. KInv /\ [HNext]_hvars =>
        [reply' # reply /\ reply'.op = "GET" => Kept(reply'.value, reply'.key)]_hvars
  BY AnswerIsKept
<1> QED
  BY <1>1, KInitInvariant, KNextPreserves, PTL DEF HSpec, StaleOnlyBehindLarge
=============================================================================
