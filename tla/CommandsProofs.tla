---------------------------- MODULE CommandsProofs ----------------------------
(***************************************************************************)
(* Proofs about the command layer: a DEL of several keys that deletes them *)
(* one by one, with the end of the worker between two of them, keeps what  *)
(* the storage path promises, and counts its keys right; and every reply   *)
(* is the message of the protocol for its result, to the byte.             *)
(***************************************************************************)
EXTENDS Commands, CacheStoreProofs, RecursionProofs, FiniteSetTheorems

-----------------------------------------------------------------------------
(***************************************************************************)
(* Every step of the command layer is one of the storage path, or leaves   *)
(* its state alone and forgets the reply.                                  *)
(***************************************************************************)

WithoutStore == reply' = NoReply /\ UNCHANGED <<worker, caching_regime, cache, log, db, acked>>

LEMMA HeadIsKey ==
  ASSUME NEW keys \in Seq(Keys), keys # <<>>
  PROVE  Head(keys) \in Keys /\ Tail(keys) \in Seq(Keys)
OBVIOUS

LEMMA CommandIsStep ==
  ASSUME CNext, deleting \in Seq(Keys)
  PROVE  HNext \/ WithoutStore
<1>1. ASSUME NEW keys \in Seq(Keys), keys # <<>>, NEW n, Delete(keys, n)
      PROVE  HNext
  BY <1>1, HeadIsKey DEF Delete, HNext, Next
<1>2. CASE process_redis_to_postgres
  <2>1. ASSUME NEW k \in Keys, process_get(k) PROVE HNext
    BY <2>1 DEF process_get, HNext, Next
  <2>2. ASSUME NEW k \in Keys, NEW v \in Values, process_set(k, v) PROVE HNext
    BY <2>2 DEF process_set, HNext, Next
  <2>3. ASSUME NEW keys \in KeyLists, process_del(keys) PROVE HNext
    <3>1. keys \in Seq(Keys) /\ keys # <<>>
      BY CommandsAssumption
    <3> QED
      BY <1>1, <2>3, <3>1 DEF process_del
  <2>4. ASSUME NEW command, WithoutData(command) PROVE WithoutStore
    BY <2>4 DEF WithoutData, WithoutStore
  <2> QED
    BY <1>2, <2>1, <2>2, <2>3, <2>4
       DEF process_redis_to_postgres, process_command, process_ping, process_error
<1>3. CASE DeleteNext
  BY <1>1, <1>3 DEF DeleteNext
<1>4. CASE EndOfRead
  BY <1>4 DEF EndOfRead, WithoutStore
<1>5. CASE on_timer_timeout_cb
  BY <1>5 DEF on_timer_timeout_cb, HNext, Next
<1>6. CASE WorkerEnds
  <2>1. ASSUME NEW k \in Keys, DeletionFails(k)
        PROVE  (\E x \in Contents : UpdateFails(k, x)) \/ DumpFails
    <3>1. CASE UpdateFails(k, Absent)
      BY <3>1 DEF Contents
    <3>2. CASE /\ caching_regime = "DEFFER_DUMP"
               /\ k \in ShortKeys
               /\ Len(log) + 1 = MAX_COUNT_OPERATION
               /\ Exit(do_transaction(Append(log, [key |-> k, value |-> Absent]), db))
      <4>1. [key |-> k, value |-> Absent] \in Operation
        BY <3>2 DEF Operation
      <4> QED
        BY <3>2, <4>1 DEF DumpFails
    <3> QED
      BY <2>1, <3>1, <3>2 DEF DeletionFails
  <2>2. deleting # <<>> => Head(deleting) \in Keys
    BY HeadIsKey
  <2> QED
    BY <1>6, <2>1, <2>2 DEF WorkerEnds, HNext, Next
<1>7. CASE Restart
  BY <1>7 DEF Restart, HNext, Next
<1> QED
  BY <1>2, <1>3, <1>4, <1>5, <1>6, <1>7 DEF CNext

-----------------------------------------------------------------------------
(***************************************************************************)
(* The count of a DEL. While it is under way, the keys it has counted and  *)
(* those it has still to count, each once, are the ones that had a value   *)
(* when it began.                                                          *)
(***************************************************************************)

Present(keys, a) == {k \in Range(keys) : a[k] # Absent}

DeletionsAddUp ==
  deleting # <<>> =>
    successful_deletions + Cardinality(Present(deleting, acked)) = expected

CInv ==
  /\ HInv
  /\ deleting \in Seq(Keys)
  /\ successful_deletions \in Nat /\ expected \in Nat
  /\ deleting # <<>> => worker = "up"
  /\ DeletionsAddUp

LEMMA PresentIsFinite ==
  ASSUME NEW keys \in Seq(Keys), NEW a
  PROVE  IsFiniteSet(Present(keys, a)) /\ Cardinality(Present(keys, a)) \in Nat
<1>1. keys \in Surjection(1 .. Len(keys), Range(keys))
  BY DEF Surjection, Range
<1>2. IsFiniteSet(1 .. Len(keys))
  BY FS_Interval
<1>3. IsFiniteSet(Range(keys))
  BY <1>1, <1>2, FS_Surjection
<1>4. IsFiniteSet(Present(keys, a))
  BY <1>3, FS_Subset DEF Present
<1> QED
  BY <1>4, FS_CardinalityType

\* A key leaves the set when it is deleted, and does not come back in the list:
\* named again, it is not counted again.
LEMMA OneKeyLess ==
  ASSUME NEW keys \in Seq(Keys), keys # <<>>, NEW a, NEW b,
         b[Head(keys)] = Absent,
         \A k \in Keys \ {Head(keys)} : b[k] = a[k]
  PROVE  Present(Tail(keys), b) = Present(keys, a) \ {Head(keys)}
<1>1. /\ keys = <<Head(keys)>> \o Tail(keys)
      /\ Len(keys) \in Nat /\ Len(keys) > 0
      /\ Head(keys) = keys[1]
      /\ Tail(keys) \in Seq(Keys)
      /\ Len(Tail(keys)) = Len(keys) - 1
      /\ \A i \in 1 .. Len(keys) - 1 : Tail(keys)[i] = keys[i + 1]
  OBVIOUS
<1>2. Range(keys) = Range(Tail(keys)) \cup {Head(keys)}
  <2>1. ASSUME NEW i \in 1 .. Len(keys) PROVE keys[i] \in Range(Tail(keys)) \cup {Head(keys)}
    <3>1. CASE i = 1
      BY <1>1, <3>1
    <3>2. CASE i # 1
      <4>1. i - 1 \in 1 .. Len(keys) - 1 /\ keys[i] = Tail(keys)[i - 1]
        BY <1>1, <3>2
      <4>2. i - 1 \in DOMAIN Tail(keys)
        BY <1>1, <4>1
      <4> QED
        BY <4>1, <4>2 DEF Range
    <3> QED
      BY <3>1, <3>2
  <2>2. ASSUME NEW i \in 1 .. Len(keys) - 1 PROVE Tail(keys)[i] \in Range(keys)
    BY <1>1 DEF Range
  <2>3. Head(keys) \in Range(keys)
    BY <1>1 DEF Range
  <2> QED
    BY <1>1, <2>1, <2>2, <2>3 DEF Range
<1>3. Range(Tail(keys)) \subseteq Keys
  BY <1>1 DEF Range
<1> QED
  BY <1>2, <1>3 DEF Present

\* What a DEL has answered.
DelAnswersExpected ==
  request = "DEL" /\ deleting = <<>> => pg_answer = <<2>> \o Decimal[expected]

\* The deletion of one key of a DEL, the first or a later one.
LEMMA DeleteAddsUp ==
  ASSUME HInv, HInv', LargeValues = {},
         NEW keys \in Seq(Keys), keys # <<>>, NEW n \in Nat, Delete(keys, n),
         expected' = n + Cardinality(Present(keys, acked))
  PROVE  CInv' /\ DelAnswersExpected'
<1> DEFINE k == Head(keys)
           before == Present(keys, acked)
           after == Present(Tail(keys), acked')
<1>1. /\ k \in Keys
      /\ Tail(keys) \in Seq(Keys)
      /\ deleting' = Tail(keys)
      /\ req_del(k)
      /\ worker' = "up"
  BY HeadIsKey DEF Delete, req_del
<1>2. /\ reply'.existed = (acked[k] # Absent)
      /\ acked' = [acked EXCEPT ![k] = Absent]
  BY <1>1, DelImplements DEF HInv, KV!Del, KV!DelReply, KV!Write
<1>3. acked'[k] = Absent /\ \A j \in Keys \ {k} : acked'[j] = acked[j]
  BY <1>1, <1>2 DEF HInv, View
<1>4. after = before \ {k}
  BY <1>3, OneKeyLess
<1>5. /\ IsFiniteSet(before) /\ Cardinality(before) \in Nat
      /\ Cardinality(after) \in Nat
  BY <1>1, PresentIsFinite
<1>6. Cardinality(after) = IF k \in before THEN Cardinality(before) - 1 ELSE Cardinality(before)
  BY <1>4, <1>5, FS_RemoveElement
<1>7. k \in before <=> acked[k] # Absent
  <2>1. 1 \in DOMAIN keys /\ k = keys[1]
    OBVIOUS
  <2>2. k \in Range(keys)
    BY <2>1 DEF Range
  <2> QED
    BY <2>2 DEF Present
<1>11. expected' = n + Cardinality(before)
  OBVIOUS
<1> HIDE DEF k, before, after
<1>8. /\ Counted(n, reply'.existed) + Cardinality(after) = expected'
      /\ Counted(n, reply'.existed) \in Nat
      /\ expected' \in Nat
  <2>1. CASE k \in before
    <3>1. Counted(n, reply'.existed) = n + 1
      BY <1>2, <1>7, <2>1, Zenon DEF Counted
    <3> QED
      BY <1>5, <1>6, <1>11, <2>1, <3>1
  <2>2. CASE k \notin before
    <3>1. Counted(n, reply'.existed) = n
      BY <1>2, <1>7, <2>2, Zenon DEF Counted
    <3> QED
      BY <1>5, <1>6, <1>11, <2>2, <3>1
  <2> QED
    BY <2>1, <2>2
<1>9. CASE Tail(keys) = <<>>
  <2>1. after = {}
    BY <1>9 DEF after, Present, Range
  <2>2. Counted(n, reply'.existed) = expected'
    BY <1>8, <2>1, FS_EmptySet
  <2> QED
    BY <1>1, <1>8, <1>9, <2>2 DEF Delete, CInv, DeletionsAddUp, DelAnswersExpected
<1>10. CASE Tail(keys) # <<>>
  BY <1>1, <1>5, <1>8, <1>10 DEF Delete, CInv, DeletionsAddUp, DelAnswersExpected, after
<1> QED
  BY <1>9, <1>10

LEMMA CInitInvariant == CInit => CInv /\ DelAnswersExpected
BY HInitInvariant DEF CInit, CInv, DeletionsAddUp, DelAnswersExpected

LEMMA StoreStepTypes ==
  ASSUME IInv, HNext \/ WithoutStore
  PROVE  IInv'
<1>1. CASE HNext
  BY <1>1, NextPreserves DEF HNext
<1>2. CASE WithoutStore
  <2>1. TypeOK'
    BY <1>2 DEF WithoutStore, IInv, TypeOK, Replies
  <2>2. MemoryIsOfTheRegime' /\ CacheCoherence'
    BY <1>2 DEF WithoutStore, IInv, Caching, MemoryIsOfTheRegime, CacheCoherence, Logged
  <2>3. HasLast(log)' /\ LatestPendingIsCached'
    BY <1>2 DEF WithoutStore, IInv, HasLast, LatestPendingIsCached, Logged, LastFor, IsLastFor
  <2> QED
    BY <2>1, <2>2, <2>3 DEF IInv
<1> QED
  BY <1>1, <1>2

LEMMA StoreStepPreserves ==
  ASSUME HInv, LargeValues = {}, HNext \/ WithoutStore
  PROVE  HInv'
<1>1. CASE HNext
  BY <1>1, HPreserved DEF HNext
<1>2. CASE WithoutStore
  <2>1. IInv'
    BY <1>2, StoreStepTypes DEF HInv
  <2>2. View' = View
    BY <1>2 DEF WithoutStore, View, check_hash_table, Caching
  <2> QED
    BY <1>2, <2>1, <2>2 DEF WithoutStore, HInv, ReplyIsAcked, NoReply
<1> QED
  BY <1>1, <1>2

LEMMA CNextPreserves ==
  ASSUME LargeValues = {}
  PROVE  CInv /\ DelAnswersExpected /\ [CNext]_cvars => CInv' /\ DelAnswersExpected'
<1> SUFFICES ASSUME CInv, DelAnswersExpected, [CNext]_cvars
             PROVE  CInv' /\ DelAnswersExpected'
  OBVIOUS
<1>1. HInv'
  <2>1. CASE CNext
    BY <2>1, CommandIsStep, StoreStepPreserves DEF CInv
  <2>2. CASE UNCHANGED cvars
    BY <2>2, HNextPreserves DEF CInv, cvars
  <2> QED
    BY <2>1, <2>2
<1>2. CASE NotDeleting /\ request' # "DEL"
  BY <1>1, <1>2 DEF NotDeleting, CInv, DeletionsAddUp, DelAnswersExpected
<1>3. ASSUME NEW keys \in KeyLists, process_del(keys)
      PROVE  CInv' /\ DelAnswersExpected'
  <2>1. keys \in Seq(Keys) /\ keys # <<>>
    BY CommandsAssumption
  <2>2. Cardinality(Present(keys, acked)) \in Nat
    BY <2>1, PresentIsFinite
  <2>3. expected' = 0 + Cardinality(Present(keys, acked)) /\ Delete(keys, 0)
    BY <1>3, <2>2 DEF process_del, Present
  <2> QED
    BY <1>1, <2>1, <2>3, DeleteAddsUp DEF CInv
<1>4. CASE DeleteNext
  BY <1>1, <1>4, DeleteAddsUp DEF DeleteNext, CInv, DeletionsAddUp
<1>5. CASE UNCHANGED cvars
  BY <1>1, <1>5 DEF cvars, hvars, vars, delVars, CInv, DeletionsAddUp, DelAnswersExpected, Present
<1>6. CASE process_redis_to_postgres
  BY <1>2, <1>3, <1>6 DEF process_redis_to_postgres, process_get, process_set, process_command,
     process_ping, process_error, WithoutData, Begin, Message
<1>7. CASE EndOfRead \/ on_timer_timeout_cb \/ WorkerEnds \/ Restart
  BY <1>2, <1>7 DEF EndOfRead, on_timer_timeout_cb, WorkerEnds, Restart, Forgotten
<1> QED
  BY <1>4, <1>5, <1>6, <1>7 DEF CNext

-----------------------------------------------------------------------------

\* The number that a DEL of several keys answers is that of the keys which had a
\* value when it began, each counted once (process_del).
THEOREM DelCountsItsKeys ==
  ASSUME LargeValues = {}
  PROVE  CSpec => []DelAnswersExpected
BY CInitInvariant, CNextPreserves, PTL DEF CSpec

\* The commands, DEL in its steps among them, act on one map with a durable copy
\* behind it (redis_reqv_converter.c over send_req_postgres.c).
THEOREM CommandsActOnAMap ==
  ASSUME LargeValues = {}
  PROVE  CSpec => ImplementsKeyValueStore
<1>1. CInit => KV!Init
  BY InitImplements DEF CInit, HInit
<1>2. CInv /\ [CNext]_cvars => [KV!Next]_(KV!vars)
  <2>1. ASSUME CInv, HNext PROVE [KV!Next]_(KV!vars)
    BY <2>1, StepImplements DEF CInv, HInv, HNext
  <2>2. ASSUME WithoutStore PROVE KV!Next
    BY <2>2 DEF WithoutStore, View, check_hash_table, Caching, KV!Next, KV!Other, KV!NoReply, NoReply
  <2>3. ASSUME UNCHANGED cvars PROVE UNCHANGED KV!vars
    BY <2>3 DEF cvars, hvars, vars, KV!vars, View, check_hash_table, Caching
  <2> QED
    BY <2>1, <2>2, <2>3, CommandIsStep DEF CInv
<1> QED
  BY <1>1, <1>2, CInitInvariant, CNextPreserves, PTL DEF CSpec, ImplementsKeyValueStore, KV!Spec

\* The end of the worker, between two deletions of a DEL too, sets back no key
\* but those with an operation in the log.
THEOREM CommandsLoseOnlyPending ==
  ASSUME LargeValues = {}
  PROVE  CSpec => []CrashLosesOnlyPending
<1>1. CInv => CrashLosesOnlyPending
  BY PendingIsLogged DEF CInv
<1> QED
  BY <1>1, CInitInvariant, CNextPreserves, PTL DEF CSpec

\* Every GET is answered with the last value acknowledged for its key.
THEOREM CommandsServeTheLatest ==
  ASSUME LargeValues = {}
  PROVE  CSpec => LatestValueServed
<1>1. CInv /\ [CNext]_cvars =>
        [reply' # reply /\ reply'.op = "GET" => reply'.value = acked[reply'.key]]_hvars
  <2>1. ASSUME CInv, HNext PROVE reply' # reply /\ reply'.op = "GET" => reply'.value = acked[reply'.key]
    BY <2>1, GetIsLatest DEF CInv
  <2>2. ASSUME WithoutStore PROVE reply'.op # "GET"
    BY <2>2 DEF WithoutStore, NoReply
  <2>3. UNCHANGED cvars => UNCHANGED hvars
    BY DEF cvars
  <2> QED
    BY <2>1, <2>2, <2>3, CommandIsStep DEF CInv
<1> QED
  BY <1>1, CInitInvariant, CNextPreserves, PTL DEF CSpec, LatestValueServed

-----------------------------------------------------------------------------
(***************************************************************************)
(* The formatting of replies: a reply is written piece by piece, each      *)
(* memcpy behind what is there.                                            *)
(***************************************************************************)

Cells == 0 .. UNSET
Byte == 0 .. 255

\* answer has room for n bytes, and begins with text.
Begins(answer, text, n) ==
  /\ answer \in [1 .. n -> Cells]
  /\ text \in Seq(Cells)
  /\ Len(text) <= n
  /\ \A i \in 1 .. Len(text) : answer[i] = text[i]

LEMMA Allocated ==
  ASSUME NEW n \in Nat
  PROVE  Begins(malloc(n), <<>>, n)
BY DEF Begins, malloc, Cells, UNSET

\* What is copied behind the text makes it longer.
LEMMA Copied ==
  ASSUME NEW n \in Nat, NEW answer, NEW text, Begins(answer, text, n),
         NEW bytes \in Seq(Cells), NEW at \in Nat, at = Len(text), at + Len(bytes) <= n
  PROVE  Begins(memcpy(answer, at, bytes), text \o bytes, n)
<1> DEFINE longer == text \o bytes
           copy == memcpy(answer, at, bytes)
<1>1. /\ longer \in Seq(Cells)
      /\ Len(longer) = at + Len(bytes)
      /\ \A i \in 1 .. at : longer[i] = text[i]
      /\ \A i \in at + 1 .. at + Len(bytes) : longer[i] = bytes[i - at]
      /\ DOMAIN bytes = 1 .. Len(bytes)
      /\ Len(bytes) \in Nat
  BY DEF Begins
<1>2. DOMAIN answer = 1 .. n
  BY DEF Begins
<1>3. copy = [i \in 1 .. n |-> IF i - at \in DOMAIN bytes THEN bytes[i - at] ELSE answer[i]]
  BY <1>2 DEF memcpy
<1> HIDE DEF longer, copy
<1>4. ASSUME NEW i \in 1 .. n
      PROVE  copy[i] \in Cells
  <2>1. CASE i - at \in DOMAIN bytes
    BY <1>1, <1>3, <2>1
  <2>2. CASE i - at \notin DOMAIN bytes
    BY <1>3, <2>2 DEF Begins
  <2> QED
    BY <2>1, <2>2
<1>5. ASSUME NEW i \in 1 .. at + Len(bytes)
      PROVE  copy[i] = longer[i]
  <2>1. CASE i \in 1 .. at
    <3>1. i - at \notin DOMAIN bytes /\ i \in 1 .. n
      BY <1>1, <2>1
    <3>2. copy[i] = answer[i]
      BY <1>3, <3>1
    <3> QED
      BY <1>1, <2>1, <3>2 DEF Begins
  <2>2. CASE i \in at + 1 .. at + Len(bytes)
    <3>1. i - at \in DOMAIN bytes /\ i \in 1 .. n
      BY <1>1, <2>2
    <3> QED
      BY <1>1, <1>3, <2>2, <3>1
  <2> QED
    BY <1>1, <2>1, <2>2
<1>6. copy \in [1 .. n -> Cells]
  BY <1>3, <1>4
<1> QED
  BY <1>1, <1>5, <1>6 DEF Begins, longer, copy

\* A text that fills its room is the whole of it.
LEMMA Complete ==
  ASSUME NEW n \in Nat, NEW answer, NEW text, Begins(answer, text, n), Len(text) = n
  PROVE  answer = text
<1>1. text \in [1 .. n -> Cells]
  BY LenProperties DEF Begins
<1>2. answer \in [1 .. n -> Cells] /\ \A i \in 1 .. n : answer[i] = text[i]
  BY DEF Begins
<1> QED
  BY <1>1, <1>2

\* Less may be said of what is there.
LEMMA BeginsWithLess ==
  ASSUME NEW n \in Nat, NEW answer, NEW text \in Seq(Cells), NEW more \in Seq(Cells),
         Begins(answer, text \o more, n)
  PROVE  Begins(answer, text, n)
BY DEF Begins

\* The texts of the protocol that the proofs are about.
LEMMA Constants ==
  /\ CRLF \in Seq(Cells) /\ Len(CRLF) = 2
  /\ ERR_ \in Seq(Cells) /\ Len(ERR_) = 5
  /\ <<PLUS>> \in Seq(Cells) /\ Len(<<PLUS>>) = 1
  /\ <<COLON>> \in Seq(Cells) /\ Len(<<COLON>>) = 1
  /\ <<DOLLAR>> \in Seq(Cells) /\ Len(<<DOLLAR>>) = 1
BY DEF CRLF, ERR_, CR, LF, PLUS, COLON, DOLLAR, MINUS, Cells, UNSET

\* A sign and a text between it and the end of the line.
LEMMA FramedText ==
  ASSUME NEW sign \in Seq(Cells), Len(sign) = 1, NEW reqv, NEW text \in Seq(Cells),
         Behind(reqv, Len(text)) = text
  PROVE  Framed(sign, reqv, Len(text)) = sign \o text \o CRLF
<1> DEFINE n == Len(text) + 3
           first == memcpy(malloc(n), 0, sign)
           second == memcpy(first, 1, text)
           third == memcpy(second, n - 2, CRLF)
<1>1. /\ n \in Nat /\ n - 2 \in Nat /\ Len(text) \in Nat
      /\ 0 + Len(sign) <= n
      /\ 1 + Len(text) <= n
      /\ 1 + Len(text) = n - 2
      /\ (n - 2) + 2 = n
  OBVIOUS
<1>2. Framed(sign, reqv, Len(text)) = third
  BY DEF Framed
<1> HIDE DEF n
<1>3. Begins(first, sign, n)
  <2>1. Begins(malloc(n), <<>>, n) /\ 0 \in Nat /\ 0 = Len(<<>>)
    BY <1>1, Allocated
  <2>2. Begins(first, <<>> \o sign, n)
    BY <1>1, <2>1, Copied
  <2>3. <<>> \o sign = sign
    OBVIOUS
  <2> QED
    BY <2>2, <2>3
<1> HIDE DEF first
<1>4. Begins(second, sign \o text, n)
  BY <1>1, <1>3, Copied
<1> HIDE DEF second
<1>5. Len(sign \o text) = n - 2 /\ sign \o text \in Seq(Cells)
  <2>1. sign \o text \in Seq(Cells) /\ Len(sign \o text) = Len(sign) + Len(text)
    BY ConcatProperties
  <2> QED
    BY <1>1, <2>1
<1>6. Begins(third, (sign \o text) \o CRLF, n)
  <2>1. (n - 2) + Len(CRLF) <= n
    BY <1>1, Constants
  <2> QED
    BY <1>1, <1>4, <1>5, <2>1, Constants, Copied
<1>7. Len((sign \o text) \o CRLF) = n
  <2>1. Len((sign \o text) \o CRLF) = Len(sign \o text) + Len(CRLF)
    BY <1>5, Constants, ConcatProperties
  <2> QED
    BY <1>1, <1>5, <2>1, Constants
<1> HIDE DEF third
<1> QED
  BY <1>1, <1>2, <1>6, <1>7, Complete

\* What lies behind the type byte of an answer.
LEMMA BehindTheType ==
  ASSUME NEW type \in Cells, NEW text \in Seq(Cells), NEW rest \in Seq(Cells)
  PROVE  LET reqv == <<type>> \o text \o rest IN
         /\ reqv[1] = type
         /\ Len(reqv) = 1 + Len(text) + Len(rest)
         /\ Behind(reqv, Len(text)) = text
<1> DEFINE reqv == <<type>> \o text \o rest
<1>1. /\ reqv \in Seq(Cells)
      /\ Len(reqv) = 1 + Len(text) + Len(rest)
      /\ reqv[1] = type
      /\ \A i \in 1 .. Len(text) : reqv[i + 1] = text[i] /\ i + 1 \in 1 .. Len(reqv)
      /\ DOMAIN reqv = 1 .. Len(reqv)
  OBVIOUS
<1> HIDE DEF reqv
<1>2. Behind(reqv, Len(text)) = [i \in 1 .. Len(text) |-> text[i]]
  BY <1>1 DEF Behind
<1>3. text = [i \in 1 .. Len(text) |-> text[i]]
  OBVIOUS
<1> QED
  BY <1>1, <1>2, <1>3 DEF reqv

\* "+OK" and "+PONG" (CreateSimplStr).
LEMMA SimpleStringReply ==
  ASSUME NEW text \in Seq(Cells)
  PROVE  define_type_req(<<0>> \o text \o <<0>>) = SimpleString(text)
<1> DEFINE reqv == <<0>> \o text \o <<0>>
<1>1. 0 \in Cells /\ <<0>> \in Seq(Cells) /\ Len(<<0>>) = 1
  BY DEF Cells, UNSET
<1>2. /\ reqv[1] = 0
      /\ Len(reqv) = 1 + Len(text) + 1
      /\ Behind(reqv, Len(text)) = text
  BY <1>1, BehindTheType
<1> HIDE DEF reqv
<1>3. Len(reqv) - 2 = Len(text)
  BY <1>2
<1>4. CreateSimplStr(reqv) = <<PLUS>> \o text \o CRLF
  <2>1. Framed(<<PLUS>>, reqv, Len(text)) = <<PLUS>> \o text \o CRLF
    BY <1>2, FramedText, Constants, Zenon
  <2> QED
    BY <1>3, <2>1 DEF CreateSimplStr
<1>5. define_type_req(reqv) = CreateSimplStr(reqv)
  BY <1>2 DEF define_type_req
<1> QED
  BY <1>4, <1>5 DEF SimpleString, reqv

\* ":n" (CreateInt).
LEMMA IntegerReply ==
  ASSUME NEW n \in Nat
  PROVE  define_type_req(<<2>> \o Decimal[n]) = RespInteger(n)
<1> DEFINE text == Decimal[n]
           reqv == <<2>> \o text
<1>1. text \in Seq(Cells)
  BY DecimalIsDigits DEF Digits, Cells, UNSET
<1> HIDE DEF text
<1>2. 2 \in Cells /\ <<>> \in Seq(Cells) /\ Len(<<>>) = 0
  BY DEF Cells, UNSET
<1>3. reqv = <<2>> \o text \o <<>>
  BY <1>1, <1>2
<1> HIDE DEF reqv
<1>4. /\ reqv[1] = 2
      /\ Len(reqv) = 1 + Len(text) + 0
      /\ Behind(reqv, Len(text)) = text
  <2> DEFINE same == <<2>> \o text \o <<>>
  <2>1. /\ same[1] = 2
        /\ Len(same) = 1 + Len(text) + Len(<<>>)
        /\ Behind(same, Len(text)) = text
    BY <1>1, <1>2, BehindTheType, Zenon
  <2> HIDE DEF same
  <2>2. reqv = same
    BY <1>3 DEF same
  <2> QED
    BY <1>2, <2>1, <2>2
<1>5. Len(reqv) - 1 = Len(text)
  BY <1>1, <1>4
<1>6. CreateInt(reqv) = <<COLON>> \o text \o CRLF
  <2>1. Framed(<<COLON>>, reqv, Len(text)) = <<COLON>> \o text \o CRLF
    BY <1>1, <1>4, FramedText, Constants, Zenon
  <2> QED
    BY <1>5, <2>1 DEF CreateInt
<1>7. define_type_req(reqv) = CreateInt(reqv)
  BY <1>4 DEF define_type_req
<1> QED
  BY <1>6, <1>7 DEF RespInteger, reqv, text

\* "-ERR ..." (CreateErr): the byte too many that is copied is overwritten.
LEMMA ErrorReply ==
  ASSUME NEW text \in Seq(Cells)
  PROVE  define_type_req(<<1>> \o text) = SimpleError(<<69, 82, 82, 32>> \o text)
<1> DEFINE reqv == <<1>> \o text
           behind == text \o <<UNSET>>
           n == 7 + Len(text)
           first == memcpy(malloc(n), 0, ERR_)
           second == memcpy(first, 5, behind)
           third == memcpy(second, n - 2, CRLF)
<1>1. /\ reqv[1] = 1
      /\ Len(reqv) = 1 + Len(text)
      /\ DOMAIN reqv = 1 .. Len(reqv)
      /\ \A i \in 1 .. Len(text) : reqv[i + 1] = text[i] /\ i + 1 \in 1 .. Len(reqv)
      /\ Len(text) \in Nat
  OBVIOUS
<1> HIDE DEF reqv
<1>2. /\ UNSET \in Cells /\ <<UNSET>> \in Seq(Cells)
      /\ behind \in Seq(Cells) /\ Len(behind) = Len(text) + 1
      /\ \A i \in 1 .. Len(text) : behind[i] = text[i]
      /\ behind[Len(text) + 1] = UNSET
  BY DEF Cells, UNSET
<1> HIDE DEF behind
<1>3. Behind(reqv, Len(reqv)) = behind
  <2>1. \A i \in 1 .. Len(text) + 1 : i \in 1 .. Len(text) \/ i = Len(text) + 1
    BY <1>1
  <2>2. (Len(text) + 1) + 1 \notin 1 .. Len(reqv)
    BY <1>1
  <2>3. \A i \in 1 .. Len(text) + 1 :
          (IF i + 1 \in DOMAIN reqv THEN reqv[i + 1] ELSE UNSET) = behind[i]
    BY <1>1, <1>2, <2>1, <2>2
  <2>4. Behind(reqv, Len(reqv)) = [i \in 1 .. Len(text) + 1 |-> behind[i]]
    <3>1. 1 .. Len(reqv) = 1 .. Len(text) + 1
      BY <1>1
    <3> QED
      BY <2>3, <3>1 DEF Behind
  <2>5. behind = [i \in 1 .. Len(text) + 1 |-> behind[i]]
    BY <1>2
  <2> QED
    BY <2>4, <2>5
<1>4. /\ n \in Nat /\ n - 2 \in Nat
      /\ n = 5 + Len(reqv) + 2 - 1
      /\ 0 + Len(ERR_) <= n
      /\ 5 + Len(behind) <= n
      /\ 5 + Len(text) = n - 2
      /\ (n - 2) + Len(CRLF) = n
  BY <1>1, <1>2, Constants
<1>5. define_type_req(reqv) = third
  <2>1. define_type_req(reqv) = CreateErr(reqv)
    BY <1>1 DEF define_type_req
  <2> HIDE DEF n
  <2> QED
    BY <1>3, <1>4, <2>1, Zenon DEF CreateErr
<1> HIDE DEF n
<1>6. Begins(first, ERR_, n)
  <2>1. Begins(malloc(n), <<>>, n) /\ 0 \in Nat /\ 0 = Len(<<>>)
    BY <1>4, Allocated
  <2>2. Begins(first, <<>> \o ERR_, n)
    BY <1>4, <2>1, Constants, Copied
  <2>3. <<>> \o ERR_ = ERR_
    BY Constants, ConcatEmptySeq
  <2> QED
    BY <2>2, <2>3
<1> HIDE DEF first
<1>7. Begins(second, ERR_ \o text, n)
  <2>1. Begins(second, ERR_ \o behind, n)
    BY <1>2, <1>4, <1>6, Constants, Copied
  <2>2. ERR_ \o behind = (ERR_ \o text) \o <<UNSET>>
    BY <1>2, Constants, ConcatAssociative DEF behind
  <2>3. ERR_ \o text \in Seq(Cells)
    BY Constants, ConcatProperties
  <2> HIDE DEF second
  <2> QED
    BY <1>2, <1>4, <2>1, <2>2, <2>3, BeginsWithLess
<1> HIDE DEF second
<1>8. Len(ERR_ \o text) = n - 2 /\ ERR_ \o text \in Seq(Cells)
  <2>1. ERR_ \o text \in Seq(Cells) /\ Len(ERR_ \o text) = Len(ERR_) + Len(text)
    BY Constants, ConcatProperties
  <2> QED
    BY <1>4, <2>1, Constants
<1>9. Begins(third, (ERR_ \o text) \o CRLF, n)
  <2>1. (n - 2) + Len(CRLF) <= n
    BY <1>4
  <2> QED
    BY <1>4, <1>7, <1>8, <2>1, Constants, Copied
<1>10. Len((ERR_ \o text) \o CRLF) = n
  <2>1. Len((ERR_ \o text) \o CRLF) = Len(ERR_ \o text) + Len(CRLF)
    BY <1>8, Constants, ConcatProperties
  <2> QED
    BY <1>4, <1>8, <2>1
<1> HIDE DEF third
<1>11. third = (ERR_ \o text) \o CRLF
  BY <1>4, <1>9, <1>10, Complete
<1>12. ERR_ \o text = <<MINUS>> \o (<<69, 82, 82, 32>> \o text)
  <2>1. ERR_ = <<MINUS>> \o <<69, 82, 82, 32>>
    BY DEF ERR_
  <2>2. <<MINUS>> \in Seq(Cells) /\ <<69, 82, 82, 32>> \in Seq(Cells)
    BY DEF MINUS, Cells, UNSET
  <2> QED
    BY <2>1, <2>2, ConcatAssociative
<1> QED
  BY <1>5, <1>11, <1>12 DEF SimpleError, reqv

\* The size line of a bulk string.
LEMMA SizeLine ==
  ASSUME NEW size \in Seq(Cells), NEW n \in Nat, 3 + Len(size) <= n
  PROVE  Begins(memcpy(memcpy(memcpy(malloc(n), 0, <<DOLLAR>>), 1, size), 1 + Len(size), CRLF),
                <<DOLLAR>> \o size \o CRLF, n)
<1> DEFINE sign == <<DOLLAR>>
           first == memcpy(malloc(n), 0, sign)
           second == memcpy(first, 1, size)
           third == memcpy(second, 1 + Len(size), CRLF)
<1>1. /\ Len(size) \in Nat /\ 1 + Len(size) \in Nat
      /\ sign \in Seq(Cells) /\ Len(sign) = 1
      /\ 0 + Len(sign) <= n
      /\ 1 + Len(size) <= n
      /\ (1 + Len(size)) + Len(CRLF) <= n
  BY Constants
<1> HIDE DEF sign
<1>2. Begins(first, sign, n)
  <2>1. Begins(malloc(n), <<>>, n) /\ 0 \in Nat /\ 0 = Len(<<>>)
    BY Allocated
  <2>2. Begins(first, <<>> \o sign, n)
    BY <1>1, <2>1, Copied
  <2>3. <<>> \o sign = sign
    BY <1>1
  <2> QED
    BY <2>2, <2>3
<1> HIDE DEF first
<1>3. Begins(second, sign \o size, n)
  BY <1>1, <1>2, Copied
<1> HIDE DEF second
<1>4. Len(sign \o size) = 1 + Len(size) /\ sign \o size \in Seq(Cells)
  <2>1. sign \o size \in Seq(Cells) /\ Len(sign \o size) = Len(sign) + Len(size)
    BY <1>1, ConcatProperties
  <2> QED
    BY <1>1, <2>1
<1>5. Begins(third, (sign \o size) \o CRLF, n)
  BY <1>1, <1>3, <1>4, Constants, Copied
<1> QED
  BY <1>5 DEF third, second, first, sign

\* "$-1", the answer for a missing value (CreateStr).
LEMMA NullReply == define_type_req(<<3>>) = NullBulkString
<1> DEFINE size == <<MINUS, 49>>
           text == <<DOLLAR>> \o size \o CRLF
           head == memcpy(memcpy(memcpy(malloc(5), 0, <<DOLLAR>>), 1, size), 1 + 2, CRLF)
<1>1. define_type_req(<<3>>) = CreateStr(<<3>>)
  BY DEF define_type_req
<1>2. CreateStr(<<3>>) = head
  BY DEF CreateStr
<1>3. size \in Seq(Cells) /\ Len(size) = 2
  BY DEF MINUS, Cells, UNSET
<1>4. Len(text) = 5 /\ text = NullBulkString
  <2>1. Len(text) = 1 + 2 + 2
    BY DEF CRLF
  <2>2. text = NullBulkString
    BY DEF NullBulkString
  <2> QED
    BY <2>1, <2>2
<1> HIDE DEF size
<1>5. Begins(head, text, 5)
  <2>1. 3 + Len(size) <= 5 /\ 1 + Len(size) = 1 + 2
    BY <1>3
  <2>2. Begins(memcpy(memcpy(memcpy(malloc(5), 0, <<DOLLAR>>), 1, size), 1 + Len(size), CRLF), text, 5)
    BY <1>3, <2>1, SizeLine
  <2> QED
    BY <2>1, <2>2
<1> HIDE DEF head, text
<1>6. head = text
  BY <1>4, <1>5, Complete
<1> QED
  BY <1>1, <1>2, <1>4, <1>6

\* "$n", the value and the end of its line (CreateStr).
LEMMA ValueReply ==
  ASSUME NEW text \in Seq(Cells), text # <<>>
  PROVE  define_type_req(<<3>> \o text \o <<0>>) = BulkString(text)
<1> DEFINE reqv == <<3>> \o text \o <<0>>
           size == Decimal[Len(text)]
           line == <<DOLLAR>> \o size \o CRLF
           n == Len(text) + (1 + Len(size) + 2 + 2)
           head == memcpy(memcpy(memcpy(malloc(n), 0, <<DOLLAR>>), 1, size), 1 + Len(size), CRLF)
           body == memcpy(head, 1 + Len(size) + 2, text)
           whole == memcpy(body, n - 2, CRLF)
<1>1. 0 \in Cells /\ 3 \in Cells /\ <<0>> \in Seq(Cells) /\ Len(<<0>>) = 1
  BY DEF Cells, UNSET
<1>2. /\ reqv[1] = 3
      /\ Len(reqv) = 1 + Len(text) + 1
      /\ Behind(reqv, Len(text)) = text
  BY <1>1, BehindTheType, ZenonT(40)
<1> HIDE DEF reqv
<1>3. Len(text) \in Nat /\ Len(text) # 0
  OBVIOUS
<1>4. size \in Seq(Cells) /\ Len(size) \in Nat
  BY <1>3, DecimalIsDigits DEF Digits, Cells, UNSET
<1>5. define_type_req(reqv) = CreateStr(reqv)
  BY <1>2 DEF define_type_req
<1> HIDE DEF size
<1>6. CreateStr(reqv) = whole
  <2>1. Len(reqv) # 1 /\ Len(reqv) - 2 = Len(text)
    BY <1>2, <1>3
  <2> QED
    BY <1>2, <1>3, <2>1, Zenon DEF CreateStr, size
<1>7. /\ n \in Nat /\ n - 2 \in Nat
      /\ 3 + Len(size) <= n
      /\ 1 + Len(size) + 2 \in Nat
      /\ 1 + Len(size) + 2 + Len(text) <= n
      /\ 1 + Len(size) + 2 + Len(text) = n - 2
      /\ (n - 2) + Len(CRLF) = n
  BY <1>3, <1>4, Constants
<1> HIDE DEF n
<1>8. Begins(head, line, n)
  BY <1>4, <1>7, SizeLine
<1>9. line \in Seq(Cells) /\ Len(line) = 1 + Len(size) + 2
  <2>1. /\ <<DOLLAR>> \o size \in Seq(Cells)
        /\ Len(<<DOLLAR>> \o size) = 1 + Len(size)
    BY <1>4, Constants, ConcatProperties
  <2>2. /\ line \in Seq(Cells)
        /\ Len(line) = Len(<<DOLLAR>> \o size) + Len(CRLF)
    <3> DEFINE start == <<DOLLAR>> \o size
    <3>1. start \in Seq(Cells)
      BY <2>1
    <3> HIDE DEF start
    <3>2. start \o CRLF \in Seq(Cells) /\ Len(start \o CRLF) = Len(start) + Len(CRLF)
      BY <3>1, Constants, ConcatProperties
    <3> QED
      BY <3>2 DEF start
  <2> QED
    BY <2>1, <2>2, Constants
<1> HIDE DEF head, line
<1>10. Begins(body, line \o text, n)
  BY <1>7, <1>8, <1>9, Copied
<1>11. line \o text \in Seq(Cells) /\ Len(line \o text) = n - 2
  <2>1. line \o text \in Seq(Cells) /\ Len(line \o text) = Len(line) + Len(text)
    BY <1>9, ConcatProperties
  <2> QED
    BY <1>7, <1>9, <2>1
<1> HIDE DEF body
<1>12. Begins(whole, (line \o text) \o CRLF, n)
  <2>1. (n - 2) + Len(CRLF) <= n
    BY <1>7
  <2> QED
    BY <1>7, <1>10, <1>11, <2>1, Constants, Copied
<1>13. Len((line \o text) \o CRLF) = n
  <2>1. Len((line \o text) \o CRLF) = Len(line \o text) + Len(CRLF)
    BY <1>11, Constants, ConcatProperties
  <2> QED
    BY <1>7, <1>11, <2>1
<1> HIDE DEF whole
<1>14. whole = (line \o text) \o CRLF
  BY <1>7, <1>12, <1>13, Complete
<1> QED
  BY <1>5, <1>6, <1>14 DEF BulkString, reqv, line, size

-----------------------------------------------------------------------------
(***************************************************************************)
(* Types. A DEL counts at most as many keys as it has gone through.        *)
(***************************************************************************)

LEMMA LongestDelIsLongest ==
  /\ LongestDel \in Nat
  /\ \A keys \in KeyLists : Len(keys) <= LongestDel
<1> DEFINE lens == {Len(keys) : keys \in KeyLists}
           S == {0} \cup lens
<1>1. lens \subseteq Nat
  BY CommandsAssumption
<1>2. IsFiniteSet(lens)
  <2>1. [keys \in KeyLists |-> Len(keys)] \in Surjection(KeyLists, lens)
    BY DEF Surjection
  <2> QED
    BY <2>1, CommandsAssumption, FS_Surjection
<1>3. IsFiniteSet(lens \cup {0})
  BY <1>2, FS_AddElement
<1>4. S = lens \cup {0} /\ S \in SUBSET Nat /\ S # {}
  BY <1>1
<1>5. PICK m \in S : \A n \in S : n <= m
  <2> HIDE DEF S
  <2> QED
    BY <1>3, <1>4, GreatestElement
<1>6. \A n \in S : m >= n
  BY <1>4, <1>5
<1>7. Max(S) \in S /\ \A n \in S : Max(S) >= n
  <2> HIDE DEF S
  <2> QED
    BY <1>6 DEF Max
<1>8. LongestDel = Max(S)
  BY DEF LongestDel
<1> HIDE DEF S
<1>9. ASSUME NEW keys \in KeyLists PROVE Len(keys) <= LongestDel
  <2>1. Len(keys) \in S
    BY <1>4
  <2>2. Len(keys) \in Nat /\ LongestDel \in Nat
    BY <1>4, <1>7, <1>8, <2>1
  <2> QED
    BY <1>7, <1>8, <2>1, <2>2
<1> QED
  BY <1>4, <1>7, <1>8, <1>9

LEMMA AnswerTypes ==
  /\ \A x \in Contents : ValueAnswer(x) \in Seq(Byte)
  /\ \A x \in Values : TextOf[x] \in Seq(Byte) /\ TextOf[x] # <<>>
  /\ \A n \in Nat : <<2>> \o Decimal[n] \in Seq(Byte)
  /\ OK \in Seq(Byte) /\ PONG \in Seq(Byte)
  /\ \A type \in DOMAIN Message : Message[type] \in Seq(Byte)
<1>1. \A x \in Values : TextOf[x] \in Seq(Byte) /\ TextOf[x] # <<>>
  <2>1. \A x \in Values : TextOf[x] \in Seq(1 .. 255) /\ TextOf[x] # <<>>
    BY CommandsAssumption
  <2>2. 1 .. 255 \subseteq Byte
    BY DEF Byte
  <2> QED
    BY <2>1, <2>2, SeqMonotonic
<1>2. \A x \in Contents : ValueAnswer(x) \in Seq(Byte)
  <2>1. <<3>> \in Seq(Byte) /\ <<0>> \in Seq(Byte)
    BY DEF Byte
  <2> QED
    BY <1>1, <2>1, ConcatProperties DEF ValueAnswer, Contents
<1>3. ASSUME NEW n \in Nat PROVE <<2>> \o Decimal[n] \in Seq(Byte)
  <2>1. Decimal[n] \in Seq(Byte) /\ <<2>> \in Seq(Byte)
    BY DecimalIsDigits, SeqMonotonic DEF Digits, Byte
  <2> QED
    BY <2>1, ConcatProperties
<1>4. OK \in Seq(Byte) /\ PONG \in Seq(Byte)
  BY DEF OK, PONG, Byte
<1>5. Message["SYNTAX"] \in Seq(Byte)
  BY DEF Message, Byte
<1>6. Message["UNKNOWN"] \in Seq(Byte)
  BY DEF Message, Byte
<1>7. DOMAIN Message = {"SYNTAX", "UNKNOWN"}
  BY DEF Message
<1> QED
  BY <1>1, <1>2, <1>3, <1>4, <1>5, <1>6, <1>7

\* The first key of a list is deleted, after n others were counted.
LEMMA DeleteTypes ==
  ASSUME IInv', pg_answer \in Seq(Byte),
         NEW keys \in Seq(Keys), keys # <<>>, Len(keys) <= LongestDel,
         NEW n \in 0 .. LongestDel - Len(keys), Delete(keys, n)
  PROVE  /\ deleting' \in Seq(Keys)
         /\ successful_deletions' \in 0 .. LongestDel - Len(deleting')
         /\ pg_answer' \in Seq(Byte)
<1>1. /\ Len(keys) \in Nat \ {0} /\ LongestDel \in Nat
      /\ Tail(keys) \in Seq(Keys)
      /\ Len(Tail(keys)) = Len(keys) - 1
      /\ deleting' = Tail(keys)
  BY LongestDelIsLongest DEF Delete
<1> DEFINE m == Counted(n, reply'.existed)
<1>2. m = n \/ m = n + 1
  BY DEF Counted
<1>3. m \in Nat /\ m \in 0 .. LongestDel - Len(Tail(keys))
  BY <1>1, <1>2
<1> HIDE DEF m
<1>4. CASE Tail(keys) = <<>> /\ pg_answer' = <<2>> \o Decimal[m] /\ successful_deletions' = 0
  BY <1>1, <1>3, <1>4, AnswerTypes
<1>5. CASE successful_deletions' = m /\ UNCHANGED pg_answer
  BY <1>1, <1>3, <1>5
<1> QED
  BY <1>4, <1>5 DEF Delete, m

\* The value that a GET has found.
LEMMA GetAnswer ==
  ASSUME IInv', NEW k \in Keys, process_get(k)
  PROVE  reply'.value \in Contents
<1>1. \E x : reply' = GetReply(k, x)
  BY DEF process_get, req_get
<1>2. reply'.op = "GET"
  BY <1>1 DEF GetReply
<1>3. reply' \in Replies
  BY DEF IInv, TypeOK
<1> QED
  BY <1>2, <1>3 DEF Replies, NoReply

LEMMA CommandsTypeInit == CInit => CommandsTypeOK
<1> SUFFICES ASSUME CInit PROVE CommandsTypeOK
  OBVIOUS
<1>1. LongestDel \in Nat
  BY LongestDelIsLongest
<1>2. /\ request = "none" /\ pg_answer = <<>> /\ deleting = <<>>
      /\ successful_deletions = 0 /\ expected = 0
  BY DEF CInit, NULL
<1> QED
  BY <1>1, <1>2 DEF CommandsTypeOK

LEMMA CommandsTypeStep ==
  ASSUME IInv, CommandsTypeOK, [CNext]_cvars
  PROVE  IInv' /\ CommandsTypeOK'
<1>1. IInv'
  <2>1. CASE CNext
    BY <2>1, CommandIsStep, StoreStepTypes DEF CommandsTypeOK
  <2>2. CASE UNCHANGED cvars
    BY <2>2, NextPreserves DEF cvars, hvars
  <2> QED
    BY <2>1, <2>2
<1>2. LongestDel \in Nat /\ Byte = 0 .. 255
  BY LongestDelIsLongest DEF Byte
<1>3. ASSUME NotDeleting, request' \in {"none", "GET", "SET", "PING", "COMMAND", "SYNTAX", "UNKNOWN"},
             pg_answer' \in Seq(Byte)
      PROVE  CommandsTypeOK'
  <2>1. Len(<<>>) = 0 /\ <<>> \in Seq(Keys)
    OBVIOUS
  <2> QED
    BY <1>2, <1>3, <2>1 DEF NotDeleting, CommandsTypeOK
<1>4. ASSUME NEW k \in Keys, process_get(k) PROVE CommandsTypeOK'
  <2>1. reply'.value \in Contents
    BY <1>1, <1>4, GetAnswer
  <2>2. pg_answer' \in Seq(Byte)
    BY <1>4, <2>1, AnswerTypes DEF process_get
  <2> QED
    BY <1>3, <1>4, <2>2 DEF process_get, Begin
<1>5. ASSUME NEW k \in Keys, NEW v \in Values, process_set(k, v) PROVE CommandsTypeOK'
  <2>1. <<0>> \in Seq(Byte)
    BY DEF Byte
  <2>2. <<0>> \o OK \o <<0>> \in Seq(Byte)
    BY <2>1, AnswerTypes, ConcatProperties
  <2> QED
    BY <1>3, <1>5, <2>2 DEF process_set, Begin
<1>6. ASSUME NEW keys \in KeyLists, process_del(keys) PROVE CommandsTypeOK'
  <2> DEFINE present == {k \in Range(keys) : acked[k] # Absent}
  <2>1. keys \in Seq(Keys) /\ keys # <<>> /\ Len(keys) <= LongestDel /\ Len(keys) \in Nat
    BY CommandsAssumption, LongestDelIsLongest
  <2>2. 0 \in 0 .. LongestDel - Len(keys)
    BY <1>2, <2>1
  <2>3. /\ deleting' \in Seq(Keys)
        /\ successful_deletions' \in 0 .. LongestDel - Len(deleting')
        /\ pg_answer' \in Seq(Byte)
    BY <1>1, <1>2, <1>6, <2>1, <2>2, DeleteTypes DEF process_del, CommandsTypeOK
  <2>4. Cardinality(present) \in Nat /\ Cardinality(present) <= Len(keys)
    <3>1. keys \in Surjection(1 .. Len(keys), Range(keys))
      BY <2>1 DEF Surjection, Range
    <3>2. IsFiniteSet(1 .. Len(keys)) /\ Cardinality(1 .. Len(keys)) = Len(keys)
      <4>1. /\ IsFiniteSet(1 .. Len(keys))
            /\ Cardinality(1 .. Len(keys)) = IF 1 > Len(keys) THEN 0 ELSE Len(keys) - 1 + 1
        BY <2>1, FS_Interval
      <4> QED
        BY <2>1, <4>1
    <3>3. IsFiniteSet(Range(keys)) /\ Cardinality(Range(keys)) <= Len(keys)
      BY <3>1, <3>2, FS_Surjection
    <3>4. IsFiniteSet(present) /\ Cardinality(present) <= Cardinality(Range(keys))
      BY <3>3, FS_Subset
    <3>5. Cardinality(present) \in Nat /\ Cardinality(Range(keys)) \in Nat
      BY <3>3, <3>4, FS_CardinalityType
    <3> HIDE DEF present
    <3> QED
      BY <2>1, <3>3, <3>4, <3>5
  <2>5. expected' = Cardinality(present) /\ request' = "DEL"
    BY <1>6 DEF process_del, Begin
  <2> HIDE DEF present
  <2>6. expected' \in 0 .. LongestDel
    BY <1>2, <2>1, <2>4, <2>5
  <2> QED
    BY <1>2, <2>3, <2>5, <2>6 DEF CommandsTypeOK
<1>7. CASE DeleteNext
  <2>1. Len(deleting) <= LongestDel
    BY <1>2 DEF CommandsTypeOK
  <2>2. /\ deleting' \in Seq(Keys)
        /\ successful_deletions' \in 0 .. LongestDel - Len(deleting')
        /\ pg_answer' \in Seq(Byte)
    BY <1>1, <1>2, <1>7, <2>1, DeleteTypes DEF DeleteNext, CommandsTypeOK
  <2>3. request' = request /\ expected' = expected
    BY <1>7 DEF DeleteNext
  <2>4. CommandsTypeOK
    OBVIOUS
  <2> QED
    BY <1>1, <1>2, <2>2, <2>3, <2>4 DEF CommandsTypeOK
<1>8. CASE process_command
  <2>1. NotDeleting /\ request' = "COMMAND" /\ pg_answer' = pg_answer
    BY <1>8 DEF process_command, WithoutData, Begin
  <2>2. pg_answer' \in Seq(Byte)
    BY <1>2, <2>1 DEF CommandsTypeOK
  <2> QED
    BY <1>1, <1>3, <2>1, <2>2
<1>9. CASE process_ping
  <2>1. <<0>> \in Seq(Byte)
    BY DEF Byte
  <2>2. <<0>> \o PONG \o <<0>> \in Seq(Byte)
    BY <2>1, AnswerTypes, ConcatProperties
  <2>3. NotDeleting /\ request' = "PING" /\ pg_answer' = <<0>> \o PONG \o <<0>>
    BY <1>9 DEF process_ping, WithoutData, Begin
  <2> QED
    BY <1>1, <1>3, <2>2, <2>3
<1>10. ASSUME NEW type \in DOMAIN Message, process_error(type) PROVE CommandsTypeOK'
  <2>1. <<1>> \in Seq(Byte)
    BY DEF Byte
  <2>2. <<1>> \o Message[type] \in Seq(Byte)
    BY <2>1, AnswerTypes, ConcatProperties
  <2>3. type \in {"SYNTAX", "UNKNOWN"}
    BY DEF Message
  <2> QED
    BY <1>3, <1>10, <2>2, <2>3 DEF process_error, WithoutData, Begin
<1>11. CASE EndOfRead \/ on_timer_timeout_cb \/ WorkerEnds \/ Restart
  <2>1. Forgotten
    BY <1>11 DEF EndOfRead, on_timer_timeout_cb, WorkerEnds, Restart
  <2>2. <<>> \in Seq(Byte)
    OBVIOUS
  <2>3. NotDeleting /\ request' = "none" /\ pg_answer' = <<>>
    BY <2>1 DEF Forgotten, NULL
  <2> QED
    BY <1>1, <1>3, <2>2, <2>3
<1>12. CASE UNCHANGED cvars
  <2>1. /\ request' = request /\ pg_answer' = pg_answer /\ deleting' = deleting
        /\ successful_deletions' = successful_deletions /\ expected' = expected
    BY <1>12 DEF cvars, delVars
  <2>2. CommandsTypeOK
    OBVIOUS
  <2> QED
    BY <1>1, <2>1, <2>2 DEF CommandsTypeOK
<1> QED
  BY <1>1, <1>4, <1>5, <1>6, <1>7, <1>8, <1>9, <1>10, <1>11, <1>12
     DEF CNext, process_redis_to_postgres

\* The command layer is well-typed: a DEL counts no more keys than it has gone
\* through, and what is answered is made of bytes.
THEOREM CommandsTypeCorrect == CSpec => []CommandsTypeOK
<1>1. CInit => IInv /\ CommandsTypeOK
  BY InitInvariant, CommandsTypeInit DEF CInit, HInit
<1>2. IInv /\ CommandsTypeOK /\ [CNext]_cvars => IInv' /\ CommandsTypeOK'
  BY CommandsTypeStep
<1> QED
  BY <1>1, <1>2, PTL DEF CSpec

-----------------------------------------------------------------------------
(***************************************************************************)
(* The end of the worker, and what a GET may miss, with large values too.  *)
(***************************************************************************)

CKInv == KInv /\ CommandsTypeOK

LEMMA CKNextPreserves == CKInv /\ [CNext]_cvars => CKInv'
<1> SUFFICES ASSUME CKInv, [CNext]_cvars PROVE CKInv'
  OBVIOUS
<1>1. CommandsTypeOK'
  BY CommandsTypeStep DEF CKInv, KInv
<1>2. ASSUME HNext \/ UNCHANGED hvars PROVE KInv'
  BY <1>2, KNextPreserves DEF CKInv
<1>3. CASE WithoutStore
  <2>1. IInv'
    BY <1>3, StoreStepTypes DEF CKInv, KInv
  <2>2. View' = View
    BY <1>3 DEF WithoutStore, View, check_hash_table, Caching
  <2>3. KInv'
    BY <1>3, <2>1, <2>2
       DEF CKInv, KInv, WithoutStore, NoReply, ReplyIsAcked, ViewIsKept, RowsAreKept, Kept
  <2> QED
    BY <1>1, <2>3 DEF CKInv
<1>4. UNCHANGED cvars => UNCHANGED hvars
  BY DEF cvars
<1>5. deleting \in Seq(Keys)
  BY DEF CKInv, CommandsTypeOK
<1> QED
  BY <1>1, <1>2, <1>3, <1>4, <1>5, CommandIsStep DEF CKInv

LEMMA CKInvariant == CSpec => []CKInv
<1>1. CInit => CKInv
  BY KInitInvariant, CommandsTypeInit DEF CInit, CKInv
<1> QED
  BY <1>1, CKNextPreserves, PTL DEF CSpec

\* However the worker ends, between two deletions of a DEL too, the waiting
\* operations are in the database all together or not at all.
THEOREM CommandsKeepBatches == CSpec => CrashKeepsWholeBatches
<1>1. CKInv /\ [CNext]_cvars => [worker = "up" /\ worker' = "down" => WholeBatches]_hvars
  <2>1. ASSUME CKInv, HNext PROVE worker = "up" /\ worker' = "down" => WholeBatches
    BY <2>1, EndKeepsBatches DEF CKInv
  <2>2. ASSUME WithoutStore PROVE worker' = worker
    BY <2>2 DEF WithoutStore
  <2>3. UNCHANGED cvars => UNCHANGED hvars
    BY DEF cvars
  <2> QED
    BY <2>1, <2>2, <2>3, CommandIsStep DEF CKInv, CommandsTypeOK
<1> QED
  BY <1>1, CKInvariant, PTL DEF CSpec, CrashKeepsWholeBatches, WholeBatches

\* A GET command misses the last value of its key only while that is a large one.
THEOREM CommandsMissOnlyLargeValues == CSpec => StaleOnlyBehindLarge
<1>1. CKInv /\ [CNext]_cvars =>
        [reply' # reply /\ reply'.op = "GET" => Kept(reply'.value, reply'.key)]_hvars
  <2>1. ASSUME CKInv, HNext
        PROVE  reply' # reply /\ reply'.op = "GET" => Kept(reply'.value, reply'.key)
    BY <2>1, AnswerIsKept DEF CKInv
  <2>2. ASSUME WithoutStore PROVE reply'.op # "GET"
    BY <2>2 DEF WithoutStore, NoReply
  <2>3. UNCHANGED cvars => UNCHANGED hvars
    BY DEF cvars
  <2> QED
    BY <2>1, <2>2, <2>3, CommandIsStep DEF CKInv, CommandsTypeOK
<1> QED
  BY <1>1, CKInvariant, PTL DEF CSpec, StaleOnlyBehindLarge

-----------------------------------------------------------------------------
(***************************************************************************)
(* What is answered. pg_answer is the one of the request answered last: the*)
(* only request that leaves it alone is COMMAND.                           *)
(***************************************************************************)

AnswerOfRequest ==
  deleting = <<>> =>
    /\ request = "GET" => reply.value \in Contents /\ pg_answer = ValueAnswer(reply.value)
    /\ request = "SET" => pg_answer = <<0>> \o OK \o <<0>>
    /\ request = "PING" => pg_answer = <<0>> \o PONG \o <<0>>
    /\ request \in DOMAIN Message => pg_answer = <<1>> \o Message[request]

LEMMA AnswerPreserved ==
  ASSUME IInv', AnswerOfRequest, [CNext]_cvars, deleting # <<>> => request = "DEL"
  PROVE  AnswerOfRequest' /\ (deleting' # <<>> => request' = "DEL")
<1>0. DOMAIN Message = {"SYNTAX", "UNKNOWN"}
  BY DEF Message
<1>1. ASSUME NEW k \in Keys, process_get(k)
      PROVE  AnswerOfRequest' /\ deleting' = <<>>
  <2>1. reply'.value \in Contents
    BY <1>1, GetAnswer
  <2> QED
    BY <1>0, <1>1, <2>1 DEF process_get, Begin, NotDeleting, AnswerOfRequest
<1>2. ASSUME NEW k \in Keys, NEW v \in Values, process_set(k, v)
      PROVE  AnswerOfRequest' /\ deleting' = <<>>
  BY <1>0, <1>2 DEF process_set, Begin, NotDeleting, AnswerOfRequest
<1>3. ASSUME NEW keys \in KeyLists, process_del(keys)
      PROVE  AnswerOfRequest' /\ request' = "DEL"
  BY <1>0, <1>3 DEF process_del, Begin, AnswerOfRequest
<1>4. CASE DeleteNext
  BY <1>0, <1>4 DEF DeleteNext, AnswerOfRequest
<1>5. CASE process_command
  BY <1>0, <1>5 DEF process_command, WithoutData, Begin, NotDeleting, AnswerOfRequest
<1>6. CASE process_ping
  BY <1>0, <1>6 DEF process_ping, WithoutData, Begin, NotDeleting, AnswerOfRequest
<1>7. ASSUME NEW type \in DOMAIN Message, process_error(type)
      PROVE  AnswerOfRequest' /\ deleting' = <<>>
  BY <1>0, <1>7 DEF process_error, WithoutData, Begin, NotDeleting, AnswerOfRequest
<1>8. CASE EndOfRead \/ on_timer_timeout_cb \/ WorkerEnds \/ Restart
  BY <1>0, <1>8 DEF EndOfRead, on_timer_timeout_cb, WorkerEnds, Restart, Forgotten,
     NotDeleting, AnswerOfRequest
<1>9. CASE UNCHANGED cvars
  BY <1>9 DEF cvars, hvars, vars, delVars, AnswerOfRequest
<1> QED
  BY <1>1, <1>2, <1>3, <1>4, <1>5, <1>6, <1>7, <1>8, <1>9 DEF CNext, process_redis_to_postgres

\* Every request but COMMAND is answered with the message of the protocol for its
\* result, whatever bytes a value is made of (process_*, define_type_req).
THEOREM AnswersAreOfTheProtocol == CSpec => []AnswersAreWellFormed
<1> DEFINE Inv == /\ IInv /\ CommandsTypeOK /\ AnswerOfRequest
                  /\ deleting # <<>> => request = "DEL"
<1>1. CInit => Inv
  BY InitInvariant, CommandsTypeInit DEF CInit, HInit, AnswerOfRequest, Message
<1>2. Inv /\ [CNext]_cvars => Inv'
  BY CommandsTypeStep, AnswerPreserved
<1>3. Inv => AnswersAreWellFormed
  <2> SUFFICES ASSUME Inv, deleting = <<>> PROVE AnswersAreWellFormed
    BY DEF AnswersAreWellFormed
  <2>1. ASSUME NEW text \in Seq(Byte) PROVE text \in Seq(Cells)
    BY <2>1, SeqMonotonic DEF Byte, Cells, UNSET
  <2>2. ASSUME request = "GET"
        PROVE  rd_answer = IF reply.value = Absent THEN NullBulkString ELSE BulkString(TextOf[reply.value])
    <3>1. CASE reply.value = Absent
      BY <2>2, <3>1, NullReply DEF AnswerOfRequest, ValueAnswer, rd_answer
    <3>2. CASE reply.value # Absent
      <4>1. TextOf[reply.value] \in Seq(Cells) /\ TextOf[reply.value] # <<>>
        BY <2>1, <2>2, <3>2, AnswerTypes DEF AnswerOfRequest, Contents
      <4>2. pg_answer = <<3>> \o TextOf[reply.value] \o <<0>>
        BY <2>2, <3>2 DEF AnswerOfRequest, ValueAnswer
      <4> QED
        BY <3>2, <4>1, <4>2, ValueReply DEF rd_answer
    <3> QED
      BY <3>1, <3>2
  <2>3. request = "SET" => rd_answer = SimpleString(OK)
    BY <2>1, AnswerTypes, SimpleStringReply DEF AnswerOfRequest, rd_answer
  <2>4. request = "PING" => rd_answer = SimpleString(PONG)
    BY <2>1, AnswerTypes, SimpleStringReply DEF AnswerOfRequest, rd_answer
  <2>5. request \in DOMAIN Message =>
          rd_answer = SimpleError(<<69, 82, 82, 32>> \o Message[request])
    BY <2>1, AnswerTypes, ErrorReply DEF AnswerOfRequest, rd_answer
  <2> QED
    BY <2>2, <2>3, <2>4, <2>5 DEF AnswersAreWellFormed
<1> QED
  BY <1>1, <1>2, <1>3, PTL DEF CSpec

\* The integer that a DEL of several keys sends is the number of those that had a
\* value when it began (process_del, CreateInt).
THEOREM DelSendsItsCount ==
  ASSUME LargeValues = {}
  PROVE  CSpec => []DelCountsKeys
<1>1. CInv /\ DelAnswersExpected => DelCountsKeys
  BY IntegerReply DEF CInv, DelAnswersExpected, DelCountsKeys, rd_answer
<1> QED
  BY <1>1, CInitInvariant, CNextPreserves, PTL DEF CSpec
=============================================================================
