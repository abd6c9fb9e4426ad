--------------------------- MODULE EventLoopProofs ---------------------------
(***************************************************************************)
(* The event loop keeps replies whole and in order, its watchers in step   *)
(* with its answers, and its callbacks to open connections: proved for any *)
(* number of clients, requests and pieces, and any size of the buffers.    *)
(***************************************************************************)
EXTENDS EventLoop, SequenceTheorems, FiniteSetTheorems, WellFoundedInduction, TLAPS

-----------------------------------------------------------------------------
(***************************************************************************)
(* Numbers.                                                                *)
(***************************************************************************)

\* A set of naturals that is not empty has a least element.
LEMMA Least ==
  ASSUME NEW S \in SUBSET Nat, S # {}
  PROVE  \E m \in S : \A k \in S : m <= k
<1>1. PICK m \in S : \A k \in S : <<k, m>> \notin OpToRel(<, Nat)
  BY NatLessThanWellFounded, WFMin
<1>2. ASSUME NEW k \in S PROVE m <= k
  <2>1. <<k, m>> \in Nat \X Nat
    OBVIOUS
  <2>2. ~ (k < m)
    BY <1>1, <2>1 DEF OpToRel
  <2> QED
    BY <2>2
<1> QED
  BY <1>2

\* A bounded one has a greatest element.
LEMMA Greatest ==
  ASSUME NEW n \in Nat, NEW S \in SUBSET (1 .. n), S # {}
  PROVE  \E m \in S : \A k \in S : k <= m
<1> DEFINE T == {d \in 0 .. n : n - d \in S}
<1>1. T # {}
  <2>1. PICK k \in S : TRUE
    OBVIOUS
  <2>2. n - k \in 0 .. n /\ n - (n - k) = k
    OBVIOUS
  <2>3. n - k \in T
    BY <2>1, <2>2
  <2> QED
    BY <2>3
<1>2. T \in SUBSET Nat
  OBVIOUS
<1>3. PICK d \in T : \A e \in T : d <= e
  BY <1>1, <1>2, Least
<1>4. ASSUME NEW k \in S PROVE k <= n - d
  <2>1. n - k \in 0 .. n /\ n - (n - k) = k
    OBVIOUS
  <2>2. n - k \in T
    BY <2>1
  <2>3. d <= n - k
    BY <1>3, <2>2
  <2> QED
    BY <1>3, <2>3
<1> QED
  BY <1>3, <1>4

\* Products grow with their factors.
LEMMA ProductGrows ==
  ASSUME NEW a \in Nat, NEW b \in Nat, NEW r \in Nat \ {0}
  PROVE  /\ a * r \in Nat
         /\ a <= b => a * r <= b * r
         /\ a < b => a * r + r <= b * r
         /\ (a + b) * r = a * r + b * r
<1>1. /\ a * r \in Nat
      /\ (a + b) * r = a * r + b * r
  OBVIOUS
<1>2. ASSUME a <= b PROVE a * r <= b * r
  <2>1. PICK d \in Nat : b = a + d
    BY <1>2
  <2>2. b * r = a * r + d * r /\ d * r \in Nat
    BY <2>1
  <2> QED
    BY <1>1, <2>2
<1>3. ASSUME a < b PROVE a * r + r <= b * r
  <2>1. PICK d \in Nat : b = (a + 1) + d
    BY <1>3
  <2>2. b * r = (a * r + r) + d * r /\ d * r \in Nat
    BY <2>1
  <2> QED
    BY <1>1, <2>2
<1> QED
  BY <1>1, <1>2, <1>3

\* Quotient and remainder, and that there is only one of each.
LEMMA Division ==
  ASSUME NEW x \in Nat, NEW r \in Nat \ {0}
  PROVE  /\ x \div r \in Nat
         /\ x % r \in 0 .. r - 1
         /\ x = (x \div r) * r + (x % r)
         /\ \A q \in Nat, m \in 0 .. r - 1 : x = q * r + m => q = x \div r /\ m = x % r
<1>1. /\ x \div r \in Nat
      /\ x % r \in 0 .. r - 1
      /\ x = (x \div r) * r + (x % r)
  OBVIOUS
<1>2. ASSUME NEW q \in Nat, NEW m \in 0 .. r - 1, x = q * r + m
      PROVE  q = x \div r /\ m = x % r
  <2> DEFINE d == x \div r
             s == x % r
  <2>1. d \in Nat /\ s \in 0 .. r - 1 /\ q * r + m = d * r + s
    BY <1>1, <1>2
  <2> HIDE DEF d, s
  <2>2. ~ (q < d)
    <3>1. q < d => q * r + r <= d * r
      BY <2>1, ProductGrows
    <3>2. q * r \in Nat /\ d * r \in Nat
      BY <2>1, ProductGrows
    <3> QED
      BY <2>1, <3>1, <3>2
  <2>3. ~ (d < q)
    <3>1. d < q => d * r + r <= q * r
      BY <2>1, ProductGrows
    <3>2. q * r \in Nat /\ d * r \in Nat
      BY <2>1, ProductGrows
    <3> QED
      BY <2>1, <3>1, <3>2
  <2>4. q = d
    BY <2>1, <2>2, <2>3
  <2>5. q * r \in Nat
    BY ProductGrows
  <2>6. m = s
    BY <2>1, <2>4, <2>5
  <2> QED
    BY <2>4, <2>6 DEF d, s
<1> QED
  BY <1>1, <1>2

\* The place of a piece among the pieces of d replies.
LEMMA PieceOfReply ==
  ASSUME NEW d \in Nat, NEW r \in Nat \ {0}, NEW p \in 1 .. d * r
  PROVE  /\ (p - 1) \div r \in 0 .. d - 1
         /\ (p - 1) % r \in 0 .. r - 1
         /\ \A h \in Nat : /\ (h * r + p - 1) \div r = h + ((p - 1) \div r)
                           /\ (h * r + p - 1) % r = (p - 1) % r
<1> DEFINE x == p - 1
           q == x \div r
           m == x % r
<1>1. d * r \in Nat /\ x \in Nat /\ x < d * r
  BY ProductGrows
<1>2. q \in Nat /\ m \in 0 .. r - 1 /\ x = q * r + m
  BY <1>1, Division
<1> HIDE DEF q, m
<1>3. q < d
  <2>1. d <= q => d * r <= q * r
    BY <1>2, ProductGrows
  <2>2. q * r \in Nat
    BY <1>2, ProductGrows
  <2> QED
    BY <1>1, <1>2, <2>1, <2>2
<1>4. ASSUME NEW h \in Nat
      PROVE  /\ (h * r + p - 1) \div r = h + q
             /\ (h * r + p - 1) % r = m
  <2> DEFINE y == h * r + p - 1
  <2>1. h * r \in Nat /\ q * r \in Nat /\ (h + q) * r = h * r + q * r
    BY <1>2, ProductGrows
  <2>2. y = (h + q) * r + m
    BY <1>1, <1>2, <2>1
  <2>3. y \in Nat /\ h + q \in Nat
    BY <1>1, <1>2, <2>1
  <2> HIDE DEF y
  <2>4. h + q = y \div r /\ m = y % r
    <3>1. \A a \in Nat, b \in 0 .. r - 1 : y = a * r + b => a = y \div r /\ b = y % r
      BY <2>3, Division
    <3> QED
      BY <1>2, <2>2, <2>3, <3>1, Zenon
  <2> QED
    BY <2>4 DEF y
<1> QED
  BY <1>2, <1>3, <1>4 DEF q, m

-----------------------------------------------------------------------------
(***************************************************************************)
(* The requests that a chunk completes.                                    *)
(***************************************************************************)

\* The sizes of the system.
LEMMA Sizes ==
  /\ MAX_REQUESTS \in Nat
  /\ REQUEST_PARTS \in Nat \ {0}
  /\ REPLY_PARTS \in Nat \ {0}
  /\ BUFFER_SIZE \in Nat \ {0}
  /\ SEND_BUFFER \in Nat \ {0}
BY LoopAssumption

\* How many elements of a set of numbers come up to i.
Count(E, i) == Cardinality({h \in E : h <= i})

\* The count goes up with each of the elements.
LEMMA CountStep ==
  ASSUME NEW n \in Nat, NEW E \in SUBSET (1 .. n)
  PROVE  /\ Count(E, 0) = 0
         /\ Count(E, n) = Cardinality(E)
         /\ \A i \in Nat : /\ Count(E, i) \in Nat
                          /\ Count(E, i + 1) = IF i + 1 \in E THEN Count(E, i) + 1 ELSE Count(E, i)
<1>1. IsFiniteSet(E)
  <2>1. IsFiniteSet(1 .. n)
    BY FS_Interval
  <2> QED
    BY <2>1, FS_Subset
<1>5. \A e \in E : e \in Nat /\ ~ (e <= 0) /\ e <= n
  OBVIOUS
<1>2. Count(E, 0) = 0
  <2>1. {h \in E : h <= 0} = {}
    BY <1>5
  <2> QED
    BY <2>1, FS_EmptySet DEF Count
<1>3. Count(E, n) = Cardinality(E)
  <2>1. {h \in E : h <= n} = E
    BY <1>5
  <2> QED
    BY <2>1 DEF Count
<1>4. ASSUME NEW i \in Nat
      PROVE  /\ Count(E, i) \in Nat
             /\ Count(E, i + 1) = IF i + 1 \in E THEN Count(E, i) + 1 ELSE Count(E, i)
  <2> DEFINE before == {h \in E : h <= i}
             upTo == {h \in E : h <= i + 1}
  <2>4. /\ \A e \in E : e <= i + 1 <=> e <= i \/ e = i + 1
        /\ ~ (i + 1 <= i)
    BY <1>5
  <2>1. IsFiniteSet(before) /\ Cardinality(before) \in Nat
    <3>1. IsFiniteSet(before)
      BY <1>1, FS_Subset
    <3> QED
      BY <3>1, FS_CardinalityType
  <2>2. CASE i + 1 \in E
    <3>1. upTo = before \cup {i + 1} /\ i + 1 \notin before
      BY <2>2, <2>4
    <3> QED
      BY <2>1, <2>2, <3>1, FS_AddElement DEF Count
  <2>3. CASE i + 1 \notin E
    <3>1. upTo = before
      BY <2>3, <2>4
    <3> QED
      BY <2>1, <2>3, <3>1 DEF Count
  <2> QED
    BY <2>2, <2>3
<1> QED
  BY <1>2, <1>3, <1>4

\* The j-th element of a set of numbers.
LEMMA JthElement ==
  ASSUME NEW n \in Nat, NEW E \in SUBSET (1 .. n), NEW j \in 1 .. Cardinality(E)
  PROVE  \E i \in E : Count(E, i) = j
<1> DEFINE T == {i \in Nat : Count(E, i) >= j}
<1>1. Cardinality(E) \in Nat
  BY CountStep
<1>2. n \in T
  BY <1>1, CountStep
<1>3. PICK i \in T : \A k \in T : i <= k
  BY <1>2, Least
<1>4. i # 0
  BY <1>3, CountStep
<1>5. PICK m \in Nat : i = m + 1
  BY <1>3, <1>4
<1>6. m \notin T
  BY <1>3, <1>5
<1>7. /\ Count(E, m) \in Nat
      /\ Count(E, i) = IF i \in E THEN Count(E, m) + 1 ELSE Count(E, m)
  BY <1>5, CountStep
<1> QED
  BY <1>3, <1>6, <1>7

\* The piece that a client sends behind another.
Following(piece) ==
  IF piece[2] = REQUEST_PARTS THEN <<piece[1] + 1, 1>> ELSE <<piece[1], piece[2] + 1>>

\* Pieces behind one another, the first of them behind h requests and p pieces.
Consecutive(pieces, h, p) ==
  /\ pieces # <<>> => pieces[1] = <<h + 1, p + 1>>
  /\ \A i \in 1 .. Len(pieces) - 1 : pieces[i + 1] = Following(pieces[i])

\* The number of a piece tells how many requests were completed up to it.
LEMMA EndsCounted ==
  ASSUME NEW chunk \in Seq(Pieces(REQUEST_PARTS)), NEW h \in Nat, NEW p \in Nat,
         Consecutive(chunk, h, p), NEW i \in 1 .. Len(chunk)
  PROVE  Count(Ends(chunk), i)
            = IF chunk[i][2] = REQUEST_PARTS THEN chunk[i][1] - h ELSE chunk[i][1] - h - 1
<1> DEFINE E == Ends(chunk)
           place(k) == IF chunk[k][2] = REQUEST_PARTS THEN chunk[k][1] - h ELSE chunk[k][1] - h - 1
           T == {k \in 1 .. Len(chunk) : Count(E, k) # place(k)}
<1>1. E \in SUBSET (1 .. Len(chunk)) /\ Len(chunk) \in Nat
  BY DEF Ends
<1>2. \A k \in 1 .. Len(chunk) : chunk[k][1] \in Nat /\ chunk[k][2] \in Nat
  <2>1. ASSUME NEW k \in 1 .. Len(chunk) PROVE chunk[k] \in Nat \X Nat
    BY Sizes DEF Pieces
  <2> QED
    BY <2>1
<1>3. ASSUME NEW k \in T, \A e \in T : k <= e
      PROVE  FALSE
  <2>1. k \in E <=> chunk[k][2] = REQUEST_PARTS
    BY DEF Ends
  <2>2. PICK m \in Nat : k = m + 1
    OBVIOUS
  <2>3. Count(E, m) \in Nat /\ Count(E, k) = IF k \in E THEN Count(E, m) + 1 ELSE Count(E, m)
    BY <1>1, <2>2, CountStep, ZenonT(60)
  <2>4. CASE m = 0
    <3>1. chunk[k] = <<h + 1, p + 1>>
      BY <2>2, <2>4 DEF Consecutive
    <3>2. Count(E, m) = 0
      BY <1>1, <2>4, CountStep
    <3>3. Count(E, k) = place(k)
      BY <2>1, <2>3, <3>1, <3>2
    <3> QED
      BY <3>3
  <2>5. CASE m # 0
    <3>1. m \in 1 .. Len(chunk) - 1
      BY <1>1, <2>2, <2>5
    <3>2. Count(E, m) = place(m)
      <4>1. m \notin T
        BY <1>3, <2>2
      <4> QED
        BY <1>1, <3>1, <4>1
    <3>3. chunk[k] = Following(chunk[m])
      BY <2>2, <3>1 DEF Consecutive
    <3>4. chunk[m][1] \in Nat /\ chunk[m][2] \in Nat
      BY <1>1, <1>2, <3>1
    <3>5. CASE chunk[m][2] = REQUEST_PARTS
      <4>1. chunk[k][1] = chunk[m][1] + 1
        BY <3>3, <3>5 DEF Following
      <4>2. CASE k \in E
        <5>1. place(k) = (chunk[m][1] + 1) - h
          BY <2>1, <4>1, <4>2
        <5>2. Count(E, k) = (chunk[m][1] - h) + 1
          BY <2>3, <3>2, <3>5, <4>2
        <5> QED
          BY <3>4, <5>1, <5>2
      <4>3. CASE k \notin E
        <5>1. place(k) = ((chunk[m][1] + 1) - h) - 1
          BY <2>1, <4>1, <4>3
        <5>2. Count(E, k) = chunk[m][1] - h
          BY <2>3, <3>2, <3>5, <4>3
        <5>3. ((chunk[m][1] + 1) - h) - 1 = chunk[m][1] - h
          BY <3>4, SMTT(30)
        <5> QED
          BY <5>1, <5>2, <5>3
      <4> QED
        BY <4>2, <4>3
    <3>6. CASE chunk[m][2] # REQUEST_PARTS
      <4>1. chunk[k][1] = chunk[m][1]
        BY <3>3, <3>6 DEF Following
      <4> QED
        BY <2>1, <2>3, <3>2, <3>4, <3>6, <4>1, SMTT(30)
    <3> QED
      BY <3>5, <3>6
  <2> QED
    BY <2>4, <2>5
<1>4. T \in SUBSET Nat
  OBVIOUS
<1>5. T = {}
  BY <1>3, <1>4, Least
<1> QED
  BY <1>5

\* A chunk completes the requests behind those completed before it, each once.
LEMMA CompletedRequests ==
  ASSUME NEW chunk \in Seq(Pieces(REQUEST_PARTS)), NEW h \in Nat, NEW p \in Nat,
         Consecutive(chunk, h, p)
  PROVE  /\ Completed(chunk) \in Seq(Pieces(REQUEST_PARTS))
         /\ \A j \in 1 .. Len(Completed(chunk)) : Completed(chunk)[j] = <<h + j, REQUEST_PARTS>>
         /\ chunk # <<>> =>
              LET last == chunk[Len(chunk)] IN
              last[1] = IF last[2] = REQUEST_PARTS
                        THEN h + Len(Completed(chunk))
                        ELSE h + Len(Completed(chunk)) + 1
<1> DEFINE E == Ends(chunk)
           n == Cardinality(E)
           done == Completed(chunk)
           place(j) == CHOOSE i \in E : Cardinality({k \in E : k <= i}) = j
<1>1. E \in SUBSET (1 .. Len(chunk)) /\ Len(chunk) \in Nat
  BY DEF Ends
<1>2. n \in Nat
  BY <1>1, CountStep
<1>3. ASSUME NEW j \in 1 .. n
      PROVE  /\ place(j) \in 1 .. Len(chunk)
             /\ chunk[place(j)] = <<h + j, REQUEST_PARTS>>
  <2>1. \E i \in E : Cardinality({k \in E : k <= i}) = j
    <3>1. \E i \in E : Count(E, i) = j
      BY <1>1, JthElement
    <3> QED
      BY <3>1, Zenon DEF Count
  <2>2. place(j) \in E /\ Cardinality({k \in E : k <= place(j)}) = j
    BY <2>1
  <2> HIDE DEF place
  <2>3. /\ place(j) \in 1 .. Len(chunk)
        /\ chunk[place(j)][2] = REQUEST_PARTS
        /\ Count(E, place(j)) = j
    BY <2>2 DEF Ends, Count
  <2>4. chunk[place(j)] \in Nat \X Nat
    BY <2>3, Sizes DEF Pieces
  <2>5. j = chunk[place(j)][1] - h
    BY <2>3, EndsCounted
  <2> QED
    BY <2>3, <2>4, <2>5
<1>4. done = [j \in 1 .. n |-> chunk[place(j)]]
  BY DEF Completed
<1> HIDE DEF place
<1>5. \A j \in 1 .. n : chunk[place(j)] \in Pieces(REQUEST_PARTS)
  BY <1>3
<1>6. done \in Seq(Pieces(REQUEST_PARTS)) /\ Len(done) = n
  BY <1>2, <1>4, <1>5
<1>7. \A j \in 1 .. n : done[j] = <<h + j, REQUEST_PARTS>>
  BY <1>3, <1>4
<1>8. ASSUME chunk # <<>>
      PROVE  LET last == chunk[Len(chunk)] IN
             last[1] = IF last[2] = REQUEST_PARTS THEN h + n ELSE h + n + 1
  <2> DEFINE last == chunk[Len(chunk)]
  <2>1. Len(chunk) \in 1 .. Len(chunk)
    BY <1>1, <1>8
  <2>2. Count(E, Len(chunk)) = n
    BY <1>1, CountStep
  <2>3. last \in Nat \X Nat
    BY <2>1, Sizes DEF Pieces
  <2>4. n = IF last[2] = REQUEST_PARTS THEN last[1] - h ELSE last[1] - h - 1
    BY <2>1, <2>2, EndsCounted
  <2> HIDE DEF last, n
  <2>5. last[1] = IF last[2] = REQUEST_PARTS THEN h + n ELSE h + n + 1
    BY <1>2, <2>3, <2>4
  <2> QED
    BY <2>5 DEF last, n
<1> QED
  BY <1>6, <1>7, <1>8

-----------------------------------------------------------------------------
(***************************************************************************)
(* The replies to them.                                                    *)
(***************************************************************************)

\* A reply comes from the latest request that has set pg_answer.
LEMMA AnswerSourceExists ==
  ASSUME NEW c \in Clients, NEW done, NEW j \in Nat \ {0},
         \A i \in 1 .. j : asked[c][done[i][1]] \in Commands,
         asked[c][done[1][1]] = "DATA"
  PROVE  /\ AnswerSource(c, done, j) \in 1 .. j
         /\ asked[c][done[j][1]] = "DATA" => AnswerSource(c, done, j) = j
<1> DEFINE S == {i \in 1 .. j : asked[c][done[i][1]] = "DATA"}
           Source(i) == /\ asked[c][done[i][1]] = "DATA"
                        /\ \A h \in (i + 1) .. j : asked[c][done[h][1]] = "COMMAND"
<1>1. 1 \in S
  OBVIOUS
<1>2. PICK m \in S : \A k \in S : k <= m
  BY <1>1, Greatest
<1>3. ASSUME NEW h \in (m + 1) .. j PROVE asked[c][done[h][1]] = "COMMAND"
  <2>1. h \in 1 .. j /\ ~ (h <= m)
    BY <1>2
  <2>2. asked[c][done[h][1]] # "DATA"
    BY <1>2, <2>1
  <2>3. Commands \subseteq {"DATA", "COMMAND"}
    BY LoopAssumption
  <2> QED
    BY <2>1, <2>2, <2>3
<1>4. Source(m) /\ m \in 1 .. j
  BY <1>2, <1>3
<1>5. AnswerSource(c, done, j) \in 1 .. j /\ Source(AnswerSource(c, done, j))
  <2>1. AnswerSource(c, done, j) = CHOOSE i \in 1 .. j : Source(i)
    BY DEF AnswerSource
  <2> HIDE DEF Source
  <2> QED
    BY <1>4, <2>1
<1>6. ASSUME asked[c][done[j][1]] = "DATA" PROVE AnswerSource(c, done, j) = j
  <2> DEFINE a == AnswerSource(c, done, j)
  <2>1. a \in 1 .. j /\ Source(a)
    BY <1>5
  <2> HIDE DEF a
  <2>2. ~ (a < j)
    <3>1. asked[c][done[j][1]] # "COMMAND"
      BY <1>6
    <3>2. a < j => j \in (a + 1) .. j
      BY <2>1
    <3> QED
      BY <2>1, <3>1, <3>2
  <2> QED
    BY <2>1, <2>2 DEF a
<1> QED
  BY <1>5, <1>6

\* The request whose reply has the p-th piece that is sent to a client.
RequestAt(p) == ((p - 1) \div REPLY_PARTS) + 1

\* The p-th piece sent to a client is one of its place in a reply, and of the
\* reply to its own request if that has set pg_answer.
OwnPiece(c, piece, p) ==
  /\ piece[2] = ((p - 1) % REPLY_PARTS) + 1
  /\ asked[c][RequestAt(p)] = "DATA" => piece[1] = RequestAt(p)

\* Every request of a chunk is answered by REPLY_PARTS pieces of a reply, in their
\* places behind the replies to the first h requests.
LEMMA RepliesOfChunk ==
  ASSUME NEW c \in Clients, NEW h \in Nat, NEW done \in Seq(Pieces(REQUEST_PARTS)),
         \A j \in 1 .. Len(done) : done[j] = <<h + j, REQUEST_PARTS>>,
         \A j \in 1 .. Len(done) : asked[c][h + j] \in Commands,
         done # <<>> => asked[c][done[1][1]] = "DATA"
  PROVE  /\ Replies(c, done) \in Seq(Pieces(REPLY_PARTS))
         /\ Len(Replies(c, done)) = Len(done) * REPLY_PARTS
         /\ \A p \in 1 .. Len(done) * REPLY_PARTS :
              OwnPiece(c, Replies(c, done)[p], h * REPLY_PARTS + p)
<1> DEFINE d == Len(done)
           n == d * REPLY_PARTS
           q(p) == ((p - 1) \div REPLY_PARTS) + 1
           r(p) == ((p - 1) % REPLY_PARTS) + 1
           a(p) == AnswerSource(c, done, q(p))
<1>1. d \in Nat /\ n \in Nat
  BY Sizes, ProductGrows
<1>2. ASSUME NEW p \in 1 .. n
      PROVE  /\ q(p) \in 1 .. d
             /\ r(p) \in 1 .. REPLY_PARTS
             /\ a(p) \in 1 .. d
             /\ asked[c][done[q(p)][1]] = "DATA" => a(p) = q(p)
  <2>1. /\ (p - 1) \div REPLY_PARTS \in 0 .. d - 1
        /\ (p - 1) % REPLY_PARTS \in 0 .. REPLY_PARTS - 1
    BY <1>1, Sizes, PieceOfReply
  <2>2. q(p) \in 1 .. d /\ r(p) \in 1 .. REPLY_PARTS
    BY <1>1, <2>1, Sizes
  <2> HIDE DEF q, r
  <2>3. \A i \in 1 .. q(p) : asked[c][done[i][1]] \in Commands
    <3>1. \A i \in 1 .. q(p) : i \in 1 .. d
      BY <1>1, <2>2
    <3>2. \A i \in 1 .. d : done[i][1] = h + i
      OBVIOUS
    <3> QED
      BY <3>1, <3>2
  <2>4. asked[c][done[1][1]] = "DATA"
    <3>1. done # <<>>
      BY <1>1, <2>2
    <3> QED
      BY <3>1
  <2>5. q(p) \in Nat \ {0}
    BY <1>1, <2>2
  <2>6. /\ AnswerSource(c, done, q(p)) \in 1 .. q(p)
        /\ asked[c][done[q(p)][1]] = "DATA" => AnswerSource(c, done, q(p)) = q(p)
    BY <2>3, <2>4, <2>5, AnswerSourceExists
  <2> QED
    BY <1>1, <2>2, <2>6
<1>3. Replies(c, done) = [p \in 1 .. n |-> <<done[a(p)][1], r(p)>>]
  BY DEF Replies
<1>4. ASSUME NEW p \in 1 .. n
      PROVE  /\ RequestAt(h * REPLY_PARTS + p) = h + q(p)
             /\ (((h * REPLY_PARTS + p) - 1) % REPLY_PARTS) + 1 = r(p)
  <2>1. /\ (p - 1) \div REPLY_PARTS \in 0 .. d - 1
        /\ (h * REPLY_PARTS + p - 1) \div REPLY_PARTS = h + ((p - 1) \div REPLY_PARTS)
        /\ (h * REPLY_PARTS + p - 1) % REPLY_PARTS = (p - 1) % REPLY_PARTS
    BY <1>1, Sizes, PieceOfReply
  <2>2. (h * REPLY_PARTS + p) - 1 = h * REPLY_PARTS + p - 1
    <3>1. h * REPLY_PARTS \in Nat
      BY Sizes, ProductGrows
    <3> QED
      BY <3>1
  <2>4. RequestAt(h * REPLY_PARTS + p) = ((h * REPLY_PARTS + p - 1) \div REPLY_PARTS) + 1
    BY <2>2, Zenon DEF RequestAt
  <2>3. (h + ((p - 1) \div REPLY_PARTS)) + 1 = h + (((p - 1) \div REPLY_PARTS) + 1)
    BY <1>1, <2>1
  <2>5. RequestAt(h * REPLY_PARTS + p) = h + q(p)
    BY <2>1, <2>3, <2>4
  <2>6. (((h * REPLY_PARTS + p) - 1) % REPLY_PARTS) + 1 = r(p)
    BY <2>1, <2>2, Zenon
  <2> QED
    BY <2>5, <2>6
<1> HIDE DEF a, n, d, q, r
<1>5. ASSUME NEW p \in 1 .. n
      PROVE  <<done[a(p)][1], r(p)>> \in Pieces(REPLY_PARTS)
  <2>1. done[a(p)] \in Pieces(REQUEST_PARTS)
    BY <1>2 DEF d
  <2> QED
    BY <1>2, <2>1 DEF Pieces
<1>6. Replies(c, done) \in Seq(Pieces(REPLY_PARTS)) /\ Len(Replies(c, done)) = n
  BY <1>1, <1>3, <1>5
<1>7. ASSUME NEW p \in 1 .. n
      PROVE  OwnPiece(c, Replies(c, done)[p], h * REPLY_PARTS + p)
  <2>1. Replies(c, done)[p] = <<done[a(p)][1], r(p)>>
    BY <1>3
  <2>2. q(p) \in 1 .. Len(done) /\ done[q(p)][1] = h + q(p)
    <3>1. q(p) \in 1 .. Len(done)
      BY <1>2 DEF d
    <3> QED
      BY <3>1
  <2>3. asked[c][h + q(p)] = "DATA" => done[a(p)][1] = h + q(p)
    BY <1>2, <2>2
  <2>4. Replies(c, done)[p][1] = done[a(p)][1] /\ Replies(c, done)[p][2] = r(p)
    BY <2>1
  <2> QED
    BY <1>4, <2>3, <2>4, Zenon DEF OwnPiece
<1> QED
  BY <1>6, <1>7 DEF n, d

-----------------------------------------------------------------------------
(***************************************************************************)
(* The invariant.                                                          *)
(***************************************************************************)

\* What is left of a connection that the worker has not, or no longer, open.
Linked(c) ==
  /\ conn[c] = "none" <=> peer[c] = "absent"
  /\ conn[c] = "closed" => peer[c] = "reset"
  /\ conn[c] # "open" => /\ answer[c] = <<>>
                         /\ outbound[c] = <<>>
                         /\ ~ writing[c]
                         /\ parsed[c] = 0
  /\ conn[c] \in {"none", "backlog"} => handled[c] = 0 /\ received[c] = <<>>
  /\ conn[c] = "none" => /\ asked[c] = <<>>
                         /\ sent[c] = REQUEST_PARTS
                         /\ inbound[c] = <<>>

\* What the worker has not read begins where its reading stopped and ends with
\* the last piece sent.
Stream(c) ==
  /\ Consecutive(inbound[c], handled[c], parsed[c])
  /\ \A i \in 1 .. Len(inbound[c]) : inbound[c][i][1] <= Len(asked[c])
  /\ inbound[c] # <<>> => inbound[c][Len(inbound[c])] = <<Len(asked[c]), sent[c]>>
  /\ handled[c] <= Len(asked[c])
  /\ peer[c] \in {"absent", "connected"} /\ inbound[c] = <<>> =>
       IF sent[c] = REQUEST_PARTS
       THEN parsed[c] = 0 /\ Len(asked[c]) = handled[c]
       ELSE parsed[c] = sent[c] /\ Len(asked[c]) = handled[c] + 1

Watched(c) == conn[c] = "open" => (writing[c] <=> answer[c] # <<>>)

Served(c) == Linked(c) /\ Stream(c) /\ Watched(c)

\* A write(2) that sleeps has not passed on all of the answer of an open connection.
Sleeping ==
  IF blocked = NoClient
  THEN taken = 0
  ELSE conn[blocked] = "open" /\ taken < Len(answer[blocked])

IInv == TypeOK /\ (\A c \in Clients : Served(c)) /\ Sleeping /\ NoEventOfClosed

\* Nothing of a connection changes.
Same(c) ==
  /\ conn'[c] = conn[c] /\ parsed'[c] = parsed[c] /\ answer'[c] = answer[c]
  /\ writing'[c] = writing[c] /\ peer'[c] = peer[c] /\ asked'[c] = asked[c]
  /\ sent'[c] = sent[c] /\ inbound'[c] = inbound[c] /\ outbound'[c] = outbound[c]
  /\ received'[c] = received[c] /\ handled'[c] = handled[c]

LEMMA SameServed ==
  ASSUME NEW c \in Clients, Served(c), Same(c)
  PROVE  Served(c)'
BY DEF Served, Same, Linked, Stream, Watched, Consecutive, Following

\* A step of one connection leaves the others as they are.
LEMMA OthersServed ==
  ASSUME IInv, NEW c \in Clients, \A d \in Clients \ {c} : Same(d), Served(c)'
  PROVE  \A d \in Clients : Served(d)'
BY SameServed DEF IInv

-----------------------------------------------------------------------------
(***************************************************************************)
(* The clients, the end of the worker and its start.                       *)
(***************************************************************************)

LEMMA ConnectPreserves ==
  ASSUME IInv, NEW c \in Clients, Connect(c)
  PROVE  IInv'
<1> USE DEF Connect
<1>1. TypeOK'
  BY DEF IInv, TypeOK
<1>2. Served(c)'
  <2>1. Served(c) /\ conn[c] = "none" /\ conn'[c] = "backlog" /\ peer'[c] = "connected"
    BY DEF IInv, Served, Linked, TypeOK
  <2> QED
    BY <2>1 DEF Served, Linked, Stream, Watched, Consecutive, Following
<1>3. \A d \in Clients \ {c} : Same(d)
  BY DEF IInv, TypeOK, Same
<1>4. Sleeping'
  BY DEF IInv, Sleeping, Served, Linked, TypeOK
<1>5. NoEventOfClosed'
  BY DEF IInv, NoEventOfClosed, Served, Linked, TypeOK
<1> QED
  BY <1>1, <1>2, <1>3, <1>4, <1>5, OthersServed DEF IInv

LEMMA ReceivePreserves ==
  ASSUME IInv, NEW c \in Clients, Receive(c)
  PROVE  IInv'
<1> USE DEF Receive, serverVars
<1>1. TypeOK'
  <2> DEFINE P == Pieces(REPLY_PARTS)
  <2>1. outbound[c] \in Seq(P) /\ received[c] \in Seq(P) /\ Len(outbound[c]) <= SEND_BUFFER
    BY DEF IInv, TypeOK
  <2> HIDE DEF P
  <2>2. /\ Tail(outbound[c]) \in Seq(P)
        /\ Len(Tail(outbound[c])) <= SEND_BUFFER
        /\ Append(received[c], Head(outbound[c])) \in Seq(P)
    BY <2>1, Sizes
  <2>3. /\ received' \in [Clients -> Seq(P)]
        /\ outbound' \in [Clients -> Seq(P)]
        /\ \A d \in Clients : Len(outbound'[d]) <= SEND_BUFFER
    BY <2>2 DEF IInv, TypeOK, P
  <2> QED
    BY <2>3 DEF IInv, TypeOK, P
<1>2. Served(c)'
  BY DEF IInv, TypeOK, Served, Linked, Stream, Watched, Consecutive, Following
<1>3. \A d \in Clients \ {c} : Same(d)
  BY DEF IInv, TypeOK, Same
<1>4. Sleeping' /\ NoEventOfClosed'
  BY DEF IInv, Sleeping, NoEventOfClosed
<1> QED
  BY <1>1, <1>2, <1>3, <1>4, OthersServed DEF IInv

LEMMA LeavePreserves ==
  ASSUME IInv, NEW c \in Clients, Leave(c)
  PROVE  IInv'
<1> USE DEF Leave, serverVars
<1>1. TypeOK'
  <2>1. inbound \in [Clients -> Seq(Pieces(REQUEST_PARTS))]
    BY DEF IInv, TypeOK
  <2>2. inbound' = inbound \/ inbound' = [inbound EXCEPT ![c] = <<>>]
    OBVIOUS
  <2>3. inbound' \in [Clients -> Seq(Pieces(REQUEST_PARTS))]
    BY <2>1, <2>2, EmptySeq
  <2>4. peer' \in [Clients -> {"absent", "connected", "finished", "reset"}]
    BY DEF IInv, TypeOK
  <2>5. /\ outbound' \in [Clients -> Seq(Pieces(REPLY_PARTS))]
        /\ \A d \in Clients : Len(outbound'[d]) <= SEND_BUFFER
    <3>1. /\ outbound \in [Clients -> Seq(Pieces(REPLY_PARTS))]
          /\ \A d \in Clients : Len(outbound[d]) <= SEND_BUFFER
          /\ outbound' = [outbound EXCEPT ![c] = <<>>]
      BY DEF IInv, TypeOK
    <3> QED
      BY <3>1, Sizes, EmptySeq
  <2> QED
    BY <2>3, <2>4, <2>5 DEF IInv, TypeOK
<1>2. Served(c)'
  <2>1. /\ Served(c)
        /\ peer[c] = "connected"
        /\ peer'[c] \in {"finished", "reset"}
        /\ inbound'[c] \in {inbound[c], <<>>}
        /\ outbound'[c] = <<>>
    BY DEF IInv, TypeOK
  <2>2. Linked(c)' /\ Watched(c)'
    BY <2>1 DEF Served, Linked, Watched
  <2>3. Stream(c)'
    <3>1. CASE inbound'[c] = inbound[c]
      BY <2>1, <3>1 DEF Served, Stream, Consecutive, Following
    <3>2. CASE inbound'[c] = <<>>
      BY <2>1, <3>2 DEF Served, Stream, Consecutive, Following
    <3> QED
      BY <2>1, <3>1, <3>2
  <2> QED
    BY <2>2, <2>3 DEF Served
<1>3. \A d \in Clients \ {c} : Same(d)
  BY DEF IInv, TypeOK, Same
<1>4. Sleeping' /\ NoEventOfClosed'
  BY DEF IInv, Sleeping, NoEventOfClosed
<1> QED
  BY <1>1, <1>2, <1>3, <1>4, OthersServed DEF IInv

LEMMA SendPreserves ==
  ASSUME IInv, NEW c \in Clients, Send(c)
  PROVE  IInv'
<1> DEFINE new == <<Len(asked'[c]), sent'[c]>>
<1>1. /\ peer[c] = "connected"
      /\ inbound' = [inbound EXCEPT ![c] = Append(@, new)]
      /\ UNCHANGED <<worker, pending, blocked, taken, conn, parsed, answer, writing,
                     peer, outbound, received, handled>>
  BY DEF Send, serverVars
<1>2. \/ /\ sent[c] = REQUEST_PARTS
         /\ Len(asked[c]) < MAX_REQUESTS
         /\ \E command \in Commands : asked' = [asked EXCEPT ![c] = Append(@, command)]
         /\ sent' = [sent EXCEPT ![c] = 1]
      \/ /\ sent[c] < REQUEST_PARTS
         /\ sent' = [sent EXCEPT ![c] = @ + 1]
         /\ asked' = asked
  BY DEF Send
<1>3. /\ asked \in [Clients -> Seq(Commands)]
      /\ asked[c] \in Seq(Commands)
      /\ Len(asked[c]) <= MAX_REQUESTS
      /\ sent \in [Clients -> 1 .. REQUEST_PARTS]
      /\ inbound \in [Clients -> Seq(Pieces(REQUEST_PARTS))]
  BY DEF IInv, TypeOK
<1>4. /\ asked' \in [Clients -> Seq(Commands)]
      /\ asked'[c] \in Seq(Commands)
      /\ sent' \in [Clients -> 1 .. REQUEST_PARTS]
      /\ \/ /\ sent[c] = REQUEST_PARTS
            /\ sent'[c] = 1
            /\ Len(asked'[c]) = Len(asked[c]) + 1
            /\ Len(asked'[c]) <= MAX_REQUESTS
         \/ /\ sent[c] < REQUEST_PARTS
            /\ sent'[c] = sent[c] + 1
            /\ Len(asked'[c]) = Len(asked[c])
  <2>1. CASE sent[c] = REQUEST_PARTS
    <3>1. PICK command \in Commands : asked' = [asked EXCEPT ![c] = Append(@, command)]
      BY <1>2, <2>1, Sizes
    <3>2. /\ Append(asked[c], command) \in Seq(Commands)
          /\ Len(Append(asked[c], command)) = Len(asked[c]) + 1
      BY <1>3, AppendProperties
    <3>3. sent' = [sent EXCEPT ![c] = 1] /\ Len(asked[c]) < MAX_REQUESTS
      BY <1>2, <2>1, Sizes
    <3>4. Len(asked[c]) \in Nat
      BY <1>3
    <3> QED
      BY <1>3, <2>1, <3>1, <3>2, <3>3, <3>4, Sizes
  <2>2. CASE sent[c] # REQUEST_PARTS
    <3>1. sent[c] \in 1 .. REQUEST_PARTS /\ sent[c] < REQUEST_PARTS
      BY <1>3, <2>2, Sizes
    <3>2. sent' = [sent EXCEPT ![c] = sent[c] + 1] /\ asked' = asked
      BY <1>2, <2>2
    <3>3. sent[c] + 1 \in 1 .. REQUEST_PARTS
      BY <3>1, Sizes
    <3> QED
      BY <1>3, <3>1, <3>2, <3>3
  <2> QED
    BY <2>1, <2>2
<1>5. /\ Len(asked[c]) \in Nat /\ Len(asked'[c]) \in Nat
      /\ Len(asked[c]) <= Len(asked'[c])
      /\ new = Following(<<Len(asked[c]), sent[c]>>)
  BY <1>3, <1>4, Sizes DEF Following
<1>6. Served(c) /\ conn[c] # "none" /\ handled[c] \in Nat /\ parsed[c] \in Nat
  BY <1>1, SMTT(30) DEF IInv, TypeOK, Served, Linked
<1>7. new[1] \in 1 .. MAX_REQUESTS /\ new[2] \in 1 .. REQUEST_PARTS
  <2>1. CASE inbound[c] = <<>>
    BY <1>1, <1>3, <1>4, <1>6, <2>1, Sizes DEF Served, Stream
  <2>2. CASE inbound[c] # <<>>
    <3>1. inbound[c][Len(inbound[c])] = <<Len(asked[c]), sent[c]>>
      BY <1>6, <2>2 DEF Served, Stream
    <3>2. inbound[c][Len(inbound[c])] \in Pieces(REQUEST_PARTS)
      BY <1>3, <2>2
    <3>3. Len(asked[c]) >= 1
      BY <3>1, <3>2, Sizes DEF Pieces
    <3> QED
      BY <1>3, <1>4, <1>5, <3>3, Sizes
  <2> QED
    BY <2>1, <2>2
<1> HIDE DEF new
<1>8. /\ inbound[c] \in Seq(Pieces(REQUEST_PARTS))
      /\ Len(inbound[c]) \in Nat
      /\ new \in Pieces(REQUEST_PARTS)
  BY <1>3, <1>7 DEF Pieces, new
<1>9. /\ inbound' \in [Clients -> Seq(Pieces(REQUEST_PARTS))]
      /\ inbound'[c] = Append(inbound[c], new)
      /\ Len(inbound'[c]) = Len(inbound[c]) + 1
      /\ \A i \in 1 .. Len(inbound[c]) : inbound'[c][i] = inbound[c][i]
      /\ inbound'[c][Len(inbound[c]) + 1] = new
      /\ inbound'[c] # <<>>
  <2>1. inbound'[c] = Append(inbound[c], new)
    BY <1>1, <1>3
  <2>2. Append(inbound[c], new) \in Seq(Pieces(REQUEST_PARTS))
    BY <1>8
  <2>3. inbound' \in [Clients -> Seq(Pieces(REQUEST_PARTS))]
    BY <1>1, <1>3, <2>2
  <2> QED
    BY <1>8, <2>1, <2>3, AppendProperties
<1>10. TypeOK'
  <2>1. \A d \in Clients : Len(asked'[d]) <= MAX_REQUESTS
    BY <1>2, <1>3, <1>4 DEF IInv, TypeOK
  <2> QED
    BY <1>1, <1>4, <1>9, <2>1 DEF IInv, TypeOK
<1>11. Stream(c)'
  <2>1. Consecutive(inbound'[c], handled[c], parsed[c])
    <3>1. CASE inbound[c] = <<>>
      <4>1. new = <<handled[c] + 1, parsed[c] + 1>>
        BY <1>1, <1>4, <1>5, <1>6, <3>1, Sizes, SMTT(30) DEF Served, Stream, Following
      <4> QED
        BY <1>8, <1>9, <3>1, <4>1 DEF Consecutive
    <3>2. CASE inbound[c] # <<>>
      <4>1. /\ Consecutive(inbound[c], handled[c], parsed[c])
            /\ inbound[c][Len(inbound[c])] = <<Len(asked[c]), sent[c]>>
        BY <1>6, <3>2 DEF Served, Stream
      <4>2. inbound'[c][1] = <<handled[c] + 1, parsed[c] + 1>>
        BY <1>8, <1>9, <3>2, <4>1 DEF Consecutive
      <4>3. ASSUME NEW i \in 1 .. Len(inbound'[c]) - 1
            PROVE  inbound'[c][i + 1] = Following(inbound'[c][i])
        <5>1. CASE i = Len(inbound[c])
          <6>1. inbound'[c][i] = <<Len(asked[c]), sent[c]>>
            BY <1>8, <1>9, <4>1, <5>1
          <6>2. inbound'[c][i + 1] = new
            BY <1>9, <5>1
          <6> QED
            BY <1>5, <6>1, <6>2
        <5>2. CASE i # Len(inbound[c])
          <6>1. i \in 1 .. Len(inbound[c]) - 1 /\ i + 1 \in 1 .. Len(inbound[c])
            BY <1>8, <1>9, <5>2
          <6>2. inbound[c][i + 1] = Following(inbound[c][i])
            BY <4>1, <6>1 DEF Consecutive
          <6> QED
            BY <1>8, <1>9, <6>1, <6>2
        <5> QED
          BY <5>1, <5>2
      <4> QED
        BY <4>2, <4>3 DEF Consecutive
    <3> QED
      BY <3>1, <3>2
  <2>2. \A i \in 1 .. Len(inbound'[c]) : inbound'[c][i][1] <= Len(asked'[c])
    <3>1. new[1] <= Len(asked'[c])
      BY <1>5 DEF new
    <3>2. ASSUME NEW i \in 1 .. Len(inbound[c]) PROVE inbound[c][i][1] <= Len(asked'[c])
      <4>1. inbound[c][i] \in Nat \X Nat
        BY <1>8, Sizes DEF Pieces
      <4>2. inbound[c][i][1] <= Len(asked[c])
        BY <1>6 DEF Served, Stream
      <4> QED
        BY <1>5, <4>1, <4>2
    <3> QED
      BY <1>8, <1>9, <3>1, <3>2
  <2>3. inbound'[c][Len(inbound'[c])] = <<Len(asked'[c]), sent'[c]>>
    BY <1>8, <1>9 DEF new
  <2>4. handled[c] <= Len(asked'[c])
    BY <1>5, <1>6 DEF Served, Stream
  <2> QED
    BY <1>1, <1>9, <2>1, <2>2, <2>3, <2>4 DEF Stream, Consecutive, Following
<1>12. Served(c)'
  BY <1>1, <1>6, <1>11 DEF Served, Linked, Watched
<1>13. \A d \in Clients \ {c} : Same(d)
  BY <1>1, <1>2, <1>3 DEF Same
<1>14. Sleeping' /\ NoEventOfClosed'
  BY <1>1 DEF IInv, Sleeping, NoEventOfClosed
<1> QED
  BY <1>10, <1>12, <1>13, <1>14, OthersServed DEF IInv

LEMMA ExitPreserves ==
  ASSUME IInv, Exit
  PROVE  IInv'
<1> USE DEF Exit
<1>1. TypeOK'
  BY Sizes DEF IInv, TypeOK
<1>2. ASSUME NEW c \in Clients PROVE Served(c)'
  <2>1. Served(c) /\ handled[c] \in Nat
    BY DEF IInv, TypeOK
  <2>2. CASE conn[c] \in {"backlog", "open"}
    BY <2>1, <2>2 DEF Served, Linked, Stream, Watched, Consecutive
  <2>3. CASE conn[c] \notin {"backlog", "open"}
    <3>1. conn[c] \in {"none", "closed"}
      BY <2>3 DEF IInv, TypeOK
    <3> QED
      BY <2>1, <3>1 DEF Served, Linked, Stream, Watched, Consecutive
  <2> QED
    BY <2>2, <2>3
<1>3. Sleeping' /\ NoEventOfClosed'
  BY DEF Sleeping, NoEventOfClosed
<1> QED
  BY <1>1, <1>2, <1>3 DEF IInv

LEMMA StartPreserves ==
  ASSUME IInv, proxy_start_work
  PROVE  IInv'
<1> USE DEF proxy_start_work, clientVars
<1>1. TypeOK'
  BY DEF IInv, TypeOK
<1>2. \A c \in Clients : Served(c)'
  BY SameServed DEF IInv, Same
<1>3. Sleeping' /\ NoEventOfClosed'
  BY DEF IInv, Sleeping, NoEventOfClosed
<1> QED
  BY <1>1, <1>2, <1>3 DEF IInv

-----------------------------------------------------------------------------
(***************************************************************************)
(* The loop and its callbacks.                                             *)
(***************************************************************************)

LEMMA PollPreserves ==
  ASSUME IInv, Poll
  PROVE  IInv'
<1> USE DEF Poll, clientVars
<1>1. Ready \subseteq Events
  BY DEF Ready, Events
<1>2. TypeOK'
  BY <1>1 DEF IInv, TypeOK
<1>3. \A c \in Clients : Served(c)'
  BY SameServed DEF IInv, Same
<1>4. ASSUME NEW c \in Clients, READ(c) \in Ready \/ WRITE(c) \in Ready
      PROVE  conn[c] = "open"
  BY <1>4 DEF Ready, READ, WRITE, ACCEPT
<1>5. Sleeping' /\ NoEventOfClosed'
  BY <1>4 DEF IInv, Sleeping, NoEventOfClosed
<1> QED
  BY <1>2, <1>3, <1>5 DEF IInv

LEMMA AcceptPreserves ==
  ASSUME IInv, on_accept_cb
  PROVE  IInv'
<1>1. CASE Exit
  BY <1>1, ExitPreserves
<1>2. CASE ~ Exit
  <2>1. PICK c \in Clients : conn[c] = "backlog" /\ conn' = [conn EXCEPT ![c] = "open"]
    BY <1>2 DEF on_accept_cb
  <2>2. /\ blocked = NoClient
        /\ pending' \subseteq pending
        /\ UNCHANGED <<worker, blocked, taken, parsed, answer, writing, clientVars, handled>>
    BY <1>2 DEF on_accept_cb, Callback
  <2>3. TypeOK'
    BY <2>1, <2>2 DEF IInv, TypeOK, clientVars
  <2>4. Served(c)'
    <3>1. Served(c) /\ conn'[c] = "open"
      BY <2>1 DEF IInv, TypeOK
    <3> QED
      BY <2>1, <2>2, <3>1 DEF clientVars, Served, Linked, Stream, Watched, Consecutive, Following
  <2>5. \A d \in Clients \ {c} : Same(d)
    BY <2>1, <2>2 DEF IInv, TypeOK, clientVars, Same
  <2>6. Sleeping' /\ NoEventOfClosed'
    BY <2>1, <2>2 DEF IInv, TypeOK, Sleeping, NoEventOfClosed
  <2> QED
    BY <2>3, <2>4, <2>5, <2>6, OthersServed DEF IInv
<1> QED
  BY <1>1, <1>2

LEMMA ClosePreserves ==
  ASSUME IInv, NEW c \in Clients, Callback(READ(c)), close_connection(c)
  PROVE  IInv'
<1>1. CASE Exit
  BY <1>1, ExitPreserves
<1>2. CASE Released(c)
  <2> USE <1>2 DEF Released
  <2>1. TypeOK'
    <3>1. conn' \in [Clients -> {"none", "backlog", "open", "closed"}]
      BY DEF IInv, TypeOK
    <3>6. parsed' \in [Clients -> 0 .. REQUEST_PARTS - 1]
      <4>1. parsed \in [Clients -> 0 .. REQUEST_PARTS - 1]
        BY DEF IInv, TypeOK
      <4>2. parsed' = [parsed EXCEPT ![c] = 0] /\ 0 \in 0 .. REQUEST_PARTS - 1
        BY Sizes
      <4> QED
        BY <4>1, <4>2
    <3>5. /\ peer' \in [Clients -> {"absent", "connected", "finished", "reset"}]
          /\ writing' \in [Clients -> BOOLEAN]
      BY DEF IInv, TypeOK
    <3>4. pending' \subseteq Events
      BY DEF IInv, TypeOK
    <3>2. /\ answer' \in [Clients -> Seq(Pieces(REPLY_PARTS))]
          /\ inbound' \in [Clients -> Seq(Pieces(REQUEST_PARTS))]
      BY EmptySeq DEF IInv, TypeOK
    <3>3. /\ outbound' \in [Clients -> Seq(Pieces(REPLY_PARTS))]
          /\ \A d \in Clients : Len(outbound'[d]) <= SEND_BUFFER
      <4>1. /\ outbound \in [Clients -> Seq(Pieces(REPLY_PARTS))]
            /\ \A d \in Clients : Len(outbound[d]) <= SEND_BUFFER
            /\ outbound' = [outbound EXCEPT ![c] = <<>>]
        BY DEF IInv, TypeOK
      <4> QED
        BY <4>1, Sizes, EmptySeq
    <3> QED
      BY <3>1, <3>2, <3>3, <3>4, <3>5, <3>6 DEF IInv, TypeOK
  <2>2. Served(c)'
    <3>1. /\ Served(c)
          /\ conn'[c] = "closed" /\ peer'[c] = "reset" /\ parsed'[c] = 0
          /\ answer'[c] = <<>> /\ inbound'[c] = <<>> /\ outbound'[c] = <<>>
          /\ writing'[c] = FALSE
          /\ handled'[c] = handled[c] /\ asked'[c] = asked[c]
      BY DEF IInv, TypeOK
    <3> QED
      BY <3>1 DEF Served, Linked, Stream, Watched, Consecutive
  <2>3. \A d \in Clients \ {c} : Same(d)
    BY DEF IInv, TypeOK, Same
  <2>4. Sleeping' /\ NoEventOfClosed'
    <3>1. blocked = NoClient
      BY DEF Callback
    <3>2. ASSUME NEW d \in Clients, {READ(d), WRITE(d)} \cap pending' # {}
          PROVE  conn'[d] = "open"
      <4>1. d # c
        BY <3>2
      <4> QED
        BY <3>2, <4>1 DEF IInv, TypeOK, NoEventOfClosed
    <3> QED
      BY <3>1, <3>2 DEF IInv, Sleeping, NoEventOfClosed
  <2> QED
    BY <2>1, <2>2, <2>3, <2>4, OthersServed DEF IInv
<1> QED
  BY <1>1, <1>2 DEF close_connection

\* What one read takes is the beginning of what the kernel holds.
LEMMA ReadTaken ==
  ASSUME IInv, NEW c \in Clients
  PROVE  LET chunk == read_data(c) IN
         /\ chunk \in Seq(Pieces(REQUEST_PARTS))
         /\ Len(chunk) \in 0 .. Len(inbound[c])
         /\ \A i \in 1 .. Len(chunk) : chunk[i] = inbound[c][i]
         /\ Consecutive(chunk, handled[c], parsed[c])
<1> DEFINE chunk == read_data(c)
           n == IF Len(inbound[c]) < BUFFER_SIZE THEN Len(inbound[c]) ELSE BUFFER_SIZE
<1>1. inbound[c] \in Seq(Pieces(REQUEST_PARTS)) /\ Len(inbound[c]) \in Nat
  BY DEF IInv, TypeOK
<1>2. n \in 0 .. Len(inbound[c]) /\ n \in Int
  BY <1>1, Sizes
<1>3. chunk = SubSeq(inbound[c], 1, n)
  BY DEF read_data
<1> HIDE DEF n, chunk
<1>4. \A i \in 1 .. n : inbound[c][i] \in Pieces(REQUEST_PARTS)
  BY <1>1, <1>2
<1>5. /\ chunk \in Seq(Pieces(REQUEST_PARTS))
      /\ Len(chunk) = n
      /\ \A i \in 1 .. n : chunk[i] = inbound[c][i]
  BY <1>2, <1>3, <1>4, SubSeqProperties
<1>6. Consecutive(chunk, handled[c], parsed[c])
  <2>1. Consecutive(inbound[c], handled[c], parsed[c])
    BY DEF IInv, Served, Stream
  <2>2. chunk # <<>> => chunk[1] = <<handled[c] + 1, parsed[c] + 1>>
    BY <1>1, <1>2, <1>5, <2>1 DEF Consecutive
  <2>3. \A i \in 1 .. Len(chunk) - 1 : chunk[i + 1] = Following(chunk[i])
    <3>1. ASSUME NEW i \in 1 .. Len(chunk) - 1
          PROVE  /\ i \in 1 .. n /\ i + 1 \in 1 .. n
                 /\ i \in 1 .. Len(inbound[c]) - 1
      BY <1>1, <1>2, <1>5
    <3> QED
      BY <1>5, <2>1, <3>1 DEF Consecutive
  <2> QED
    BY <2>2, <2>3 DEF Consecutive
<1> QED
  BY <1>2, <1>5, <1>6 DEF chunk

\* The requests that a read completes, the pieces it takes of a further one, and
\* what it leaves unread.
Done(c) == Completed(read_data(c))
Part(c) == read_data(c)[Len(read_data(c))][2] % REQUEST_PARTS
Unread(c) == SubSeq(inbound[c], Len(read_data(c)) + 1, Len(inbound[c]))

\* The types of what a read looks at.
LEMMA StreamTypes ==
  ASSUME IInv, NEW c \in Clients
  PROVE  /\ inbound[c] \in Seq(Pieces(REQUEST_PARTS)) /\ Len(inbound[c]) \in Nat
         /\ handled[c] \in Nat /\ parsed[c] \in Nat
         /\ asked[c] \in Seq(Commands) /\ Len(asked[c]) \in Nat
         /\ sent[c] \in 1 .. REQUEST_PARTS
BY DEF IInv, TypeOK

\* A read completes the next requests, in order.
LEMMA ReadCompletes ==
  ASSUME IInv, NEW c \in Clients
  PROVE  /\ Done(c) \in Seq(Pieces(REQUEST_PARTS)) /\ Len(Done(c)) \in Nat
         /\ \A j \in 1 .. Len(Done(c)) : Done(c)[j] = <<handled[c] + j, REQUEST_PARTS>>
         /\ read_data(c) # <<>> =>
              read_data(c)[Len(read_data(c))][1] =
                IF read_data(c)[Len(read_data(c))][2] = REQUEST_PARTS
                THEN handled[c] + Len(Done(c))
                ELSE handled[c] + Len(Done(c)) + 1
<1>1. handled[c] \in Nat /\ parsed[c] \in Nat
  BY StreamTypes
<1>2. /\ read_data(c) \in Seq(Pieces(REQUEST_PARTS))
      /\ Consecutive(read_data(c), handled[c], parsed[c])
  BY ReadTaken
<1>3. /\ Completed(read_data(c)) \in Seq(Pieces(REQUEST_PARTS))
      /\ \A j \in 1 .. Len(Completed(read_data(c))) :
           Completed(read_data(c))[j] = <<handled[c] + j, REQUEST_PARTS>>
      /\ read_data(c) # <<>> =>
           read_data(c)[Len(read_data(c))][1] =
             IF read_data(c)[Len(read_data(c))][2] = REQUEST_PARTS
             THEN handled[c] + Len(Completed(read_data(c)))
             ELSE handled[c] + Len(Completed(read_data(c))) + 1
  BY <1>1, <1>2, CompletedRequests
<1> QED
  BY <1>3 DEF Done

\* Nothing read completes nothing.
LEMMA ReadOfNothing ==
  ASSUME IInv, NEW c \in Clients, Len(read_data(c)) = 0
  PROVE  Done(c) = <<>>
<1>1. DOMAIN read_data(c) = {}
  <2>1. read_data(c) \in Seq(Pieces(REQUEST_PARTS))
    BY ReadTaken
  <2> QED
    BY <2>1
<1>2. Ends(read_data(c)) = {}
  BY <1>1 DEF Ends
<1>3. Cardinality(Ends(read_data(c))) = 0
  BY <1>2, FS_EmptySet
<1> QED
  BY <1>3 DEF Done, Completed

\* What a read that is not the last one of its connection does to it: it takes a
\* chunk, answers the requests that the chunk completes and remembers the rest.
LEMMA ReadAnswers ==
  ASSUME IInv, NEW c \in Clients,
         Len(read_data(c)) # 0,
         Done(c) # <<>> => asked[c][Done(c)[1][1]] = "DATA"
  PROVE  LET h == handled[c] + Len(Done(c))
             p == Part(c)
             rest == Unread(c)
             more == Replies(c, Done(c))
         IN
         /\ Len(Done(c)) \in Nat
         /\ h \in 0 .. Len(asked[c])
         /\ p \in 0 .. REQUEST_PARTS - 1
         /\ rest \in Seq(Pieces(REQUEST_PARTS))
         /\ Consecutive(rest, h, p)
         /\ \A i \in 1 .. Len(rest) : rest[i][1] <= Len(asked[c])
         /\ rest # <<>> => inbound[c] # <<>> /\ rest[Len(rest)] = inbound[c][Len(inbound[c])]
         /\ rest = <<>> => IF sent[c] = REQUEST_PARTS
                           THEN p = 0 /\ Len(asked[c]) = h
                           ELSE p = sent[c] /\ Len(asked[c]) = h + 1
         /\ more \in Seq(Pieces(REPLY_PARTS))
         /\ Len(more) = Len(Done(c)) * REPLY_PARTS
         /\ \A k \in 1 .. Len(Done(c)) * REPLY_PARTS :
              OwnPiece(c, more[k], handled[c] * REPLY_PARTS + k)
<1> DEFINE g == handled[c]
<1> DEFINE chunk == read_data(c)
           size == Len(chunk)
           done == Done(c)
           h == handled[c] + Len(done)
           p == Part(c)
           rest == Unread(c)
<1>0. /\ chunk = read_data(c) /\ size = Len(chunk) /\ size # 0
      /\ done = Done(c) /\ done = Completed(chunk)
      /\ done # <<>> => asked[c][done[1][1]] = "DATA"
      /\ h = handled[c] + Len(done)
      /\ p = chunk[size][2] % REQUEST_PARTS
      /\ rest = SubSeq(inbound[c], size + 1, Len(inbound[c]))
  BY DEF Done, Part, Unread
<1> HIDE DEF chunk, size, done, h, p, rest
<1> USE <1>0
<1>1. /\ inbound[c] \in Seq(Pieces(REQUEST_PARTS)) /\ Len(inbound[c]) \in Nat
      /\ g \in Nat /\ parsed[c] \in Nat
      /\ asked[c] \in Seq(Commands) /\ Len(asked[c]) \in Nat
      /\ sent[c] \in 1 .. REQUEST_PARTS
  BY StreamTypes
<1> DEFINE last == chunk[size]
<1>2. Stream(c)
  BY DEF IInv, Served
<1>3. /\ chunk \in Seq(Pieces(REQUEST_PARTS))
      /\ size \in 1 .. Len(inbound[c])
      /\ \A i \in 1 .. size : chunk[i] = inbound[c][i]
      /\ Consecutive(chunk, g, parsed[c])
      /\ chunk # <<>>
  BY <1>1, ReadTaken
<1>4. last = inbound[c][size] /\ last \in Pieces(REQUEST_PARTS)
  BY <1>1, <1>3
<1>5. last[1] \in Nat /\ last[2] \in 1 .. REQUEST_PARTS /\ last[1] <= Len(asked[c])
  BY <1>2, <1>3, <1>4, Sizes DEF Pieces, Stream
<1>6. /\ done \in Seq(Pieces(REQUEST_PARTS)) /\ Len(done) \in Nat
      /\ \A j \in 1 .. Len(done) : done[j] = <<g + j, REQUEST_PARTS>>
  BY ReadCompletes
<1>7. last[1] = IF last[2] = REQUEST_PARTS THEN h ELSE h + 1
  BY <1>3, ReadCompletes
<1>8. p = IF last[2] = REQUEST_PARTS THEN 0 ELSE last[2]
  <2>1. CASE last[2] = REQUEST_PARTS
    <3>1. REQUEST_PARTS = 1 * REQUEST_PARTS + 0
      BY Sizes
    <3>2. 0 = REQUEST_PARTS % REQUEST_PARTS
      BY <3>1, Sizes, Division
    <3> QED
      BY <2>1, <3>2
  <2>2. CASE last[2] # REQUEST_PARTS
    <3>1. /\ last[2] \in Nat /\ last[2] \in 0 .. REQUEST_PARTS - 1
          /\ last[2] = 0 * REQUEST_PARTS + last[2]
      BY <1>5, <2>2, Sizes
    <3>2. \A q \in Nat, m \in 0 .. REQUEST_PARTS - 1 :
            last[2] = q * REQUEST_PARTS + m => q = last[2] \div REQUEST_PARTS /\ m = last[2] % REQUEST_PARTS
      BY <3>1, Sizes, Division
    <3>3. last[2] = last[2] % REQUEST_PARTS
      BY <3>1, <3>2
    <3> QED
      BY <2>2, <3>3
  <2> QED
    BY <2>1, <2>2
<1> HIDE DEF last
<1>9. h \in 0 .. Len(asked[c]) /\ p \in 0 .. REQUEST_PARTS - 1
  <2>1. h \in Nat /\ (h = last[1] \/ h + 1 = last[1])
    BY <1>1, <1>6, <1>7
  <2>2. h \in 0 .. Len(asked[c])
    BY <1>1, <1>5, <2>1
  <2>3. p \in 0 .. REQUEST_PARTS - 1
    BY <1>5, <1>8, Sizes
  <2> QED
    BY <2>2, <2>3
<1>10. /\ rest \in Seq(Pieces(REQUEST_PARTS))
       /\ Len(rest) = Len(inbound[c]) - size
       /\ \A i \in 1 .. Len(rest) : rest[i] = inbound[c][size + i]
       /\ rest = <<>> <=> Len(rest) = 0
       /\ inbound[c] # <<>>
  <2>1. size + 1 \in Int /\ Len(inbound[c]) \in Int
    BY <1>1, <1>3
  <2>2. \A i \in size + 1 .. Len(inbound[c]) : inbound[c][i] \in Pieces(REQUEST_PARTS)
    BY <1>1, <1>3
  <2>3. /\ rest \in Seq(Pieces(REQUEST_PARTS))
        /\ Len(rest) = IF size + 1 <= Len(inbound[c]) THEN Len(inbound[c]) - (size + 1) + 1 ELSE 0
        /\ \A i \in 1 .. Len(inbound[c]) - (size + 1) + 1 : rest[i] = inbound[c][size + 1 + i - 1]
    BY <2>1, <2>2, SubSeqProperties
  <2>4. rest = <<>> <=> Len(rest) = 0
    BY <2>3, EmptySeq
  <2>5. inbound[c] # <<>>
    BY <1>1, <1>3, EmptySeq
  <2> QED
    BY <1>1, <1>3, <2>3, <2>4, <2>5, SMTT(30)
<1>11. Consecutive(rest, h, p)
  <2>1. rest # <<>> => rest[1] = <<h + 1, p + 1>>
    <3> SUFFICES ASSUME rest # <<>> PROVE rest[1] = <<h + 1, p + 1>>
      OBVIOUS
    <3>1. size \in 1 .. Len(inbound[c]) - 1 /\ 1 \in 1 .. Len(rest)
      BY <1>1, <1>3, <1>10
    <3>2. rest[1] = Following(last)
      BY <1>2, <1>4, <1>10, <3>1 DEF Stream, Consecutive
    <3> QED
      <4>1. CASE last[2] = REQUEST_PARTS
        BY <1>5, <1>7, <1>8, <3>2, <4>1, SMTT(30) DEF Following
      <4>2. CASE last[2] # REQUEST_PARTS
        BY <1>5, <1>7, <1>8, <3>2, <4>2 DEF Following
      <4> QED
        BY <4>1, <4>2
  <2>2. ASSUME NEW i \in 1 .. Len(rest) - 1 PROVE rest[i + 1] = Following(rest[i])
    <3>1. /\ size + i \in 1 .. Len(inbound[c]) - 1
          /\ i \in 1 .. Len(rest) /\ i + 1 \in 1 .. Len(rest)
          /\ size + (i + 1) = (size + i) + 1
      <4>1. size \in Nat /\ i \in Nat /\ Len(rest) = Len(inbound[c]) - size
        BY <1>1, <1>3, <1>10
      <4>2. Len(rest) \in Nat /\ i <= Len(rest) - 1 /\ 1 <= i
        BY <4>1, <1>10
      <4>3. size + i \in 1 .. Len(inbound[c]) - 1
        BY <1>1, <1>3, <4>1, <4>2
      <4>4. i \in 1 .. Len(rest) /\ i + 1 \in 1 .. Len(rest)
        BY <4>1, <4>2
      <4>5. size + (i + 1) = (size + i) + 1
        BY <4>1
      <4> QED
        BY <4>3, <4>4, <4>5
    <3>2. inbound[c][(size + i) + 1] = Following(inbound[c][size + i])
      BY <1>2, <3>1 DEF Stream, Consecutive
    <3> QED
      BY <1>10, <3>1, <3>2
  <2> QED
    BY <2>1, <2>2 DEF Consecutive
<1>12. \A i \in 1 .. Len(rest) : rest[i][1] <= Len(asked[c])
  BY <1>1, <1>2, <1>3, <1>10 DEF Stream
<1>13. rest # <<>> => inbound[c] # <<>> /\ rest[Len(rest)] = inbound[c][Len(inbound[c])]
  <2> SUFFICES ASSUME rest # <<>>
               PROVE  rest[Len(rest)] = inbound[c][Len(inbound[c])]
    BY <1>10
  <2>1. Len(rest) \in 1 .. Len(rest) /\ size + Len(rest) = Len(inbound[c])
    BY <1>1, <1>3, <1>10
  <2> QED
    BY <1>10, <2>1
<1>14. rest = <<>> => IF sent[c] = REQUEST_PARTS
                      THEN p = 0 /\ Len(asked[c]) = h
                      ELSE p = sent[c] /\ Len(asked[c]) = h + 1
  <2> SUFFICES ASSUME rest = <<>>
               PROVE  IF sent[c] = REQUEST_PARTS
                      THEN p = 0 /\ Len(asked[c]) = h
                      ELSE p = sent[c] /\ Len(asked[c]) = h + 1
    OBVIOUS
  <2>1. size = Len(inbound[c]) /\ inbound[c] # <<>>
    BY <1>1, <1>3, <1>10
  <2>2. last = <<Len(asked[c]), sent[c]>>
    BY <1>2, <1>4, <2>1 DEF Stream
  <2> QED
    BY <1>7, <1>8, <2>2
<1>15. \A j \in 1 .. Len(done) : asked[c][g + j] \in Commands
  <2>1. g + Len(done) <= Len(asked[c])
    BY <1>9
  <2>2. ASSUME NEW j \in 1 .. Len(done) PROVE g + j \in 1 .. Len(asked[c])
    <3> HIDE DEF g
    <3> QED
      BY <1>1, <1>6, <2>1
  <2> QED
    BY <1>1, <2>2, ElementOfSeq
<1>16. /\ Replies(c, done) \in Seq(Pieces(REPLY_PARTS))
       /\ Len(Replies(c, done)) = Len(done) * REPLY_PARTS
       /\ \A k \in 1 .. Len(done) * REPLY_PARTS :
            OwnPiece(c, Replies(c, done)[k], g * REPLY_PARTS + k)
  BY <1>1, <1>6, <1>15, RepliesOfChunk
<1> QED
  BY <1>6, <1>9, <1>10, <1>11, <1>12, <1>13, <1>14, <1>16 DEF done, h, p, rest

\* Only open connections have callbacks.
LEMMA CallbackIsOpen ==
  ASSUME IInv, NEW c \in Clients, Callback(READ(c)) \/ Callback(WRITE(c))
  PROVE  conn[c] = "open" /\ blocked = NoClient /\ taken = 0
BY DEF IInv, NoEventOfClosed, Callback, Sleeping

LEMMA ReadPreserves ==
  ASSUME IInv, NEW c \in Clients, on_read_cb(c)
  PROVE  IInv'
<1> DEFINE done == Done(c)
           h == handled[c] + Len(done)
           p == Part(c)
           rest == Unread(c)
           more == Replies(c, done)
<1>1. Callback(READ(c))
  BY DEF on_read_cb
<1>2. CASE Exit
  BY <1>2, ExitPreserves
<1>3. CASE close_connection(c)
  BY <1>1, <1>3, ClosePreserves
<1>4. CASE ~ Exit /\ ~ close_connection(c)
  <2>1. /\ Len(read_data(c)) # 0
        /\ done # <<>> => asked[c][done[1][1]] = "DATA"
        /\ inbound' = [inbound EXCEPT ![c] = rest]
        /\ parsed' = [parsed EXCEPT ![c] = p]
        /\ handled' = [handled EXCEPT ![c] = h]
        /\ answer' = [answer EXCEPT ![c] = @ \o more]
        /\ writing' = [writing EXCEPT ![c] = @ \/ answer'[c] # <<>>]
        /\ pending' = pending \ {READ(c)}
        /\ UNCHANGED <<worker, blocked, taken, conn, peer, asked, sent, outbound, received>>
    BY <1>4 DEF on_read_cb, StartWriting, Done, Part, Unread
  <2>2. /\ Len(done) \in Nat
        /\ h \in 0 .. Len(asked[c])
        /\ p \in 0 .. REQUEST_PARTS - 1
        /\ rest \in Seq(Pieces(REQUEST_PARTS))
        /\ Consecutive(rest, h, p)
        /\ \A i \in 1 .. Len(rest) : rest[i][1] <= Len(asked[c])
        /\ rest # <<>> => inbound[c] # <<>> /\ rest[Len(rest)] = inbound[c][Len(inbound[c])]
        /\ rest = <<>> => IF sent[c] = REQUEST_PARTS
                          THEN p = 0 /\ Len(asked[c]) = h
                          ELSE p = sent[c] /\ Len(asked[c]) = h + 1
        /\ more \in Seq(Pieces(REPLY_PARTS))
    BY <2>1, ReadAnswers
  <2> HIDE DEF done, h, p, rest, more
  <2>3. conn[c] = "open" /\ blocked = NoClient /\ taken = 0
    BY <1>1, CallbackIsOpen
  <2>4. /\ answer[c] \in Seq(Pieces(REPLY_PARTS))
        /\ answer[c] \o more \in Seq(Pieces(REPLY_PARTS))
        /\ answer[c] # <<>> => answer[c] \o more # <<>>
    <3>1. answer[c] \in Seq(Pieces(REPLY_PARTS))
      BY DEF IInv, TypeOK
    <3> QED
      BY <2>2, <3>1, ConcatProperties, ConcatEqualIffEmpty
  <2>5. /\ inbound'[c] = rest /\ parsed'[c] = p /\ handled'[c] = h
        /\ answer'[c] = answer[c] \o more
        /\ writing'[c] = (writing[c] \/ answer'[c] # <<>>)
    BY <2>1 DEF IInv, TypeOK
  <2>6. TypeOK'
    <3>1. inbound' \in [Clients -> Seq(Pieces(REQUEST_PARTS))]
      BY <2>1, <2>2 DEF IInv, TypeOK
    <3>2. parsed' \in [Clients -> 0 .. REQUEST_PARTS - 1]
      BY <2>1, <2>2 DEF IInv, TypeOK
    <3>3. handled' \in [Clients -> 0 .. MAX_REQUESTS]
      <4>1. /\ handled \in [Clients -> 0 .. MAX_REQUESTS]
            /\ Len(asked[c]) \in Nat /\ Len(asked[c]) <= MAX_REQUESTS
        BY DEF IInv, TypeOK
      <4>2. h \in 0 .. MAX_REQUESTS
        BY <2>2, <4>1, Sizes
      <4> QED
        BY <2>1, <4>1, <4>2
    <3>4. answer' \in [Clients -> Seq(Pieces(REPLY_PARTS))]
      BY <2>1, <2>4 DEF IInv, TypeOK
    <3>5. writing' \in [Clients -> BOOLEAN]
      BY <2>1 DEF IInv, TypeOK
    <3>6. pending' \subseteq Events
      BY <2>1 DEF IInv, TypeOK
    <3> QED
      BY <2>1, <3>1, <3>2, <3>3, <3>4, <3>5, <3>6 DEF IInv, TypeOK
  <2>7. Served(c)'
    <3>1. Served(c)
      BY DEF IInv
    <3>2. Linked(c)'
      BY <2>1, <2>3, <3>1 DEF Served, Linked
    <3>3. Watched(c)'
      BY <2>3, <2>4, <2>5, <3>1 DEF Served, Watched
    <3>4. Stream(c)'
      <4>1. /\ peer'[c] = peer[c] /\ asked'[c] = asked[c] /\ sent'[c] = sent[c]
            /\ inbound[c] # <<>> => inbound[c][Len(inbound[c])] = <<Len(asked[c]), sent[c]>>
        BY <2>1, <3>1 DEF Served, Stream
      <4>2. Len(asked[c]) \in Nat
        BY DEF IInv, TypeOK
      <4>3. Consecutive(inbound'[c], handled'[c], parsed'[c])
        BY <2>2, <2>5
      <4> QED
        BY <2>2, <2>5, <4>1, <4>2, <4>3 DEF Stream, Consecutive, Following
    <3> QED
      BY <3>2, <3>3, <3>4 DEF Served
  <2>8. \A d \in Clients \ {c} : Same(d)
    BY <2>1 DEF IInv, TypeOK, Same
  <2>9. Sleeping' /\ NoEventOfClosed'
    BY <2>1, <2>3 DEF IInv, Sleeping, NoEventOfClosed
  <2> QED
    BY <2>6, <2>7, <2>8, <2>9, OthersServed DEF IInv
<1> QED
  BY <1>2, <1>3, <1>4

\* What goes to the kernel fits there.
LEMMA TakenFits ==
  ASSUME IInv, NEW c \in Clients, NEW from \in Nat \ {0}, NEW count \in Nat,
         from + count - 1 <= Len(answer[c]),
         Len(outbound[c]) + count <= SEND_BUFFER,
         Taken(c, from, count)
  PROVE  /\ outbound' \in [Clients -> Seq(Pieces(REPLY_PARTS))]
         /\ \A d \in Clients : Len(outbound'[d]) <= SEND_BUFFER
         /\ \A d \in Clients \ {c} : outbound'[d] = outbound[d]
         /\ outbound'[c] = outbound[c] \o SubSeq(answer[c], from, from + count - 1)
         /\ SubSeq(answer[c], from, from + count - 1) \in Seq(Pieces(REPLY_PARTS))
         /\ Len(outbound'[c]) = Len(outbound[c]) + count
<1> DEFINE P == Pieces(REPLY_PARTS)
           last == from + count - 1
           sub == SubSeq(answer[c], from, last)
<1>1. /\ answer[c] \in Seq(P) /\ outbound[c] \in Seq(P)
      /\ outbound \in [Clients -> Seq(P)]
      /\ \A d \in Clients : Len(outbound[d]) <= SEND_BUFFER
  BY DEF IInv, TypeOK
<1>2. outbound' = [outbound EXCEPT ![c] = outbound[c] \o sub]
  BY <1>1 DEF Taken
<1>3. last \in Int /\ from \in Int
  OBVIOUS
<1>4. \A i \in from .. last : answer[c][i] \in P
  <2>1. \A i \in from .. last : i \in 1 .. Len(answer[c])
    BY <1>1
  <2> QED
    BY <1>1, <2>1, ElementOfSeq
<1>5. /\ sub \in Seq(P)
      /\ Len(sub) = IF from <= last THEN last - from + 1 ELSE 0
  BY <1>3, <1>4, SubSeqProperties
<1>6. Len(sub) = count
  <2> HIDE DEF sub, P
  <2> QED
    BY <1>5
<1> HIDE DEF P, sub
<1>7. /\ outbound[c] \o sub \in Seq(P)
      /\ Len(outbound[c] \o sub) = Len(outbound[c]) + count
  BY <1>1, <1>5, <1>6, ConcatProperties, ZenonT(60)
<1> QED
  BY <1>1, <1>2, <1>5, <1>7 DEF P, sub

\* There is room for a part of the answer.
LEMMA RoomFits ==
  ASSUME IInv, NEW c \in Clients
  PROVE  /\ Room(c) \in 0 .. Len(answer[c])
         /\ Len(outbound[c]) + Room(c) <= SEND_BUFFER
         /\ Len(answer[c]) \in Nat /\ Len(outbound[c]) \in Nat
<1> DEFINE a == Len(answer[c])
           o == Len(outbound[c])
<1>1. a \in Nat /\ o \in Nat /\ o <= SEND_BUFFER /\ SEND_BUFFER \in Nat
  <2>1. /\ answer[c] \in Seq(Pieces(REPLY_PARTS))
        /\ outbound[c] \in Seq(Pieces(REPLY_PARTS))
        /\ o <= SEND_BUFFER
    BY DEF IInv, TypeOK
  <2> QED
    BY <2>1, Sizes
<1>2. Room(c) = IF a < SEND_BUFFER - o THEN a ELSE SEND_BUFFER - o
  BY DEF Room
<1> HIDE DEF a, o
<1>3. Room(c) \in 0 .. a /\ o + Room(c) <= SEND_BUFFER
  BY <1>1, <1>2
<1> QED
  BY <1>1, <1>3 DEF a, o

\* What stays of an answer after a short write is not empty.
LEMMA RestStays ==
  ASSUME IInv, NEW c \in Clients, NEW n \in Nat, n < Len(answer[c]), MoveRest(c, n)
  PROVE  /\ answer' \in [Clients -> Seq(Pieces(REPLY_PARTS))]
         /\ \A d \in Clients \ {c} : answer'[d] = answer[d]
         /\ Len(answer'[c]) = Len(answer[c]) - n
         /\ answer'[c] # <<>>
         /\ writing' = writing
<1> DEFINE P == Pieces(REPLY_PARTS)
           size == Len(answer[c]) - n
           moved == [i \in 1 .. size |-> IF i <= size - n THEN answer[c][i + n] ELSE answer[c][i]]
<1>1. answer[c] \in Seq(P) /\ answer \in [Clients -> Seq(P)] /\ Len(answer[c]) \in Nat
  BY SMTT(30) DEF IInv, TypeOK
<1>2. size \in Nat \ {0}
  BY <1>1
<1>3. answer' = [answer EXCEPT ![c] = moved] /\ writing' = writing
  BY <1>1 DEF MoveRest
<1>4. \A i \in 1 .. size : i \in 1 .. Len(answer[c]) /\ (i <= size - n => i + n \in 1 .. Len(answer[c]))
  BY <1>1
<1>5. \A i \in 1 .. size : moved[i] \in P
  BY <1>1, <1>4, ElementOfSeq
<1> HIDE DEF size, P
<1>6. moved \in Seq(P) /\ Len(moved) = size
  BY <1>2, <1>5
<1> HIDE DEF moved
<1>7. moved # <<>>
  BY <1>2, <1>6
<1> QED
  BY <1>1, <1>3, <1>6, <1>7 DEF size, P

\* A step of write(2) keeps the invariant if it leaves the watcher started exactly
\* with something to write, and sleeps only before the end of the answer.
LEMMA WriteKeeps ==
  ASSUME IInv, NEW c \in Clients, conn[c] = "open",
         UNCHANGED <<worker, conn, parsed, asked, sent, inbound, received, handled>>,
         pending' \subseteq pending,
         peer' = peer \/ (peer[c] = "finished" /\ peer' = [peer EXCEPT ![c] = "reset"]),
         answer' \in [Clients -> Seq(Pieces(REPLY_PARTS))],
         writing' \in [Clients -> BOOLEAN],
         outbound' \in [Clients -> Seq(Pieces(REPLY_PARTS))],
         \A d \in Clients : Len(outbound'[d]) <= SEND_BUFFER,
         \A d \in Clients \ {c} : /\ answer'[d] = answer[d]
                                  /\ writing'[d] = writing[d]
                                  /\ outbound'[d] = outbound[d],
         writing'[c] <=> answer'[c] # <<>>,
         \/ blocked' = NoClient /\ taken' = 0
         \/ blocked' = c /\ taken' \in Nat /\ taken' < Len(answer'[c])
  PROVE  IInv'
<1>1. /\ peer' \in [Clients -> {"absent", "connected", "finished", "reset"}]
      /\ \A d \in Clients \ {c} : peer'[d] = peer[d]
      /\ peer'[c] = peer[c] \/ (peer[c] = "finished" /\ peer'[c] = "reset")
  BY DEF IInv, TypeOK
<1>2. TypeOK'
  BY <1>1 DEF IInv, TypeOK
<1>3. Served(c)'
  <2>1. Served(c)
    BY DEF IInv
  <2>2. Linked(c)' /\ Watched(c)'
    BY <1>1, <2>1 DEF Served, Linked, Watched
  <2>3. Stream(c)'
    BY <1>1, <2>1 DEF Served, Stream, Consecutive, Following
  <2> QED
    BY <2>2, <2>3 DEF Served
<1>4. \A d \in Clients \ {c} : Same(d)
  BY <1>1 DEF Same
<1>5. Sleeping'
  BY LoopAssumption DEF Sleeping
<1>6. NoEventOfClosed'
  BY DEF IInv, NoEventOfClosed
<1> QED
  BY <1>2, <1>3, <1>4, <1>5, <1>6, OthersServed DEF IInv

\* An answer that was written is empty, and its watcher is stopped.
LEMMA WrittenIsEmpty ==
  ASSUME IInv, NEW c \in Clients, Written(c)
  PROVE  /\ answer' \in [Clients -> Seq(Pieces(REPLY_PARTS))]
         /\ writing' \in [Clients -> BOOLEAN]
         /\ answer'[c] = <<>> /\ ~ writing'[c]
         /\ \A d \in Clients \ {c} : answer'[d] = answer[d] /\ writing'[d] = writing[d]
<1>1. /\ answer \in [Clients -> Seq(Pieces(REPLY_PARTS))]
      /\ writing \in [Clients -> BOOLEAN]
  BY DEF IInv, TypeOK
<1> QED
  BY <1>1, EmptySeq DEF Written

\* A write(2) to a client that has gone.
LEMMA WriteToNobodyKeeps ==
  ASSUME IInv, NEW c \in Clients, conn[c] = "open", WriteToNobody(c),
         UNCHANGED <<worker, conn, parsed, asked, sent, inbound, received, handled>>,
         pending' \subseteq pending, blocked' = NoClient, taken' = 0
  PROVE  IInv'
<1>1. /\ outbound' \in [Clients -> Seq(Pieces(REPLY_PARTS))]
      /\ \A d \in Clients : Len(outbound'[d]) <= SEND_BUFFER
      /\ outbound' = outbound
  BY DEF WriteToNobody, IInv, TypeOK
<1>2. peer[c] = "finished" /\ peer' = [peer EXCEPT ![c] = "reset"] /\ Written(c)
  BY DEF WriteToNobody
<1> QED
  BY <1>1, <1>2, WrittenIsEmpty, WriteKeeps

LEMMA WritePreserves ==
  ASSUME IInv, NEW c \in Clients, on_write_cb(c)
  PROVE  IInv'
<1>1. conn[c] = "open" /\ blocked = NoClient /\ taken = 0
  BY CallbackIsOpen DEF on_write_cb
<1>2. /\ UNCHANGED <<worker, conn, parsed, asked, sent, inbound, received, handled>>
      /\ pending' \subseteq pending
  BY DEF on_write_cb
<1>3. CASE WriteToNobody(c) /\ UNCHANGED <<blocked, taken>>
  BY <1>1, <1>2, <1>3, WriteToNobodyKeeps
<1>4. ASSUME Taken(c, 1, Room(c)), peer' = peer
      PROVE  /\ outbound' \in [Clients -> Seq(Pieces(REPLY_PARTS))]
             /\ \A d \in Clients : Len(outbound'[d]) <= SEND_BUFFER
             /\ \A d \in Clients \ {c} : outbound'[d] = outbound[d]
  <2>1. /\ 1 \in Nat \ {0} /\ Room(c) \in Nat /\ 1 + Room(c) - 1 <= Len(answer[c])
        /\ Len(outbound[c]) + Room(c) <= SEND_BUFFER
    BY RoomFits
  <2> QED
    BY <1>4, <2>1, TakenFits
<1>5. CASE Taken(c, 1, Room(c)) /\ peer' = peer /\ Written(c) /\ UNCHANGED <<blocked, taken>>
  BY <1>1, <1>2, <1>4, <1>5, WrittenIsEmpty, WriteKeeps
<1>6. CASE /\ Taken(c, 1, Room(c)) /\ peer' = peer
           /\ Room(c) < Len(answer[c])
           /\ MoveRest(c, Room(c)) /\ UNCHANGED <<blocked, taken>>
  <2>1. /\ answer' \in [Clients -> Seq(Pieces(REPLY_PARTS))]
        /\ \A d \in Clients \ {c} : answer'[d] = answer[d]
        /\ answer'[c] # <<>>
        /\ writing' = writing
    BY <1>6, RoomFits, RestStays
  <2>2. writing \in [Clients -> BOOLEAN] /\ writing[c]
    <3>1. answer[c] # <<>>
      BY <1>6, RoomFits, EmptySeq
    <3> QED
      BY <1>1, <3>1 DEF IInv, TypeOK, Served, Watched
  <2> QED
    BY <1>1, <1>2, <1>4, <1>6, <2>1, <2>2, WriteKeeps
<1>7. CASE /\ Taken(c, 1, Room(c)) /\ peer' = peer
           /\ Room(c) < Len(answer[c])
           /\ blocked' = c /\ taken' = Room(c) /\ UNCHANGED <<answer, writing>>
  <2>1. /\ answer \in [Clients -> Seq(Pieces(REPLY_PARTS))]
        /\ writing \in [Clients -> BOOLEAN]
        /\ writing[c] <=> answer[c] # <<>>
    BY <1>1 DEF IInv, TypeOK, Served, Watched
  <2>2. taken' \in Nat /\ taken' < Len(answer'[c])
    BY <1>7, RoomFits
  <2> QED
    BY <1>1, <1>2, <1>4, <1>7, <2>1, <2>2, WriteKeeps
<1> QED
  BY <1>3, <1>5, <1>6, <1>7 DEF on_write_cb

LEMMA PassPreserves ==
  ASSUME IInv, NEW c \in Clients, WritePasses(c)
  PROVE  IInv'
<1>1. blocked = c /\ conn[c] = "open" /\ taken \in Nat /\ taken < Len(answer[c])
  BY LoopAssumption DEF WritePasses, IInv, TypeOK, Sleeping
<1>2. /\ UNCHANGED <<worker, conn, parsed, asked, sent, inbound, received, handled>>
      /\ pending' = pending
  BY DEF WritePasses
<1>3. CASE WriteToNobody(c) /\ taken' = 0 /\ blocked' = NoClient
  BY <1>1, <1>2, <1>3, WriteToNobodyKeeps
<1>4. CASE /\ Len(outbound[c]) < SEND_BUFFER
           /\ Taken(c, taken + 1, 1)
           /\ peer' = peer
           /\ \/ /\ taken + 1 < Len(answer[c])
                 /\ taken' = taken + 1
                 /\ UNCHANGED <<blocked, answer, writing>>
              \/ Written(c) /\ taken' = 0 /\ blocked' = NoClient
  <2>1. /\ outbound' \in [Clients -> Seq(Pieces(REPLY_PARTS))]
        /\ \A d \in Clients : Len(outbound'[d]) <= SEND_BUFFER
        /\ \A d \in Clients \ {c} : outbound'[d] = outbound[d]
    <3>1. /\ taken + 1 \in Nat \ {0} /\ (taken + 1) + 1 - 1 <= Len(answer[c])
          /\ Len(outbound[c]) + 1 <= SEND_BUFFER
      BY <1>1, <1>4, RoomFits, Sizes
    <3> QED
      BY <1>4, <3>1, TakenFits
  <2>2. CASE Written(c) /\ taken' = 0 /\ blocked' = NoClient
    BY <1>1, <1>2, <1>4, <2>1, <2>2, WrittenIsEmpty, WriteKeeps
  <2>3. CASE taken + 1 < Len(answer[c]) /\ taken' = taken + 1 /\ UNCHANGED <<blocked, answer, writing>>
    <3>1. /\ answer \in [Clients -> Seq(Pieces(REPLY_PARTS))]
          /\ writing \in [Clients -> BOOLEAN]
          /\ writing[c] <=> answer[c] # <<>>
      BY <1>1 DEF IInv, TypeOK, Served, Watched
    <3>2. taken' \in Nat /\ taken' < Len(answer'[c]) /\ blocked' = c
      BY <1>1, <2>3
    <3> QED
      BY <1>1, <1>2, <1>4, <2>1, <2>3, <3>1, <3>2, WriteKeeps
  <2> QED
    BY <1>4, <2>2, <2>3
<1> QED
  BY <1>3, <1>4 DEF WritePasses

LEMMA ReturnsShortPreserves ==
  ASSUME IInv, NEW c \in Clients, WriteReturnsShort(c)
  PROVE  IInv'
<1>1. blocked = c /\ conn[c] = "open" /\ taken \in Nat /\ taken < Len(answer[c])
  BY LoopAssumption DEF WriteReturnsShort, IInv, TypeOK, Sleeping
<1>2. /\ UNCHANGED <<worker, conn, parsed, asked, sent, inbound, received, handled>>
      /\ pending' = pending /\ peer' = peer /\ outbound' = outbound
      /\ MoveRest(c, taken) /\ taken' = 0 /\ blocked' = NoClient
  BY DEF WriteReturnsShort, clientVars
<1>3. /\ answer' \in [Clients -> Seq(Pieces(REPLY_PARTS))]
      /\ \A d \in Clients \ {c} : answer'[d] = answer[d]
      /\ answer'[c] # <<>>
      /\ writing' = writing
  BY <1>1, <1>2, RestStays
<1>4. writing \in [Clients -> BOOLEAN] /\ writing[c]
  <2>1. answer[c] # <<>>
    BY <1>1, EmptySeq
  <2> QED
    BY <1>1, <2>1 DEF IInv, TypeOK, Served, Watched
<1>5. /\ outbound \in [Clients -> Seq(Pieces(REPLY_PARTS))]
      /\ \A d \in Clients : Len(outbound[d]) <= SEND_BUFFER
  BY DEF IInv, TypeOK
<1> QED
  BY <1>1, <1>2, <1>3, <1>4, <1>5, WriteKeeps

-----------------------------------------------------------------------------

LEMMA InitInvariant == Init => IInv
<1> SUFFICES ASSUME Init PROVE IInv
  OBVIOUS
<1> USE DEF Init
<1>1. TypeOK
  <2>1. /\ answer \in [Clients -> Seq(Pieces(REPLY_PARTS))]
        /\ inbound \in [Clients -> Seq(Pieces(REQUEST_PARTS))]
        /\ outbound \in [Clients -> Seq(Pieces(REPLY_PARTS))]
        /\ received \in [Clients -> Seq(Pieces(REPLY_PARTS))]
        /\ asked \in [Clients -> Seq(Commands)]
    BY EmptySeq
  <2> QED
    BY <2>1, Sizes DEF TypeOK, Events
<1>2. \A c \in Clients : Served(c)
  BY Sizes DEF Served, Linked, Stream, Watched, Consecutive
<1>3. Sleeping /\ NoEventOfClosed
  BY DEF Sleeping, NoEventOfClosed
<1> QED
  BY <1>1, <1>2, <1>3 DEF IInv

LEMMA NextPreserves == IInv /\ [Next]_vars => IInv'
<1> SUFFICES ASSUME IInv, [Next]_vars PROVE IInv'
  OBVIOUS
<1>1. CASE UNCHANGED vars
  <2>1. \A c \in Clients : Served(c)'
    BY <1>1, SameServed DEF IInv, Same, vars, serverVars, clientVars
  <2> QED
    BY <1>1, <2>1 DEF IInv, TypeOK, Sleeping, NoEventOfClosed, vars, serverVars, clientVars
<1>2. ASSUME NEW c \in Clients, Connect(c) \/ Send(c) \/ Receive(c) \/ Leave(c)
      PROVE  IInv'
  BY <1>2, ConnectPreserves, SendPreserves, ReceivePreserves, LeavePreserves
<1>3. CASE Poll
  BY <1>3, PollPreserves
<1>4. CASE on_accept_cb
  BY <1>4, AcceptPreserves
<1>5. ASSUME NEW c \in Clients, on_read_cb(c) PROVE IInv'
  BY <1>5, ReadPreserves
<1>6. ASSUME NEW c \in Clients, on_write_cb(c) PROVE IInv'
  BY <1>6, WritePreserves
<1>7. ASSUME NEW c \in Clients, WritePasses(c) PROVE IInv'
  BY <1>7, PassPreserves
<1>8. ASSUME NEW c \in Clients, WriteReturnsShort(c) PROVE IInv'
  BY <1>8, ReturnsShortPreserves
<1>9. ASSUME NEW c \in Clients, WriteEndsWorker(c) PROVE IInv'
  BY <1>9, ExitPreserves DEF WriteEndsWorker
<1>10. CASE Terminate
  BY <1>10, ExitPreserves DEF Terminate
<1>11. CASE proxy_start_work
  BY <1>11, StartPreserves
<1> QED
  BY <1>1, <1>2, <1>3, <1>4, <1>5, <1>6, <1>7, <1>8, <1>9, <1>10, <1>11 DEF Next, Turn

-----------------------------------------------------------------------------
(***************************************************************************)
(* What is on its way to a client.                                         *)
(***************************************************************************)

\* What a client has received and what it will receive.
Way(r, o, u) == (r \o o) \o u
Delivered(c) == Way(received[c], outbound[c], Unsent(c))

\* A part of an answer may be told from what was passed on, or from the rest.
LEMMA WayRegrouped ==
  ASSUME NEW S
  PROVE  \A r, o, a, b \in Seq(S) : Way(r, o \o a, b) = Way(r, o, a \o b)
<1> TAKE r, o, a, b \in Seq(S)
<1>1. r \o (o \o a) = (r \o o) \o a
  BY ConcatAssociative, SMTT(30)
<1>2. r \o o \in Seq(S)
  BY ConcatProperties
<1>3. ((r \o o) \o a) \o b = (r \o o) \o (a \o b)
  BY <1>2, ConcatAssociative, SMTT(30)
<1> QED
  BY <1>1, <1>3 DEF Way

\* Its length.
LEMMA WayLength ==
  ASSUME NEW r \in Seq(Pieces(REPLY_PARTS)), NEW o \in Seq(Pieces(REPLY_PARTS)),
         NEW u \in Seq(Pieces(REPLY_PARTS))
  PROVE  /\ Way(r, o, u) \in Seq(Pieces(REPLY_PARTS))
         /\ Len(Way(r, o, u)) = Len(r) + Len(o) + Len(u)
<1> DEFINE S == Pieces(REPLY_PARTS)
<1>1. r \o o \in Seq(S) /\ Len(r \o o) = Len(r) + Len(o)
  BY ConcatProperties
<1> QED
  BY <1>1, ConcatProperties DEF Way

\* A client reads the first piece of what the kernel holds for it.
LEMMA WayReceived ==
  ASSUME NEW S
  PROVE  \A r, o, u \in Seq(S) : o # <<>> => Way(Append(r, Head(o)), Tail(o), u) = Way(r, o, u)
<1> TAKE r, o, u \in Seq(S)
<1> SUFFICES ASSUME o # <<>> PROVE Way(Append(r, Head(o)), Tail(o), u) = Way(r, o, u)
  OBVIOUS
<1>1. Head(o) \in S /\ Tail(o) \in Seq(S) /\ <<Head(o)>> \in Seq(S)
  BY HeadTailProperties
<1>2. Append(r, Head(o)) = r \o <<Head(o)>>
  BY <1>1, AppendIsConcat
<1>3. (r \o <<Head(o)>>) \o Tail(o) = r \o (<<Head(o)>> \o Tail(o))
  BY <1>1, ConcatAssociative
<1>4. <<Head(o)>> \o Tail(o) = o
  OBVIOUS
<1> QED
  BY <1>2, <1>3, <1>4 DEF Way

LEMMA UnsentIsRest ==
  ASSUME IInv, NEW c \in Clients
  PROVE  /\ received[c] \in Seq(Pieces(REPLY_PARTS))
         /\ outbound[c] \in Seq(Pieces(REPLY_PARTS))
         /\ answer[c] \in Seq(Pieces(REPLY_PARTS))
         /\ Unsent(c) \in Seq(Pieces(REPLY_PARTS))
         /\ Len(Unsent(c)) = Len(answer[c]) - (IF blocked = c THEN taken ELSE 0)
         /\ blocked # c => Unsent(c) = answer[c]
<1> DEFINE P == Pieces(REPLY_PARTS)
           s == IF blocked = c THEN taken ELSE 0
<1>1. received[c] \in Seq(P) /\ outbound[c] \in Seq(P) /\ answer[c] \in Seq(P) /\ Len(answer[c]) \in Nat
  BY DEF IInv, TypeOK
<1>2. s \in 0 .. Len(answer[c])
  BY <1>1, LoopAssumption DEF IInv, TypeOK, Sleeping
<1>3. Unsent(c) = SubSeq(answer[c], s + 1, Len(answer[c]))
  BY DEF Unsent
<1>4. blocked # c => s = 0
  OBVIOUS
<1> HIDE DEF P, s
<1>5. s + 1 \in Int /\ Len(answer[c]) \in Int
  BY <1>1, <1>2
<1>6. \A i \in s + 1 .. Len(answer[c]) : answer[c][i] \in P
  BY <1>1, <1>2, ElementOfSeq
<1>7. /\ Unsent(c) \in Seq(P)
      /\ Len(Unsent(c)) = IF s + 1 <= Len(answer[c]) THEN Len(answer[c]) - (s + 1) + 1 ELSE 0
  BY <1>3, <1>5, <1>6, SubSeqProperties
<1>8. Len(Unsent(c)) = Len(answer[c]) - s
  BY <1>1, <1>2, <1>7
<1>9. blocked # c => Unsent(c) = answer[c]
  BY <1>1, <1>3, <1>4, SubSeqFull
<1> QED
  BY <1>1, <1>7, <1>8, <1>9 DEF P, s

\* Passing on a part of an answer keeps what is on its way.
LEMMA PassingKeeps ==
  ASSUME IInv, NEW c \in Clients, NEW s \in Nat, NEW n \in Nat,
         s = (IF blocked = c THEN taken ELSE 0), s + n <= Len(answer[c]),
         outbound'[c] = outbound[c] \o SubSeq(answer[c], s + 1, s + n),
         received'[c] = received[c],
         \/ s + n = Len(answer[c]) /\ Unsent(c)' = <<>>
         \/ Unsent(c)' = SubSeq(answer[c], (s + n) + 1, Len(answer[c]))
  PROVE  Delivered(c)' = Delivered(c)
<1> DEFINE P == Pieces(REPLY_PARTS)
           a == SubSeq(answer[c], s + 1, s + n)
           b == SubSeq(answer[c], (s + n) + 1, Len(answer[c]))
<1>1. /\ received[c] \in Seq(P) /\ outbound[c] \in Seq(P) /\ answer[c] \in Seq(P)
      /\ Len(answer[c]) \in Nat
  BY DEF IInv, TypeOK
<1>2. Unsent(c) = SubSeq(answer[c], s + 1, Len(answer[c]))
  BY DEF Unsent
<1>3. s + n = Len(answer[c]) => b = <<>>
  <2>1. Len(answer[c]) \in Int /\ (s + n) + 1 \in Int
    BY <1>1
  <2>2. s + n = Len(answer[c]) => Len(answer[c]) < (s + n) + 1
    BY <1>1
  <2> QED
    BY <2>1, <2>2, SubSeqEmpty
<1>4. Unsent(c)' = b
  BY <1>3
<1>5. /\ s + 1 \in 1 .. Len(answer[c]) + 1
      /\ s + n \in (s + 1) - 1 .. Len(answer[c])
      /\ Len(answer[c]) \in s + n .. Len(answer[c])
  BY <1>1
<1>6. a \o b = Unsent(c)
  BY <1>1, <1>2, <1>5, ConcatAdjacentSubSeq
<1>7. a \in Seq(P) /\ b \in Seq(P)
  <2>1. /\ \A i \in s + 1 .. s + n : answer[c][i] \in P
        /\ \A i \in (s + n) + 1 .. Len(answer[c]) : answer[c][i] \in P
    BY <1>1, ElementOfSeq
  <2>2. s + 1 \in Int /\ s + n \in Int /\ (s + n) + 1 \in Int /\ Len(answer[c]) \in Int
    BY <1>1
  <2> HIDE DEF P
  <2> QED
    BY <2>1, <2>2, SubSeqProperties
<1> HIDE DEF P, a, b
<1>8. Delivered(c)' = Way(received[c], outbound[c] \o a, b)
  BY <1>4 DEF Delivered, a
<1>9. Way(received[c], outbound[c] \o a, b) = Way(received[c], outbound[c], a \o b)
  BY <1>1, <1>7, WayRegrouped
<1> QED
  BY <1>6, <1>8, <1>9 DEF Delivered

\* A step keeps what is on its way to a client; a write cut short keeps its length.
Kept(c) ==
  /\ peer[c] = "connected"
  /\ handled'[c] = handled[c]
  /\ Len(Delivered(c)') = Len(Delivered(c))
  /\ ~ PartialWrites => Delivered(c)' = Delivered(c)

\* A read adds the replies to the requests that it completes.
Extended(c) ==
  /\ peer[c] = "connected"
  /\ Len(read_data(c)) # 0
  /\ Done(c) # <<>> => asked[c][Done(c)[1][1]] = "DATA"
  /\ handled'[c] = handled[c] + Len(Done(c))
  /\ asked' = asked
  /\ Delivered(c)' = Delivered(c) \o Replies(c, Done(c))

\* A step of somebody else.
LEMMA OthersKept ==
  ASSUME NEW c \in Clients, peer[c] = "connected",
         UNCHANGED <<answer[c], outbound[c], received[c], handled[c]>>,
         UNCHANGED <<blocked, taken>> \/ (blocked # c /\ blocked' # c)
  PROVE  Kept(c)
BY DEF Kept, Delivered, Unsent

\* Nobody stays connected when the worker ends.
LEMMA ExitDisconnects ==
  ASSUME IInv, Exit, NEW c \in Clients
  PROVE  peer'[c] # "connected"
<1>1. /\ conn[c] = "none" <=> peer[c] = "absent"
      /\ conn[c] = "closed" => peer[c] = "reset"
      /\ conn[c] \in {"none", "backlog", "open", "closed"}
  BY DEF IInv, TypeOK, Served, Linked
<1>2. peer'[c] = IF conn[c] \in {"backlog", "open"} THEN "reset" ELSE peer[c]
  BY DEF Exit
<1> QED
  BY <1>1, <1>2

\* Nothing is on its way to a client that has just connected.
LEMMA ConnectDelivers ==
  ASSUME IInv, NEW c \in Clients, Connect(c)
  PROVE  handled'[c] = 0 /\ Delivered(c)' = <<>>
<1>1. /\ conn[c] = "none" /\ answer[c] = <<>> /\ outbound[c] = <<>> /\ received[c] = <<>>
      /\ handled[c] = 0
  BY DEF IInv, TypeOK, Served, Linked, Connect
<1>2. UNCHANGED <<answer, outbound, received, handled, blocked, taken>>
  BY DEF Connect
<1>3. blocked # c
  BY <1>1, LoopAssumption DEF IInv, Sleeping
<1>4. Unsent(c)' = SubSeq(<<>>, 1, 0)
  BY <1>1, <1>2, <1>3 DEF Unsent
<1>5. SubSeq(<<>>, 1, 0) = <<>>
  OBVIOUS
<1>6. Way(<<>>, <<>>, <<>>) = <<>>
  BY DEF Way
<1> QED
  BY <1>1, <1>2, <1>4, <1>5, <1>6 DEF Delivered

LEMMA ReceiveKeeps ==
  ASSUME IInv, NEW c \in Clients, Receive(c)
  PROVE  Kept(c)
<1> DEFINE P == Pieces(REPLY_PARTS)
<1>1. /\ peer[c] = "connected" /\ outbound[c] # <<>>
      /\ received'[c] = Append(received[c], Head(outbound[c]))
      /\ outbound'[c] = Tail(outbound[c])
      /\ UNCHANGED <<answer, blocked, taken, handled>>
  BY DEF Receive, serverVars, IInv, TypeOK
<1>2. received[c] \in Seq(P) /\ outbound[c] \in Seq(P) /\ Unsent(c) \in Seq(P)
  BY UnsentIsRest
<1>3. Unsent(c)' = Unsent(c)
  BY <1>1 DEF Unsent
<1> HIDE DEF P
<1>4. Way(Append(received[c], Head(outbound[c])), Tail(outbound[c]), Unsent(c))
         = Way(received[c], outbound[c], Unsent(c))
  BY <1>1, <1>2, WayReceived
<1>5. Delivered(c)' = Delivered(c)
  BY <1>1, <1>3, <1>4 DEF Delivered
<1> QED
  BY <1>1, <1>5 DEF Kept

LEMMA ReadDelivers ==
  ASSUME IInv, NEW c \in Clients, on_read_cb(c), peer'[c] = "connected"
  PROVE  Extended(c)
<1> DEFINE P == Pieces(REPLY_PARTS)
           done == Done(c)
           more == Replies(c, done)
<1>1. conn[c] = "open" /\ blocked = NoClient /\ taken = 0
  BY CallbackIsOpen DEF on_read_cb
<1>2. ~ Exit
  BY ExitDisconnects
<1>3. ~ Released(c)
  BY DEF Released, IInv, TypeOK
<1>4. /\ Len(read_data(c)) # 0
      /\ done # <<>> => asked[c][done[1][1]] = "DATA"
      /\ handled' = [handled EXCEPT ![c] = @ + Len(done)]
      /\ answer' = [answer EXCEPT ![c] = @ \o more]
      /\ UNCHANGED <<blocked, taken, peer, asked, outbound, received>>
  BY <1>2, <1>3 DEF on_read_cb, close_connection, Done
<1>5. more \in Seq(P)
  BY <1>4, ReadAnswers
<1> HIDE DEF done, more
<1>6. /\ received[c] \in Seq(P) /\ outbound[c] \in Seq(P) /\ answer[c] \in Seq(P)
      /\ Unsent(c) = answer[c]
  BY <1>1, LoopAssumption, UnsentIsRest
<1>7. handled'[c] = handled[c] + Len(done) /\ answer'[c] = answer[c] \o more
  BY <1>4 DEF IInv, TypeOK
<1>8. Unsent(c)' = answer[c] \o more
  <2>1. Unsent(c)' = SubSeq(answer'[c], 1, Len(answer'[c]))
    BY <1>1, <1>4, LoopAssumption DEF Unsent
  <2>2. answer'[c] \in Seq(P)
    BY <1>5, <1>6, <1>7, ConcatProperties
  <2> QED
    BY <1>7, <2>1, <2>2, SubSeqFull
<1> HIDE DEF P
<1>9. Way(received[c], outbound[c], answer[c] \o more) = Way(received[c], outbound[c], answer[c]) \o more
  <2> DEFINE x == received[c] \o outbound[c]
             a == answer[c]
  <2>1. x \in Seq(P) /\ a \in Seq(P)
    BY <1>6, ConcatProperties
  <2> HIDE DEF x, a
  <2>2. (x \o a) \o more = x \o (a \o more)
    BY <1>5, <2>1, ConcatAssociative
  <2> QED
    BY <2>2 DEF Way, x, a
<1>10. Delivered(c)' = Delivered(c) \o more
  BY <1>4, <1>6, <1>8, <1>9 DEF Delivered
<1> QED
  BY <1>4, <1>7, <1>10 DEF Extended, done, more

LEMMA DeliveredLength ==
  ASSUME NEW c \in Clients,
         received[c] \in Seq(Pieces(REPLY_PARTS)), outbound[c] \in Seq(Pieces(REPLY_PARTS)),
         Unsent(c) \in Seq(Pieces(REPLY_PARTS))
  PROVE  Len(Delivered(c)) = Len(received[c]) + Len(outbound[c]) + Len(Unsent(c))
BY WayLength DEF Delivered

LEMMA DeliveredLengthNext ==
  ASSUME NEW c \in Clients, received'[c] = received[c], Unsent(c)' = answer'[c],
         received[c] \in Seq(Pieces(REPLY_PARTS)), outbound'[c] \in Seq(Pieces(REPLY_PARTS)),
         answer'[c] \in Seq(Pieces(REPLY_PARTS))
  PROVE  Len(Delivered(c)') = Len(received[c]) + Len(outbound'[c]) + Len(answer'[c])
<1> DEFINE r == received[c]
           o == outbound'[c]
           u == answer'[c]
<1>1. Delivered(c)' = Way(r, o, u)
  BY DEF Delivered
<1>2. r \in Seq(Pieces(REPLY_PARTS)) /\ o \in Seq(Pieces(REPLY_PARTS)) /\ u \in Seq(Pieces(REPLY_PARTS))
  OBVIOUS
<1> HIDE DEF r, o, u
<1>3. Len(Way(r, o, u)) = Len(r) + Len(o) + Len(u)
  BY <1>2, WayLength
<1> QED
  BY <1>1, <1>3 DEF r, o, u

\* The rest of an answer that was moved is as long as what was not passed on.
LEMMA ShortWriteKeepsLength ==
  ASSUME IInv, NEW c \in Clients, blocked = NoClient, blocked' = NoClient, PartialWrites,
         peer[c] = "connected", received'[c] = received[c], handled'[c] = handled[c],
         Taken(c, 1, Room(c)), Room(c) < Len(answer[c]), MoveRest(c, Room(c))
  PROVE  Kept(c)
<1> DEFINE P == Pieces(REPLY_PARTS)
           n == Room(c)
<1>1. n \in Nat /\ n <= Len(answer[c]) /\ Len(outbound[c]) + n <= SEND_BUFFER
      /\ Len(answer[c]) \in Nat /\ Len(outbound[c]) \in Nat
  BY RoomFits
<1>2. received[c] \in Seq(P) /\ outbound[c] \in Seq(P) /\ Unsent(c) \in Seq(P)
      /\ Len(Unsent(c)) = Len(answer[c])
  BY LoopAssumption, UnsentIsRest
<1>3. outbound'[c] \in Seq(P) /\ Len(outbound'[c]) = Len(outbound[c]) + n
  <2>1. 1 \in Nat \ {0} /\ 1 + n - 1 <= Len(answer[c])
    BY <1>1
  <2> QED
    BY <1>1, <2>1, TakenFits
<1>4. answer'[c] \in Seq(P) /\ Len(answer'[c]) = Len(answer[c]) - n
  BY <1>1, RestStays
<1>5. Unsent(c)' = answer'[c]
  <2>1. Unsent(c)' = SubSeq(answer'[c], 1, Len(answer'[c]))
    BY LoopAssumption DEF Unsent
  <2> QED
    BY <1>4, <2>1, SubSeqFull
<1> HIDE DEF P, n
<1>6. /\ Len(Delivered(c)) = Len(received[c]) + Len(outbound[c]) + Len(Unsent(c))
      /\ Len(Delivered(c)') = Len(received[c]) + Len(outbound'[c]) + Len(answer'[c])
  BY <1>2, <1>3, <1>4, <1>5, DeliveredLength, DeliveredLengthNext DEF P
<1>7. Len(received[c]) \in Nat
  BY <1>2
<1>8. Len(Delivered(c)') = Len(Delivered(c))
  <2> DEFINE a == Len(answer[c])
             o == Len(outbound[c])
             r == Len(received[c])
  <2>1. /\ Len(Delivered(c)) = r + o + a
        /\ Len(Delivered(c)') = r + (o + n) + (a - n)
    BY <1>2, <1>3, <1>4, <1>6
  <2>2. a \in Nat /\ o \in Nat /\ r \in Nat
    BY <1>1, <1>7
  <2> HIDE DEF a, o, r
  <2> QED
    BY <1>1, <2>1, <2>2
<1> QED
  BY <1>8 DEF Kept

\* The same for a write that had slept: it keeps its length when it is cut.
LEMMA CutKeepsLength ==
  ASSUME IInv, NEW c \in Clients, WriteReturnsShort(c), peer'[c] = "connected"
  PROVE  Kept(c)
<1> DEFINE P == Pieces(REPLY_PARTS)
<1>1. blocked = c /\ taken \in Nat /\ taken < Len(answer[c])
  BY LoopAssumption DEF WriteReturnsShort, IInv, TypeOK, Sleeping
<1>2. /\ UNCHANGED <<peer, handled, outbound, received>>
      /\ MoveRest(c, taken) /\ blocked' = NoClient
      /\ SleepEnds(c)
  BY DEF WriteReturnsShort, clientVars
<1>3. peer[c] = "connected" /\ PartialWrites
  BY <1>2 DEF SleepEnds
<1>4. /\ received[c] \in Seq(P) /\ outbound[c] \in Seq(P) /\ Unsent(c) \in Seq(P)
      /\ Len(Unsent(c)) = Len(answer[c]) - taken
  BY <1>1, UnsentIsRest
<1>5. answer'[c] \in Seq(P) /\ Len(answer'[c]) = Len(answer[c]) - taken
  BY <1>1, <1>2, RestStays
<1>6. Unsent(c)' = answer'[c]
  <2>1. Unsent(c)' = SubSeq(answer'[c], 1, Len(answer'[c]))
    BY <1>2, LoopAssumption DEF Unsent
  <2> QED
    BY <1>5, <2>1, SubSeqFull
<1> HIDE DEF P
<1>7. /\ Len(Delivered(c)) = Len(received[c]) + Len(outbound[c]) + Len(Unsent(c))
      /\ Len(Delivered(c)') = Len(received[c]) + Len(outbound'[c]) + Len(answer'[c])
  BY <1>2, <1>4, <1>5, <1>6, DeliveredLength, DeliveredLengthNext DEF P
<1> QED
  BY <1>2, <1>3, <1>4, <1>5, <1>7 DEF Kept

\* What write(2) passes on, the client gets in its place.
LEMMA WriteKeepsDelivered ==
  ASSUME IInv, NEW c \in Clients, on_write_cb(c), peer'[c] = "connected"
  PROVE  Kept(c)
<1>1. conn[c] = "open" /\ blocked = NoClient /\ taken = 0
  BY CallbackIsOpen DEF on_write_cb
<1>2. /\ answer \in [Clients -> Seq(Pieces(REPLY_PARTS))]
      /\ outbound \in [Clients -> Seq(Pieces(REPLY_PARTS))]
      /\ peer \in [Clients -> {"absent", "connected", "finished", "reset"}]
  BY DEF IInv, TypeOK
<1>3. received'[c] = received[c] /\ handled'[c] = handled[c]
  BY DEF on_write_cb
<1>4. ~ WriteToNobody(c)
  BY <1>2 DEF WriteToNobody
<1>5. /\ peer[c] = "connected"
      /\ Taken(c, 1, Room(c))
      /\ \/ Room(c) = Len(answer[c]) /\ Written(c)
         \/ /\ Room(c) < Len(answer[c]) /\ PartialWrites /\ MoveRest(c, Room(c))
            /\ blocked' = blocked
         \/ /\ Room(c) < Len(answer[c])
            /\ blocked' = c /\ taken' = Room(c) /\ answer' = answer
  BY <1>4 DEF on_write_cb
<1>6. Room(c) \in Nat /\ Room(c) <= Len(answer[c]) /\ Len(answer[c]) \in Nat
  BY RoomFits
<1>7. CASE Room(c) < Len(answer[c]) /\ PartialWrites /\ MoveRest(c, Room(c)) /\ blocked' = blocked
  BY <1>1, <1>3, <1>5, <1>7, ShortWriteKeepsLength
<1>8. CASE ~ (Room(c) < Len(answer[c]) /\ PartialWrites /\ MoveRest(c, Room(c)) /\ blocked' = blocked)
  <2> DEFINE n == Room(c)
  <2>1. outbound'[c] = outbound[c] \o SubSeq(answer[c], 0 + 1, 0 + n)
    <3>1. outbound'[c] = outbound[c] \o SubSeq(answer[c], 1, 1 + n - 1)
      BY <1>2, <1>5 DEF Taken
    <3>2. 1 + n - 1 = 0 + n /\ 0 + 1 = 1
      BY <1>6
    <3> QED
      BY <3>1, <3>2, Zenon
  <2>2. 0 = (IF blocked = c THEN taken ELSE 0) /\ 0 + n <= Len(answer[c])
    BY <1>1, <1>6
  <2>3. \/ 0 + n = Len(answer[c]) /\ Unsent(c)' = <<>>
        \/ Unsent(c)' = SubSeq(answer[c], (0 + n) + 1, Len(answer[c]))
    <3>1. CASE n = Len(answer[c]) /\ Written(c)
      <4>1. answer'[c] = <<>> /\ Len(answer'[c]) = 0
        BY <1>2, <3>1, EmptySeq DEF Written
      <4>2. Unsent(c)' = <<>>
        <5> DEFINE m == IF blocked' = c THEN taken' ELSE 0
        <5>1. Unsent(c)' = SubSeq(<<>>, m + 1, 0)
          <6>1. Unsent(c)' = SubSeq(answer'[c], m + 1, Len(answer'[c]))
            BY DEF Unsent
          <6> QED
            BY <4>1, <6>1, Zenon
        <5>2. taken' \in Nat
          <6>1. IInv'
            BY WritePreserves
          <6> QED
            BY <6>1 DEF IInv, TypeOK
        <5>3. m \in Nat
          BY <5>2
        <5> HIDE DEF m
        <5>4. m + 1 \in Int /\ 0 \in Int /\ 0 < m + 1
          BY <5>3
        <5> QED
          BY <5>1, <5>4, SubSeqEmpty
      <4> QED
        BY <1>6, <3>1, <4>2
    <3>2. CASE blocked' = c /\ taken' = n /\ answer' = answer
      BY <1>6, <3>2 DEF Unsent
    <3> QED
      BY <1>5, <1>8, <3>1, <3>2
  <2>4. n \in Nat /\ 0 \in Nat
    BY <1>6
  <2> HIDE DEF n
  <2>5. Delivered(c)' = Delivered(c)
    BY <1>3, <2>1, <2>2, <2>3, <2>4, PassingKeeps
  <2> QED
    BY <1>3, <1>5, <2>5 DEF Kept
<1> QED
  BY <1>7, <1>8

LEMMA PassKeepsDelivered ==
  ASSUME IInv, NEW c \in Clients, WritePasses(c), peer'[c] = "connected"
  PROVE  Kept(c)
<1>1. /\ answer \in [Clients -> Seq(Pieces(REPLY_PARTS))]
      /\ outbound \in [Clients -> Seq(Pieces(REPLY_PARTS))]
      /\ peer \in [Clients -> {"absent", "connected", "finished", "reset"}]
      /\ taken \in Nat
  BY DEF IInv, TypeOK
<1>2. blocked = c /\ received'[c] = received[c] /\ handled'[c] = handled[c]
  BY DEF WritePasses
<1>3. taken < Len(answer[c])
  BY <1>2, LoopAssumption DEF IInv, Sleeping
<1>4. ~ WriteToNobody(c)
  BY <1>1 DEF WriteToNobody
<1>5. /\ peer[c] = "connected"
      /\ Taken(c, taken + 1, 1)
      /\ \/ taken' = taken + 1 /\ blocked' = blocked /\ answer' = answer
         \/ taken + 1 = Len(answer[c]) /\ Written(c) /\ taken' = 0 /\ blocked' = NoClient
  BY <1>4 DEF WritePasses
<1>6. taken + 1 <= Len(answer[c]) /\ Len(answer[c]) \in Nat
  BY <1>1, <1>3
<1>7. outbound'[c] = outbound[c] \o SubSeq(answer[c], taken + 1, taken + 1)
  <2>1. (taken + 1) + 1 - 1 = taken + 1
    BY <1>1
  <2> QED
    BY <1>1, <1>5, <2>1 DEF Taken
<1>8. \/ taken + 1 = Len(answer[c]) /\ Unsent(c)' = <<>>
      \/ Unsent(c)' = SubSeq(answer[c], (taken + 1) + 1, Len(answer[c]))
  <2>1. CASE taken' = taken + 1 /\ blocked' = blocked /\ answer' = answer
    BY <1>2, <2>1 DEF Unsent
  <2>2. CASE taken + 1 = Len(answer[c]) /\ Written(c) /\ taken' = 0 /\ blocked' = NoClient
    <3>1. answer'[c] = <<>> /\ Len(answer'[c]) = 0
      BY <1>1, <2>2, EmptySeq DEF Written
    <3>2. Unsent(c)' = SubSeq(<<>>, 1, 0)
      BY <2>2, <3>1, LoopAssumption DEF Unsent
    <3>3. SubSeq(<<>>, 1, 0) = <<>>
      OBVIOUS
    <3> QED
      BY <2>2, <3>2, <3>3
  <2> QED
    BY <1>5, <2>1, <2>2
<1>9. taken = (IF blocked = c THEN taken ELSE 0) /\ 1 \in Nat
  BY <1>2
<1>10. Delivered(c)' = Delivered(c)
  BY <1>1, <1>2, <1>6, <1>7, <1>8, <1>9, PassingKeeps
<1> QED
  BY <1>2, <1>5, <1>10 DEF Kept

\* What a step does to what is on its way to a client that stays connected.
LEMMA Delivery ==
  ASSUME IInv, [Next]_vars, NEW c \in Clients, peer'[c] = "connected"
  PROVE  \/ handled'[c] = 0 /\ Delivered(c)' = <<>>
         \/ Kept(c)
         \/ Extended(c)
<1>1. /\ blocked = NoClient \/ (blocked \in Clients /\ conn[blocked] = "open")
      /\ peer \in [Clients -> {"absent", "connected", "finished", "reset"}]
      /\ outbound \in [Clients -> Seq(Pieces(REPLY_PARTS))]
      /\ answer \in [Clients -> Seq(Pieces(REPLY_PARTS))]
      /\ received \in [Clients -> Seq(Pieces(REPLY_PARTS))]
      /\ handled \in [Clients -> 0 .. MAX_REQUESTS]
      /\ NoClient # c
  BY LoopAssumption DEF IInv, TypeOK, Sleeping
<1>2. ~ Exit
  BY ExitDisconnects
<1>3. CASE UNCHANGED vars
  BY <1>3, OthersKept DEF vars, serverVars, clientVars
<1>4. CASE Poll \/ proxy_start_work
  BY <1>4, OthersKept DEF Poll, proxy_start_work, clientVars
<1>5. CASE on_accept_cb
  BY <1>2, <1>5, OthersKept DEF on_accept_cb, clientVars
<1>6. CASE Connect(c)
  BY <1>6, ConnectDelivers
<1>7. CASE Send(c)
  BY <1>7, OthersKept DEF Send, serverVars
<1>8. CASE Receive(c)
  BY <1>8, ReceiveKeeps
<1>9. CASE Leave(c)
  BY <1>1, <1>9 DEF Leave
<1>10. CASE on_read_cb(c)
  BY <1>10, ReadDelivers
<1>11. CASE on_write_cb(c)
  BY <1>11, WriteKeepsDelivered
<1>12. CASE WritePasses(c)
  BY <1>12, PassKeepsDelivered
<1>13. CASE WriteReturnsShort(c)
  BY <1>13, CutKeepsLength
<1>14. ASSUME NEW d \in Clients \ {c},
              Connect(d) \/ Send(d) \/ Receive(d) \/ Leave(d)
       PROVE  Kept(c)
  <2>1. /\ peer[c] = "connected"
        /\ UNCHANGED <<answer[c], outbound[c], received[c], handled[c]>>
        /\ UNCHANGED <<blocked, taken>>
    BY <1>1, <1>14 DEF Connect, Send, Receive, Leave, serverVars
  <2> QED
    BY <2>1, OthersKept
<1>15. ASSUME NEW d \in Clients \ {c}, on_read_cb(d)
       PROVE  Kept(c)
  <2>1. /\ peer[c] = "connected"
        /\ UNCHANGED <<answer[c], outbound[c], received[c], handled[c]>>
        /\ UNCHANGED <<blocked, taken>>
    BY <1>1, <1>2, <1>15 DEF on_read_cb, close_connection, Released
  <2> QED
    BY <2>1, OthersKept
<1>16. ASSUME NEW d \in Clients \ {c},
              on_write_cb(d) \/ WritePasses(d) \/ WriteReturnsShort(d)
       PROVE  Kept(c)
  <2>1. /\ peer[c] = "connected"
        /\ UNCHANGED <<answer[c], outbound[c], received[c], handled[c]>>
    BY <1>1, <1>16 DEF on_write_cb, WritePasses, WriteReturnsShort, WriteToNobody, Written,
                       MoveRest, Taken, clientVars
  <2>2. UNCHANGED <<blocked, taken>> \/ (blocked # c /\ blocked' # c)
    BY <1>1, <1>16 DEF on_write_cb, WritePasses, WriteReturnsShort, Callback
  <2> QED
    BY <2>1, <2>2, OthersKept
<1>17. \A d \in Clients : ~ WriteEndsWorker(d)
  BY <1>2 DEF WriteEndsWorker
<1>18. ~ Terminate
  BY <1>2 DEF Terminate
<1>19. CASE \E d \in Clients \ {c} :
              \/ Connect(d) \/ Send(d) \/ Receive(d) \/ Leave(d)
              \/ on_read_cb(d) \/ on_write_cb(d) \/ WritePasses(d) \/ WriteReturnsShort(d)
  BY <1>14, <1>15, <1>16, <1>19
<1> QED
  BY <1>3, <1>4, <1>5, <1>6, <1>7, <1>8, <1>9, <1>10, <1>11, <1>12, <1>13, <1>17, <1>18, <1>19
     DEF Next, Turn

-----------------------------------------------------------------------------
(***************************************************************************)
(* Counting and ordering the replies.                                      *)
(***************************************************************************)

Counted == \A c \in Clients : peer[c] = "connected" => Len(Delivered(c)) = handled[c] * REPLY_PARTS

LEMMA CountedPreserved ==
  ASSUME IInv, Counted, [Next]_vars
  PROVE  Counted'
<1> SUFFICES ASSUME NEW c \in Clients, peer'[c] = "connected"
             PROVE  Len(Delivered(c)') = handled'[c] * REPLY_PARTS
  BY DEF Counted
<1>1. handled[c] \in Nat
  BY Sizes DEF IInv, TypeOK
<1>2. CASE handled'[c] = 0 /\ Delivered(c)' = <<>>
  <2>1. Len(<<>>) = 0 /\ 0 * REPLY_PARTS = 0
    BY Sizes
  <2> QED
    BY <1>2, <2>1
<1>3. CASE Kept(c)
  BY <1>3 DEF Kept, Counted
<1>4. CASE Extended(c)
  <2> DEFINE more == Replies(c, Done(c))
             d == Len(Done(c))
             P == Pieces(REPLY_PARTS)
  <2>1. d \in Nat /\ more \in Seq(P) /\ Len(more) = d * REPLY_PARTS
    BY <1>4, ReadAnswers DEF Extended
  <2>2. Delivered(c) \in Seq(P)
    BY UnsentIsRest, WayLength DEF Delivered
  <2>3. Delivered(c)' = Delivered(c) \o more /\ handled'[c] = handled[c] + d
        /\ Len(Delivered(c)) = handled[c] * REPLY_PARTS
    BY <1>4 DEF Extended, Counted
  <2> HIDE DEF more, d, P
  <2>4. Len(Delivered(c)') = handled[c] * REPLY_PARTS + d * REPLY_PARTS
    <3> DEFINE old == Delivered(c)
    <3>1. old \in Seq(P) /\ more \in Seq(P)
      BY <2>1, <2>2
    <3> HIDE DEF old
    <3>2. Len(old \o more) = Len(old) + Len(more)
      BY <3>1, ConcatProperties
    <3> QED
      BY <2>1, <2>3, <3>2 DEF old
  <2>5. (handled[c] + d) * REPLY_PARTS = handled[c] * REPLY_PARTS + d * REPLY_PARTS
    BY <1>1, <2>1, Sizes, ProductGrows
  <2> QED
    BY <2>3, <2>4, <2>5
<1> QED
  BY <1>2, <1>3, <1>4, Delivery

\* Requests are only added, and nobody but a connected client receives.
LEMMA HistoryGrows ==
  ASSUME IInv, [Next]_vars, NEW c \in Clients
  PROVE  /\ \A n \in 1 .. Len(asked[c]) : asked'[c][n] = asked[c][n]
         /\ handled[c] <= handled'[c]
         /\ received'[c] = received[c] \/ peer'[c] = "connected"
<1>1. /\ asked \in [Clients -> Seq(Commands)] /\ Len(asked[c]) \in Nat
      /\ handled \in [Clients -> 0 .. MAX_REQUESTS] /\ handled[c] \in Nat
      /\ received \in [Clients -> Seq(Pieces(REPLY_PARTS))]
      /\ peer \in [Clients -> {"absent", "connected", "finished", "reset"}]
  <2>1. /\ asked \in [Clients -> Seq(Commands)]
        /\ handled \in [Clients -> 0 .. MAX_REQUESTS]
        /\ received \in [Clients -> Seq(Pieces(REPLY_PARTS))]
        /\ peer \in [Clients -> {"absent", "connected", "finished", "reset"}]
    BY DEF IInv, TypeOK
  <2> QED
    BY <2>1
<1>2. CASE \E d \in Clients : Send(d)
  <2>1. PICK d \in Clients : Send(d)
    BY <1>2
  <2>2. UNCHANGED <<handled, received>>
    BY <2>1 DEF Send
  <2>3. asked' = asked \/ \E command \in Commands : asked' = [asked EXCEPT ![d] = Append(@, command)]
    BY <2>1 DEF Send
  <2>4. \A n \in 1 .. Len(asked[c]) : asked'[c][n] = asked[c][n]
    <3>1. ASSUME NEW command, asked' = [asked EXCEPT ![d] = Append(@, command)], d = c
          PROVE  \A n \in 1 .. Len(asked[c]) : asked'[c][n] = asked[c][n]
      <4>1. asked'[c] = Append(asked[c], command) /\ asked[c] \in Seq(Commands)
        BY <1>1, <3>1
      <4> QED
        BY <4>1
    <3>2. ASSUME NEW command, asked' = [asked EXCEPT ![d] = Append(@, command)], d # c
          PROVE  asked'[c] = asked[c]
      BY <1>1, <3>2
    <3> QED
      BY <2>3, <3>1, <3>2
  <2> QED
    BY <1>1, <2>2, <2>4
<1>3. CASE \E d \in Clients : on_read_cb(d)
  <2>1. PICK d \in Clients : on_read_cb(d)
    BY <1>3
  <2>2. Len(Done(d)) \in Nat
    BY ReadCompletes
  <2>3. UNCHANGED <<asked, received>>
    BY <2>1 DEF on_read_cb, close_connection, Released, Exit
  <2>4. handled' = handled \/ handled' = [handled EXCEPT ![d] = @ + Len(Done(d))]
    BY <2>1 DEF on_read_cb, close_connection, Released, Exit, Done
  <2>5. handled[c] <= handled'[c]
    <3>1. handled'[c] = handled[c] \/ handled'[c] = handled[c] + Len(Done(d))
      BY <1>1, <2>4
    <3> QED
      BY <1>1, <2>2, <3>1
  <2> QED
    BY <2>3, <2>5
<1>4. CASE \E d \in Clients : Receive(d)
  <2>1. PICK d \in Clients : Receive(d)
    BY <1>4
  <2>2. UNCHANGED <<asked, handled, peer>> /\ (d # c => received'[c] = received[c])
    BY <1>1, <2>1 DEF Receive
  <2>3. d = c => peer[c] = "connected"
    BY <2>1 DEF Receive
  <2> QED
    BY <1>1, <2>2, <2>3
<1>5. CASE UNCHANGED <<asked, handled, received>>
  BY <1>1, <1>5
<1>6. CASE UNCHANGED vars
  BY <1>5, <1>6 DEF vars, clientVars
<1>7. CASE Terminate \/ proxy_start_work \/ Poll \/ on_accept_cb
  BY <1>5, <1>7 DEF Terminate, Exit, proxy_start_work, Poll, on_accept_cb, clientVars
<1>8. CASE \E d \in Clients : Connect(d) \/ Leave(d)
  BY <1>5, <1>8 DEF Connect, Leave
<1>9. CASE \E d \in Clients :
             on_write_cb(d) \/ WritePasses(d) \/ WriteReturnsShort(d) \/ WriteEndsWorker(d)
  BY <1>5, <1>9 DEF on_write_cb, WritePasses, WriteReturnsShort, WriteEndsWorker, Exit, clientVars
<1> QED
  BY <1>2, <1>3, <1>4, <1>6, <1>7, <1>8, <1>9 DEF Next, Turn

\* The first h replies are to the first h requests.
LEMMA RequestAtBound ==
  ASSUME NEW h \in Nat, NEW p \in 1 .. h * REPLY_PARTS
  PROVE  RequestAt(p) \in 1 .. h
<1>1. (p - 1) \div REPLY_PARTS \in 0 .. h - 1
  BY Sizes, PieceOfReply
<1> QED
  BY <1>1 DEF RequestAt

\* Pieces that are in their places, and that requests which were processed call for.
Own(c, pieces) ==
  /\ Len(pieces) <= handled[c] * REPLY_PARTS
  /\ \A p \in 1 .. Len(pieces) : OwnPiece(c, pieces[p], p)

Owned ==
  \A c \in Clients : /\ Own(c, received[c])
                     /\ peer[c] = "connected" => Own(c, Delivered(c))

\* A piece in its place stays there.
LEMMA OwnPieceStays ==
  ASSUME IInv, [Next]_vars, NEW c \in Clients,
         NEW p \in 1 .. handled[c] * REPLY_PARTS, NEW piece, OwnPiece(c, piece, p)
  PROVE  OwnPiece(c, piece, p)'
<1>1. handled[c] \in Nat /\ handled[c] <= Len(asked[c]) /\ Len(asked[c]) \in Nat
  BY StreamTypes DEF IInv, Served, Stream
<1>2. RequestAt(p) \in 1 .. handled[c]
  BY <1>1, RequestAtBound
<1>3. RequestAt(p) \in 1 .. Len(asked[c])
  BY <1>1, <1>2
<1>4. asked'[c][RequestAt(p)] = asked[c][RequestAt(p)]
  BY <1>3, HistoryGrows
<1> QED
  BY <1>4 DEF OwnPiece, RequestAt

\* So do pieces that were there before, whatever is added.
LEMMA OwnStays ==
  ASSUME IInv, [Next]_vars, NEW c \in Clients, NEW pieces \in Seq(Pieces(REPLY_PARTS)),
         Own(c, pieces)
  PROVE  Own(c, pieces)'
<1>1. Len(pieces) \in Nat /\ handled[c] \in Nat
  BY StreamTypes
<1>2. IInv'
  BY NextPreserves
<1>3. handled'[c] \in Nat /\ handled[c] <= handled'[c]
  <2>1. handled' \in [Clients -> 0 .. MAX_REQUESTS]
    BY <1>2 DEF IInv, TypeOK
  <2> QED
    BY <2>1, HistoryGrows
<1>4. handled[c] * REPLY_PARTS \in Nat /\ handled'[c] * REPLY_PARTS \in Nat
      /\ handled[c] * REPLY_PARTS <= handled'[c] * REPLY_PARTS
  BY <1>1, <1>3, Sizes, ProductGrows
<1>5. Len(pieces) <= handled[c] * REPLY_PARTS
  BY DEF Own
<1>6. Len(pieces) <= handled'[c] * REPLY_PARTS
  BY <1>1, <1>4, <1>5
<1>7. \A p \in 1 .. Len(pieces) : OwnPiece(c, pieces[p], p)'
  <2> TAKE p \in 1 .. Len(pieces)
  <2>1. p \in 1 .. handled[c] * REPLY_PARTS
    BY <1>1, <1>4, <1>5
  <2>2. OwnPiece(c, pieces[p], p)
    BY DEF Own
  <2> QED
    BY <2>1, <2>2, OwnPieceStays
<1> QED
  BY <1>6, <1>7 DEF Own

\* What a client has received begins what is delivered to it.
LEMMA WayBegins ==
  ASSUME NEW r \in Seq(Pieces(REPLY_PARTS)), NEW o \in Seq(Pieces(REPLY_PARTS)),
         NEW u \in Seq(Pieces(REPLY_PARTS))
  PROVE  /\ Len(r) <= Len(Way(r, o, u))
         /\ \A p \in 1 .. Len(r) : p \in 1 .. Len(Way(r, o, u)) /\ Way(r, o, u)[p] = r[p]
<1> DEFINE S == Pieces(REPLY_PARTS)
           x == r \o o
<1>1. /\ x \in Seq(S) /\ Len(x) = Len(r) + Len(o)
      /\ \A p \in 1 .. Len(r) : x[p] = r[p]
  BY ConcatProperties
<1>2. Len(r) \in Nat /\ Len(o) \in Nat /\ Len(u) \in Nat /\ u \in Seq(S)
  OBVIOUS
<1> HIDE DEF x, S
<1>3. /\ Len(x \o u) = Len(x) + Len(u)
      /\ \A p \in 1 .. Len(x) : (x \o u)[p] = x[p]
  <2>1. /\ Len(x \o u) = Len(x) + Len(u)
        /\ \A p \in 1 .. Len(x) + Len(u) : (x \o u)[p] = IF p <= Len(x) THEN x[p] ELSE u[p - Len(x)]
    <3>1. x \in Seq(S) /\ u \in Seq(S)
      BY <1>1, <1>2
    <3> QED
      BY <3>1, ConcatProperties
  <2>2. Len(x) \in Nat
    BY <1>1
  <2> QED
    BY <1>2, <2>1, <2>2
<1> QED
  BY <1>1, <1>2, <1>3 DEF Way, x

DeliveredIsOwn == \A c \in Clients : Own(c, Delivered(c)) => Own(c, received[c])

LEMMA DeliveredBegins == IInv => DeliveredIsOwn
<1> SUFFICES ASSUME IInv, NEW c \in Clients, Own(c, Delivered(c)) PROVE Own(c, received[c])
  BY DEF DeliveredIsOwn
<1> DEFINE r == received[c]
           d == Delivered(c)
<1>1. r \in Seq(Pieces(REPLY_PARTS)) /\ d \in Seq(Pieces(REPLY_PARTS))
  BY UnsentIsRest, WayLength DEF Delivered
<1>2. Len(r) <= Len(d) /\ \A p \in 1 .. Len(r) : p \in 1 .. Len(d) /\ d[p] = r[p]
  <2>1. outbound[c] \in Seq(Pieces(REPLY_PARTS)) /\ Unsent(c) \in Seq(Pieces(REPLY_PARTS))
        /\ d = Way(r, outbound[c], Unsent(c))
    BY UnsentIsRest DEF Delivered
  <2> HIDE DEF r, d
  <2> QED
    BY <1>1, <2>1, WayBegins, ZenonT(40)
<1>3. Len(r) \in Nat /\ Len(d) \in Nat /\ handled[c] * REPLY_PARTS \in Nat
  BY <1>1, StreamTypes, Sizes, ProductGrows
<1>4. Len(d) <= handled[c] * REPLY_PARTS /\ \A p \in 1 .. Len(d) : OwnPiece(c, d[p], p)
  BY DEF Own
<1> HIDE DEF r, d
<1>5. Len(r) <= handled[c] * REPLY_PARTS /\ \A p \in 1 .. Len(r) : OwnPiece(c, r[p], p)
  BY <1>2, <1>3, <1>4
<1> QED
  BY <1>5 DEF Own, r

LEMMA DeliveredBeginsNext == (IInv => DeliveredIsOwn)'
BY DeliveredBegins, PTL

\* The types of what is on its way.
WayTyped ==
  \A c \in Clients : /\ received[c] \in Seq(Pieces(REPLY_PARTS))
                     /\ outbound[c] \in Seq(Pieces(REPLY_PARTS))
                     /\ Unsent(c) \in Seq(Pieces(REPLY_PARTS))
                     /\ Delivered(c) \in Seq(Pieces(REPLY_PARTS))

LEMMA WayTypes == IInv => WayTyped
BY UnsentIsRest, WayLength DEF WayTyped, Delivered

LEMMA WayTypesNext == (IInv => WayTyped)'
BY WayTypes, PTL

\* What a read adds comes behind it.
LEMMA OwnExtended ==
  ASSUME IInv, NEW c \in Clients, Own(c, Delivered(c)), Counted, Extended(c)
  PROVE  \A p \in 1 .. Len(Delivered(c)') : OwnPiece(c, Delivered(c)'[p], p)
<1> DEFINE more == Replies(c, Done(c))
           old == Delivered(c)
           n == handled[c] * REPLY_PARTS
           P == Pieces(REPLY_PARTS)
<1>1. /\ more \in Seq(P)
      /\ \A k \in 1 .. Len(more) : OwnPiece(c, more[k], n + k)
  BY ReadAnswers DEF Extended
<1>2. old \in Seq(P) /\ Len(old) = n
  BY UnsentIsRest, WayLength DEF Delivered, Counted, Extended
<1>3. Delivered(c)' = old \o more
  BY DEF Extended
<1>4. \A p \in 1 .. Len(old) : OwnPiece(c, old[p], p)
  BY DEF Own
<1> HIDE DEF more, old, n, P
<1>5. /\ Len(old \o more) = Len(old) + Len(more)
      /\ \A p \in 1 .. Len(old) + Len(more) :
           (old \o more)[p] = IF p <= Len(old) THEN old[p] ELSE more[p - Len(old)]
  BY <1>1, <1>2, ConcatProperties
<1>6. Len(old) \in Nat /\ Len(more) \in Nat
  BY <1>1, <1>2
<1> SUFFICES ASSUME NEW p \in 1 .. Len(old) + Len(more) PROVE OwnPiece(c, (old \o more)[p], p)
  BY <1>3, <1>5
<1>7. CASE p <= Len(old)
  <2>1. p \in 1 .. Len(old)
    BY <1>6, <1>7
  <2> QED
    BY <1>4, <1>5, <1>7, <2>1
<1>8. CASE ~ (p <= Len(old))
  <2>1. p - Len(old) \in 1 .. Len(more) /\ n + (p - Len(old)) = p
    BY <1>2, <1>6, <1>8
  <2>2. OwnPiece(c, more[p - Len(old)], n + (p - Len(old)))
    BY <1>1, <2>1
  <2> QED
    BY <1>5, <1>8, <2>1, <2>2
<1> QED
  BY <1>7, <1>8

LEMMA OwnedPreserved ==
  ASSUME IInv, Counted, Owned, [Next]_vars, ~ PartialWrites
  PROVE  Owned'
<1>1. IInv' /\ Counted'
  BY NextPreserves, CountedPreserved
<1> SUFFICES ASSUME NEW c \in Clients
             PROVE  /\ Own(c, received[c])'
                    /\ peer'[c] = "connected" => Own(c, Delivered(c))'
  BY DEF Owned
<1> DEFINE P == Pieces(REPLY_PARTS)
<1>2. Own(c, received[c]) /\ (peer[c] = "connected" => Own(c, Delivered(c)))
  BY DEF Owned
<1>3. /\ received[c] \in Seq(P) /\ received'[c] \in Seq(P)
      /\ outbound'[c] \in Seq(P) /\ Unsent(c)' \in Seq(P)
      /\ Delivered(c) \in Seq(P) /\ Delivered(c)' \in Seq(P)
  <2>1. WayTyped /\ WayTyped'
    BY <1>1, WayTypes, WayTypesNext
  <2> QED
    BY <2>1 DEF WayTyped
<1>4. ASSUME peer'[c] = "connected" PROVE Own(c, Delivered(c))'
  <2>1. CASE handled'[c] = 0 /\ Delivered(c)' = <<>>
    BY <1>1, <2>1, <1>4 DEF Own, Counted
  <2>2. CASE Kept(c)
    <3>1. Own(c, Delivered(c)) /\ Delivered(c)' = Delivered(c)
      BY <1>2, <2>2 DEF Kept
    <3> DEFINE d == Delivered(c)
    <3>2. \A s \in Seq(P) : Own(c, s) => Own(c, s)'
      BY OwnStays
    <3> QED
      BY <1>3, <3>1, <3>2 DEF Own
  <2>3. CASE Extended(c)
    <3>1. \A p \in 1 .. Len(Delivered(c)') : OwnPiece(c, Delivered(c)'[p], p)
      BY <1>2, <2>3, OwnExtended DEF Extended
    <3>2. asked' = asked
      BY <2>3 DEF Extended
    <3> QED
      BY <1>1, <1>4, <3>1, <3>2 DEF Own, OwnPiece, Counted
  <2> QED
    BY <1>4, <2>1, <2>2, <2>3, Delivery
<1>5. Own(c, received[c])'
  <2>1. CASE received'[c] = received[c]
    <3>1. \A s \in Seq(P) : Own(c, s) => Own(c, s)'
      BY OwnStays
    <3> QED
      BY <1>2, <1>3, <2>1, <3>1 DEF Own
  <2>2. CASE peer'[c] = "connected"
    BY <1>1, <1>4, <2>2, DeliveredBeginsNext DEF DeliveredIsOwn
  <2> QED
    BY <2>1, <2>2, HistoryGrows
<1> QED
  BY <1>4, <1>5

\* A process that has ended has no callbacks to run.
DownIsIdle == worker = "down" => pending = {}

LEMMA DownIsIdlePreserved ==
  ASSUME IInv, DownIsIdle, [Next]_vars
  PROVE  DownIsIdle'
<1>1. Exit => DownIsIdle'
  BY DEF Exit, DownIsIdle
<1>2. ASSUME NEW c \in Clients, Connect(c) \/ Send(c) \/ Receive(c) \/ Leave(c) PROVE DownIsIdle'
  BY <1>2 DEF Connect, Send, Receive, Leave, serverVars, DownIsIdle
<1>3. ASSUME NEW c \in Clients, on_read_cb(c) PROVE DownIsIdle'
  BY <1>1, <1>3 DEF on_read_cb, close_connection, Released, Callback, DownIsIdle
<1>4. ASSUME NEW c \in Clients,
             on_write_cb(c) \/ WritePasses(c) \/ WriteReturnsShort(c) \/ WriteEndsWorker(c)
      PROVE  DownIsIdle'
  BY <1>1, <1>4 DEF on_write_cb, WritePasses, WriteReturnsShort, WriteEndsWorker, Callback, DownIsIdle
<1>5. CASE UNCHANGED vars \/ Terminate \/ proxy_start_work \/ Poll \/ on_accept_cb
  BY <1>1, <1>5 DEF vars, serverVars, Terminate, proxy_start_work, Poll, on_accept_cb, Callback, DownIsIdle
<1> QED
  BY <1>2, <1>3, <1>4, <1>5 DEF Next, Turn

-----------------------------------------------------------------------------
(***************************************************************************)
(* The theorems.                                                           *)
(***************************************************************************)

LEMMA Invariance == Spec => []IInv
<1>1. Init => IInv
  BY InitInvariant
<1>2. IInv /\ [Next]_vars => IInv'
  BY NextPreserves
<1> QED
  BY <1>1, <1>2, PTL DEF Spec

\* Every variable of the loop and of its clients keeps its type: the kernel's
\* buffer is never overrun, and no more requests are handled than were sent.
THEOREM TypeCorrect == Spec => []TypeOK
<1>1. IInv => TypeOK
  BY DEF IInv
<1> QED
  BY <1>1, Invariance, PTL

\* No callback runs for a connection that another callback of the same round
\* has closed and freed (close_connection stops both watchers).
THEOREM CallbacksFindTheirConnection == Spec => []NoEventOfClosed
<1>1. IInv => NoEventOfClosed
  BY DEF IInv
<1> QED
  BY <1>1, Invariance, PTL

\* The write watcher of an open connection is started exactly while there is an
\* answer to write (on_read_cb, on_write_cb), short writes included.
THEOREM WatchersFollowAnswers == Spec => []WatcherFollowsAnswer
<1>1. IInv => WatcherFollowsAnswer
  BY DEF IInv, Served, Watched, WatcherFollowsAnswer
<1> QED
  BY <1>1, Invariance, PTL

\* However a client fragments and pipelines its requests, and however slowly it
\* reads, as many pieces are on their way to it as its requests call for, even
\* if short writes garble them.
THEOREM RepliesAreCounted == Spec => []RepliesCounted
<1>1. Init => Counted
  BY DEF Init, Counted
<1>2. IInv /\ Counted /\ [Next]_vars => Counted'
  BY CountedPreserved
<1>3. IInv /\ Counted => RepliesCounted
  <2> SUFFICES ASSUME IInv, Counted, NEW c \in Clients, peer[c] = "connected"
               PROVE  Len(received[c]) + Len(outbound[c]) + Len(Unsent(c)) = handled[c] * REPLY_PARTS
    BY DEF RepliesCounted
  <2>1. Len(Delivered(c)) = Len(received[c]) + Len(outbound[c]) + Len(Unsent(c))
    BY UnsentIsRest, DeliveredLength
  <2> QED
    BY <2>1 DEF Counted
<1> QED
  BY <1>1, <1>2, <1>3, Invariance, PTL DEF Spec

LEMMA InitIsOwned == Init => IInv /\ Counted /\ DownIsIdle /\ Owned
<1> SUFFICES ASSUME Init PROVE Counted /\ DownIsIdle /\ Owned
  BY InitInvariant
<1>1. 0 * REPLY_PARTS = 0
  BY Sizes
<1>2. \A c \in Clients : received[c] = <<>> /\ handled[c] = 0 /\ peer[c] = "absent"
  BY DEF Init
<1>3. pending = {}
  BY DEF Init
<1> QED
  BY <1>1, <1>2, <1>3 DEF Counted, DownIsIdle, Owned, Own

LEMMA OwnedInvariance ==
  ASSUME ~ PartialWrites
  PROVE  Spec => [](IInv /\ Counted /\ Owned)
<1>1. Init => IInv /\ Counted /\ Owned
  BY InitIsOwned
<1>2. (IInv /\ Counted /\ Owned) /\ [Next]_vars => (IInv /\ Counted /\ Owned)'
  BY NextPreserves, CountedPreserved, OwnedPreserved
<1> QED
  BY <1>1, <1>2, PTL DEF Spec

\* Where write(2) passes on everything it is given, what a client reads in the
\* place of a reply to a request that sets pg_answer is that reply, piece by piece.
InTheirPlaces ==
  \A c \in Clients : \A p \in DOMAIN received[c] :
    /\ RequestAt(p) \in 1 .. handled[c]
    /\ OwnPiece(c, received[c][p], p)

LEMMA OwnedInPlaces == IInv /\ Owned => InTheirPlaces
<1> SUFFICES ASSUME IInv, Owned, NEW c \in Clients, NEW p \in DOMAIN received[c]
             PROVE  RequestAt(p) \in 1 .. handled[c] /\ OwnPiece(c, received[c][p], p)
  BY DEF InTheirPlaces
<1>1. received[c] \in Seq(Pieces(REPLY_PARTS)) /\ handled[c] \in Nat
  BY UnsentIsRest, StreamTypes
<1>2. Len(received[c]) \in Nat /\ handled[c] * REPLY_PARTS \in Nat /\ p \in 1 .. Len(received[c])
  BY <1>1, Sizes, ProductGrows
<1>3. Own(c, received[c])
  BY DEF Owned
<1>4. p \in 1 .. handled[c] * REPLY_PARTS
  BY <1>2, <1>3 DEF Own
<1> QED
  BY <1>1, <1>2, <1>3, <1>4, RequestAtBound DEF Own

THEOREM RepliesAreInTheirPlaces ==
  ASSUME ~ PartialWrites
  PROVE  Spec => []InTheirPlaces
BY OwnedInPlaces, OwnedInvariance, PTL

\* Where, besides, every command sets its own reply, all that was sent to a client
\* and is still to be sent is the replies to its requests, each once and in order.
THEOREM RepliesComeInOrder ==
  ASSUME ~ PartialWrites, Commands = {"DATA"}
  PROVE  Spec => []RepliesInOrder
<1>1. IInv /\ Counted /\ Owned => RepliesInOrder
  <2> SUFFICES ASSUME IInv, Counted, Owned, NEW c \in Clients, peer[c] = "connected"
               PROVE  Delivered(c) = RepliesTo(handled[c])
    BY DEF RepliesInOrder, Delivered, Way
  <2> DEFINE d == Delivered(c)
             n == handled[c] * REPLY_PARTS
             piece(p) == <<((p - 1) \div REPLY_PARTS) + 1, ((p - 1) % REPLY_PARTS) + 1>>
  <2>1. d \in Seq(Pieces(REPLY_PARTS)) /\ Len(d) = n
    BY UnsentIsRest, WayLength DEF Delivered, Counted
  <2>2. /\ handled[c] \in Nat /\ handled[c] <= Len(asked[c])
        /\ asked[c] \in Seq(Commands) /\ Len(asked[c]) \in Nat
    BY StreamTypes DEF IInv, Served, Stream
  <2>3. n \in Nat
    BY <2>2, Sizes, ProductGrows
  <2>4. ASSUME NEW p \in 1 .. n PROVE d[p] = piece(p)
    <3>1. OwnPiece(c, d[p], p)
      BY <2>1, <2>3 DEF Owned, Own
    <3>2. RequestAt(p) \in 1 .. Len(asked[c])
      <4>1. RequestAt(p) \in 1 .. handled[c]
        BY <2>2, RequestAtBound
      <4> QED
        BY <2>2, <4>1
    <3>3. asked[c][RequestAt(p)] = "DATA"
      BY <2>2, <3>2, ElementOfSeq
    <3>4. d[p] \in Pieces(REPLY_PARTS)
      BY <2>1, <2>3, ElementOfSeq
    <3>5. d[p] = <<d[p][1], d[p][2]>>
      BY <3>4 DEF Pieces
    <3> QED
      BY <3>1, <3>3, <3>5 DEF OwnPiece, RequestAt
  <2>5. RepliesTo(handled[c]) = [p \in 1 .. n |-> piece(p)]
    BY DEF RepliesTo
  <2> HIDE DEF n, d, piece
  <2>6. d = [p \in 1 .. n |-> d[p]]
    BY <2>1, <2>3
  <2>7. [p \in 1 .. n |-> d[p]] = [p \in 1 .. n |-> piece(p)]
    BY <2>4
  <2>8. d = RepliesTo(handled[c])
    BY <2>5, <2>6, <2>7, Zenon
  <2> QED
    BY <2>8 DEF d
<1> QED
  BY <1>1, OwnedInvariance, PTL

\* Then no client reads a piece of a reply to another request: nothing but a
\* write that returns short (write_data, on_write_cb) makes it.
THEOREM ShortWritesAlone ==
  ASSUME ~ PartialWrites, Commands = {"DATA"}
  PROVE  Spec => []AnswersAreOwn
<1>1. IInv /\ InTheirPlaces => AnswersAreOwn
  <2> SUFFICES ASSUME IInv, InTheirPlaces, NEW c \in Clients, NEW p \in DOMAIN received[c]
               PROVE  received[c][p] = <<((p - 1) \div REPLY_PARTS) + 1, ((p - 1) % REPLY_PARTS) + 1>>
    BY DEF AnswersAreOwn
  <2>1. RequestAt(p) \in 1 .. handled[c] /\ OwnPiece(c, received[c][p], p)
    BY DEF InTheirPlaces
  <2>2. /\ handled[c] \in Nat /\ handled[c] <= Len(asked[c])
        /\ asked[c] \in Seq(Commands) /\ Len(asked[c]) \in Nat
    BY StreamTypes DEF IInv, Served, Stream
  <2>3. RequestAt(p) \in 1 .. Len(asked[c])
    BY <2>1, <2>2
  <2>4. asked[c][RequestAt(p)] = "DATA"
    BY <2>2, <2>3, ElementOfSeq
  <2>5. received[c][p] \in Pieces(REPLY_PARTS)
    BY UnsentIsRest, ElementOfSeq
  <2>6. received[c][p] = <<received[c][p][1], received[c][p][2]>>
    BY <2>5 DEF Pieces
  <2> QED
    BY <2>1, <2>4, <2>6 DEF OwnPiece, RequestAt
<1> QED
  BY <1>1, RepliesAreInTheirPlaces, Invariance, PTL
=============================================================================
