--------------------------- MODULE NetworkProofs ----------------------------
(***************************************************************************)
(* The echo measurement of TcpEcho for any number of clients, size of      *)
(* request, size of the callbacks' buffers and way TCP cuts the streams;   *)
(* the proxy with the request table, UthashProxy, which implements it; the *)
(* Internet checksum of every buffer; and the dump of every packet.        *)
(***************************************************************************)
EXTENDS UthashProxy, Sniffer, ChecksumCall, CommonLemmas, SequenceTheorems

\* Nothing was written before main's first send_request.
IdleIsSilent == \A c \in Client : client[c] = "idle" => sent[c] = 0

\* The inductive invariant of the measurement
IInv == TypeOK /\ StreamOrder /\ IdleIsSilent /\ NeverStalls

\* What a callback moves: at least one unit of what there is, at most all.
LEMMA MinimumProperty ==
  ASSUME NEW chunk \in Nat \ {0}, NEW there \in Nat \ {0}
  PROVE  Minimum(chunk, there) \in 1 .. there
  BY DEF Minimum

\* Nothing is sent before main's first send_request.
LEMMA InitIInv == Init => IInv
  BY ConstantsAssumption
     DEF Init, IInv, TypeOK, Offset, StreamOrder, IdleIsSilent, NeverStalls

\* Every callback of the measurement keeps the invariant.
LEMMA NextIInv == IInv /\ [Next]_vars => IInv'
<1>. SUFFICES ASSUME IInv, [Next]_vars PROVE IInv'
  OBVIOUS
<1>. USE ConstantsAssumption
     DEF IInv, TypeOK, Offset, StreamOrder, IdleIsSilent, NeverStalls,
         offsets, stat
<1>1. ASSUME NEW c \in Client, Start(c) PROVE IInv'
  BY <1>1 DEF Start, send_request
<1>2. ASSUME NEW c \in Client, Connect(c) PROVE IInv'
  BY <1>2 DEF Connect
<1>3. ASSUME NEW c \in Client, ClientRead(c) PROVE IInv'
  <2>1. PICK n \in Arrivals(got[c], echoed[c]) : readcb(c, n)
    BY <1>3 DEF ClientRead
  <2>2. n \in 1 .. echoed[c] - got[c]
    BY <2>1 DEF Arrivals
  <2>3. got[c] + n - used[c] \in Nat \ {0}
    BY <2>2
  <2>4. PICK m \in 1 .. got[c] + n - used[c] :
          m = Minimum(ClientChunk, got[c] + n - used[c])
    BY <2>3, MinimumProperty
  <2>5. /\ got' = [got EXCEPT ![c] = @ + n]
        /\ used' = [used EXCEPT ![c] = @ + m]
        /\ sent' = [sent EXCEPT ![c] = @ + ReqUnits]
    BY <2>1, <2>4 DEF readcb, send_request
  <2>6. /\ UNCHANGED <<server, client, bev, taken, echoed, stat>>
        /\ sent[c] + ReqUnits <= MaxSent /\ client[c] = "open"
    BY <1>3 DEF ClientRead
  <2>. QED
    BY <2>2, <2>4, <2>5, <2>6
<1>4. ASSUME NEW c \in Client, eventcb(c) PROVE IInv'
  BY <1>4 DEF eventcb
<1>5. ASSUME NEW c \in Client, handle_signal(c) PROVE IInv'
  BY <1>5 DEF handle_signal
<1>6. ASSUME NEW c \in Client, accept_conn_cb(c) PROVE IInv'
  BY <1>6 DEF accept_conn_cb
<1>7. ASSUME NEW c \in Client, ServerRead(c) PROVE IInv'
  <2>1. PICK n \in Arrivals(taken[c], sent[c]) : echo_read_cb(c, n)
    BY <1>7 DEF ServerRead
  <2>2. n \in 1 .. sent[c] - taken[c]
    BY <2>1 DEF Arrivals
  <2>3. taken[c] + n - echoed[c] \in Nat \ {0}
    BY <2>2
  <2>4. PICK m \in 1 .. taken[c] + n - echoed[c] :
          m = Minimum(ServerChunk, taken[c] + n - echoed[c])
    BY <2>3, MinimumProperty
  <2>5. /\ taken' = [taken EXCEPT ![c] = @ + n]
        /\ echoed' = [echoed EXCEPT ![c] = @ + m]
        /\ pps' = pps + 1
    BY <2>1, <2>4 DEF echo_read_cb
  <2>6. UNCHANGED <<server, client, bev, sent, got, used, ts, printed>>
    BY <1>7 DEF ServerRead
  <2>. QED
    BY <2>2, <2>4, <2>5, <2>6
<1>8. ASSUME NEW c \in Client, echo_event_cb(c) PROVE IInv'
  BY <1>8 DEF echo_event_cb
<1>9. CASE on_stats
  BY <1>9 DEF on_stats
<1>10. CASE loopexit \/ ServerExit
  BY <1>10 DEF loopexit, ServerExit
<1>11. CASE UNCHANGED vars
  BY <1>11 DEF vars
<1>. QED
  BY <1>1, <1>2, <1>3, <1>4, <1>5, <1>6, <1>7, <1>8, <1>9, <1>10, <1>11
     DEF Next, ClientStep, ServerStep

\* So it holds for ever.
LEMMA Inductive == Spec => []IInv
  BY InitIInv, NextIInv, PTL DEF Spec

\* The two processes' buffers and counters always have their types.
THEOREM TypeCorrect == Spec => []TypeOK
<1>1. IInv => TypeOK
  BY DEF IInv
<1>. QED
  BY <1>1, Inductive, PTL

\* No callback reads what was not written.
THEOREM StreamAlwaysInOrder == Spec => []StreamOrder
<1>1. IInv => StreamOrder
  BY DEF IInv
<1>. QED
  BY <1>1, Inductive, PTL

\* Whatever the buffers' sizes and the cuts, something is always on its way to
\* a read callback of a client that has started or to the server's for it.
THEOREM MeasurementNeverStalls == Spec => []NeverStalls
<1>1. IInv => NeverStalls
  BY DEF IInv
<1>. QED
  BY <1>1, Inductive, PTL
-----------------------------------------------------------------------------
(* The proxy is the plain echo server, for any number of clients and       *)
(* requests.  The table is empty between callbacks: the entry that         *)
(* HASH_FIND_INT finds is the one just added.                              *)

\* That of the proxy
PInv == IInv /\ request_table = {} /\ StatsExact /\ current_request_id \in Nat

\* respond_cb on a table that holds one entry answers it and empties it.
LEMMA RespondFindsEntry ==
  ASSUME NEW c \in Client, NEW n \in Nat, request_table = {},
         proxy_read_cb(c, n)
  PROVE  /\ taken' = [taken EXCEPT ![c] = @ + n]
         /\ echoed' = [echoed EXCEPT ![c] = taken'[c]]
         /\ request_table' = {}
         /\ pps' = pps + 1 /\ current_request_id' = current_request_id + 1
<1>. DEFINE s == [request_id |-> current_request_id, bev |-> c]
<1>1. (CHOOSE e \in {s} : e.request_id = current_request_id) = s
  OBVIOUS
<1>2. s \in {s} /\ s.request_id = current_request_id /\ s.bev = c
  OBVIOUS
<1>3. request_table \cup {s} = {s}
  OBVIOUS
<1>4. respond_cb({s}, current_request_id)
  BY <1>3 DEF proxy_read_cb
<1>5. AnswerOn(s) /\ request_table' = {s} \ {s}
  BY <1>1, <1>2, <1>4 DEF respond_cb
<1>. QED
  BY <1>2, <1>5 DEF AnswerOn, proxy_read_cb

\* A server whose buffer holds everything moves everything.
LEMMA ProxyReadIsServerRead ==
  ASSUME IInv, MaxSent <= ServerChunk, request_table = {},
         NEW c \in Client, ProxyRead(c)
  PROVE  ServerRead(c) /\ request_table' = {}
<1>1. PICK n \in Arrivals(taken[c], sent[c]) : proxy_read_cb(c, n)
  BY DEF ProxyRead
<1>2. n \in 1 .. sent[c] - taken[c]
  BY <1>1 DEF Arrivals
<1>3. n \in Nat
  BY <1>2
<1>4. /\ taken' = [taken EXCEPT ![c] = @ + n]
      /\ echoed' = [echoed EXCEPT ![c] = taken'[c]]
      /\ request_table' = {} /\ pps' = pps + 1
  BY <1>1, <1>3, RespondFindsEntry
<1>5. /\ taken[c] \in 0 .. MaxSent /\ echoed[c] \in 0 .. MaxSent
      /\ sent[c] \in 0 .. MaxSent /\ echoed[c] <= taken[c]
  BY DEF IInv, TypeOK, Offset, StreamOrder
<1>6. taken'[c] = taken[c] + n
  BY <1>4 DEF IInv, TypeOK, Offset
<1>7. Minimum(ServerChunk, taken[c] + n - echoed[c]) = taken[c] + n - echoed[c]
  BY <1>2, <1>5, ConstantsAssumption DEF Minimum
<1>8. echoed[c] + Minimum(ServerChunk, taken[c] + n - echoed[c]) = taken'[c]
  BY <1>2, <1>5, <1>6, <1>7
<1>9. echo_read_cb(c, n)
  BY <1>4, <1>8, Zenon DEF echo_read_cb
<1>. QED
  BY <1>1, <1>4, <1>9 DEF ProxyRead, ServerRead

\* Each step of the proxy is a step of the echo server.
LEMMA ProxyStepSimulates ==
  ASSUME PInv, MaxSent <= ServerChunk, [ProxyNext]_proxyVars
  PROVE  [Next]_vars /\ request_table' = {}
<1>1. ASSUME NEW c \in Client, ProxyRead(c)
      PROVE  ServerRead(c) /\ request_table' = {}
  BY <1>1, ProxyReadIsServerRead DEF PInv
<1>2. CASE ProxyExit
  BY <1>2 DEF ProxyExit, Next
<1>3. CASE UNCHANGED proxyVars
  BY <1>3 DEF proxyVars, table, PInv
<1>. QED
  BY <1>1, <1>2, <1>3 DEF ProxyNext, Next, ServerStep, PInv, table

\* Requests are counted when they get their id.
LEMMA StatsStep ==
  ASSUME PInv, [ProxyNext]_proxyVars
  PROVE  StatsExact' /\ current_request_id' \in Nat
<1>. USE DEF PInv, StatsExact, IInv, TypeOK
<1>1. ASSUME NEW c \in Client, ProxyRead(c)
      PROVE  StatsExact' /\ current_request_id' \in Nat
  <2>1. /\ pps' = pps + 1 /\ printed' = printed
        /\ current_request_id' = current_request_id + 1
    BY <1>1 DEF ProxyRead, proxy_read_cb
  <2>. QED
    BY <2>1
<1>2. CASE ProxyExit
  BY <1>2 DEF ProxyExit, ServerExit, stat
<1>3. ASSUME NEW c \in Client,
             ClientStep(c) \/ accept_conn_cb(c) \/ echo_event_cb(c),
             UNCHANGED table
      PROVE  StatsExact' /\ current_request_id' \in Nat
  BY <1>3 DEF ClientStep, Start, Connect, ClientRead, eventcb, handle_signal,
     accept_conn_cb, echo_event_cb, stat, table
<1>4. CASE (on_stats \/ loopexit) /\ UNCHANGED table
  BY <1>4 DEF on_stats, loopexit, stat, table
<1>5. CASE UNCHANGED proxyVars
  BY <1>5 DEF proxyVars, vars, stat, table
<1>. QED
  BY <1>1, <1>2, <1>3, <1>4, <1>5 DEF ProxyNext

\* The same for the proxy, whose request table is empty between callbacks
LEMMA ProxyInductive ==
  ASSUME MaxSent <= ServerChunk
  PROVE  ProxySpec => []PInv
<1>1. ProxyInit => PInv
  BY InitIInv DEF ProxyInit, PInv, StatsExact, Init
<1>2. PInv /\ [ProxyNext]_proxyVars => PInv'
  <2>. SUFFICES ASSUME PInv, [ProxyNext]_proxyVars PROVE PInv'
    OBVIOUS
  <2>1. [Next]_vars /\ request_table' = {}
    BY ProxyStepSimulates
  <2>2. IInv'
    BY <2>1, NextIInv DEF PInv
  <2>. QED
    BY <2>1, <2>2, StatsStep DEF PInv
<1>. QED
  BY <1>1, <1>2, PTL DEF ProxySpec

\* The proxy of client_server/uthash takes only the steps of the echo server
\* of client_server/tcp: the table changes nothing a client can see.
THEOREM ProxyImplementsEcho ==
  ASSUME MaxSent <= ServerChunk
  PROVE  ProxySpec => ImplementsEcho
<1>1. ProxyInit => Init
  BY DEF ProxyInit
<1>2. PInv /\ [ProxyNext]_proxyVars => [Next]_vars
  BY ProxyStepSimulates
<1>. QED
  BY <1>1, <1>2, ProxyInductive, PTL DEF ProxySpec, ImplementsEcho

\* respond_cb never finds a bufferevent that echo_event_cb has freed.
THEOREM TableNeverStale ==
  ASSUME MaxSent <= ServerChunk
  PROVE  ProxySpec => []EntriesAreOpen
<1>1. PInv => EntriesAreOpen
  BY DEF PInv, EntriesAreOpen
<1>. QED
  BY <1>1, ProxyInductive, PTL

\* on_stats loses and invents no request that the proxy gave an id.
THEOREM StatsAlwaysExact ==
  ASSUME MaxSent <= ServerChunk
  PROVE  ProxySpec => []StatsExact
<1>1. PInv => StatsExact
  BY DEF PInv
<1>. QED
  BY <1>1, ProxyInductive, PTL
-----------------------------------------------------------------------------
(***************************************************************************)
(* csum for every buffer of at most 131070 bytes, whose sum two folds      *)
(* bring down to 16 bits.  With its own checksum among the words the sum   *)
(* is a multiple of 65535, and such a sum folds to 65535.                  *)
(***************************************************************************)
\* Two more elements at the end of a sequence
WithPair(S, r, a, b, t) ==
  /\ t \in Seq(S) /\ Len(t) = Len(r) + 2
  /\ \A k \in 1 .. Len(r) : t[k] = r[k]
  /\ t[Len(r) + 1] = a /\ t[Len(r) + 2] = b

\* Concatenation with a pair gives that.
LEMMA PairAppended ==
  ASSUME NEW S, NEW r \in Seq(S), NEW a \in S, NEW b \in S
  PROVE  WithPair(S, r, a, b, r \o <<a, b>>)
<1>. DEFINE t == r \o <<a, b>>
<1>. HIDE DEF t
<1>. DEFINE ab == <<a, b>>
<1>1. ab \in Seq(S) /\ Len(ab) = 2 /\ ab[1] = a /\ ab[2] = b
  OBVIOUS
<1>. HIDE DEF ab
<1>2. Len(r) \in Nat
  BY LenProperties, Zenon
<1>3. /\ r \o ab \in Seq(S) /\ Len(r \o ab) = Len(r) + Len(ab)
      /\ \A k \in 1 .. Len(r) + Len(ab) :
           (r \o ab)[k] = IF k <= Len(r) THEN r[k] ELSE ab[k - Len(r)]
  BY <1>1, ConcatProperties, Zenon
<1>4. t = r \o ab
  BY DEF t, ab
<1>5. \A k \in 1 .. Len(r) : k \in 1 .. Len(r) + 2 /\ k <= Len(r)
  BY <1>2
<1>6. /\ Len(r) + 1 \in 1 .. Len(r) + 2 /\ ~(Len(r) + 1 <= Len(r)) /\ Len(r) + 1 - Len(r) = 1
      /\ Len(r) + 2 \in 1 .. Len(r) + 2 /\ ~(Len(r) + 2 <= Len(r)) /\ Len(r) + 2 - Len(r) = 2
  BY <1>2
<1>7. t \in Seq(S) /\ Len(t) = Len(r) + 2
  BY <1>1, <1>3, <1>4, Zenon
<1>8. \A k \in 1 .. Len(r) + 2 : t[k] = IF k <= Len(r) THEN r[k] ELSE ab[k - Len(r)]
  BY <1>1, <1>3, <1>4, Zenon
<1>9. \A k \in 1 .. Len(r) : t[k] = r[k]
  BY <1>5, <1>8, Zenon
<1>10. \A k \in 1 .. Len(r) + 2 : ~(k <= Len(r)) => t[k] = ab[k - Len(r)]
  BY <1>8, Zenon
<1>11. t[Len(r) + 1] = a /\ t[Len(r) + 2] = b
  <2>1. \A k \in 1 .. Len(r) + 2 : ~(k <= Len(r)) /\ k - Len(r) = 1 => t[k] = ab[1]
    BY <1>10, Zenon
  <2>2. \A k \in 1 .. Len(r) + 2 : ~(k <= Len(r)) /\ k - Len(r) = 2 => t[k] = ab[2]
    BY <1>10, Zenon
  <2>3. t[Len(r) + 1] = ab[1]
    BY <1>6, <2>1
  <2>4. t[Len(r) + 2] = ab[2]
    BY <1>6, <2>2
  <2>. QED
    BY <1>1, <2>3, <2>4, Zenon
<1>. QED
  BY <1>7, <1>9, <1>11, Zenon DEF t, WithPair

\* n 16-bit words, and their sum
Sums(w, n) == SumFunctionOnSet(w, 1 .. n)

\* A 16-bit word
Word == {x \in Nat : x <= 65535}

\* The first n elements of w are words.
AreWords(w, n) == \A i \in 1 .. n : w[i] \in Word

\* The sum with one more word
LEMMA OneMoreWord ==
  ASSUME NEW w, NEW n \in Nat, AreWords(w, n + 1)
  PROVE  /\ Sums(w, n + 1) = w[n + 1] + Sums(w, n)
         /\ Sums(w, n) \in Nat /\ w[n + 1] \in Word /\ AreWords(w, n)
<1>1. n + 1 \in 1 .. n + 1 /\ (1 .. n + 1) \ {n + 1} = 1 .. n
  OBVIOUS
<1>2. Word \subseteq Int /\ Word \subseteq Nat
  BY SMT DEF Word
<1>3. IsFiniteSet(1 .. n + 1) /\ IsFiniteSet(1 .. n)
  BY FS_Interval
<1>4. Summable(w, 1 .. n + 1)
  BY <1>2, <1>3, Zenon DEF Summable, AreWords
<1>5. SumFunctionOnSet(w, 1 .. n + 1)
        = w[n + 1] + SumFunctionOnSet(w, (1 .. n + 1) \ {n + 1})
  BY <1>1, <1>4, SumTakeOut, Zenon
<1>6. \A i \in 1 .. n : i \in 1 .. n + 1
  OBVIOUS
<1>7. AreWords(w, n)
  BY <1>6, Zenon DEF AreWords
<1>8. SumFunctionOnSet(w, 1 .. n) \in Nat
  <2>1. \A i \in 1 .. n : w[i] \in Nat
    BY <1>2, <1>7, Zenon DEF AreWords
  <2>. QED
    BY <1>3, <2>1, SumNat, Zenon
<1>9. w[n + 1] \in Word
  BY <1>1, Zenon DEF AreWords
<1>10. Sums(w, n + 1) = w[n + 1] + Sums(w, n)
  BY <1>1, <1>5, Zenon DEF Sums
<1>. QED
  BY <1>7, <1>8, <1>9, <1>10, Zenon DEF Sums

\* What n words can add up to
Bounded(s, n) == s \in Nat /\ s <= 65535 * n

\* n words add up to no more.
LEMMA SumOfWords ==
  ASSUME NEW w, NEW n \in Nat, AreWords(w, n)
  PROVE  Bounded(Sums(w, n), n)
<1>. DEFINE Bad == {k \in 0 .. n : ~Bounded(Sums(w, k), k)}
<1>1. SUFFICES ASSUME Bad # {} PROVE FALSE
  <2>1. n \in 0 .. n
    OBVIOUS
  <2>. QED
    BY <1>1, <2>1, Zenon
<1>2. Bad \in SUBSET Nat
  OBVIOUS
<1>3. PICK k \in Bad : \A j \in Bad : k <= j
  BY <1>1, <1>2, LeastMember, Zenon
<1>4. k \in 0 .. n /\ ~Bounded(Sums(w, k), k)
  BY <1>3, Zenon
<1>5. CASE k = 0
  <2>1. Sums(w, 0) = 0
    <3>1. 1 .. 0 = {} /\ IsFiniteSet({})
      BY FS_EmptySet
    <3>2. SumFunctionOnSet(w, {}) = 0
      BY <3>1, SumUnfolds, Zenon
    <3>. QED
      BY <3>1, <3>2, Zenon DEF Sums
  <2>2. Bounded(0, 0)
    BY SMT DEF Bounded
  <2>. QED
    BY <1>4, <1>5, <2>1, <2>2, Zenon
<1>6. CASE k # 0
  <2>. DEFINE j == k - 1
  <2>1. j \in Nat /\ j \in 0 .. n /\ ~(k <= j) /\ j + 1 = k /\ k \in 0 .. n
    BY <1>4, <1>6
  <2>2. \A i \in 1 .. k : i \in 1 .. n
    BY <2>1
  <2>3. AreWords(w, k)
    BY <2>2, Zenon DEF AreWords
  <2>4. Bounded(Sums(w, j), j)
    BY <1>3, <2>1, Zenon
  <2>. HIDE DEF j
  <2>5. /\ Sums(w, k) = w[k] + Sums(w, j)
        /\ w[k] \in Word
    BY <2>1, <2>3, OneMoreWord, Zenon
  <2>. DEFINE s == Sums(w, j)
              x == w[k]
  <2>6. Bounded(s, j) /\ x \in Word /\ ~Bounded(x + s, j + 1) /\ j \in Nat
    BY <1>4, <2>1, <2>4, <2>5, Zenon
  <2>. HIDE DEF s, x
  <2>. QED
    BY <2>6, SMT DEF Bounded, Word
<1>. QED
  BY <1>5, <1>6

\* The 16 bits that two folds leave of a sum are its rest by 65535.
LEMMA FoldRest ==
  ASSUME NEW s \in Nat, s <= 65535 * 65536
  PROVE  \E k, f \in Nat :
           /\ f <= 65535 /\ s = 65535 * k + f /\ f = FoldTwice(s) % 65536
           /\ k <= 65536
           /\ f = 0 => s = 0
<1>. DEFINE h == s \div 65536
            l == s % 65536
            once == h + l
            b == once \div 65536
<1>1. h \in Nat /\ h <= 65535 /\ l \in Nat /\ l <= 65535 /\ s = 65536 * h + l
  BY SMT
<1>2. FoldTwice(s) = once + b
  BY SMT DEF FoldTwice
<1>. HIDE DEF h, l
<1>3. /\ once \in Nat /\ once <= 131070 /\ b \in {0, 1}
      /\ b = 1 => once >= 65536
      /\ b = 0 => once <= 65535
  BY <1>1, SMT
<1>4. s = 65535 * h + once
  BY <1>1, SMT
<1>. HIDE DEF once, b
<1>. DEFINE f == once - 65535 * b
<1>5. f \in Nat /\ f <= 65535 /\ f = (once + b) % 65536
  BY <1>3, SMT
<1>6. s = 65535 * (h + b) + f /\ h + b \in Nat /\ h + b <= 65536
  BY <1>1, <1>3, <1>4, SMT
<1>7. f = 0 => s = 0
  BY <1>1, <1>3, <1>4, SMT DEF once
<1>. HIDE DEF f
<1>. QED
  BY <1>2, <1>5, <1>6, <1>7, SMT

\* A multiple of 65535 folds to all ones.
LEMMA FoldOfMultiple ==
  ASSUME NEW k \in Nat, 1 <= k, k <= 65536
  PROVE  FoldTwice(65535 * k) = 65535
<1>. DEFINE t == 65535 * k
<1>1. t = 65536 * (k - 1) + (65536 - k)
  BY SMT
<1>2. t \div 65536 = k - 1 /\ t % 65536 = 65536 - k
  BY <1>1, SMT
<1>3. (k - 1) + (65536 - k) = 65535 /\ 65535 \div 65536 = 0
  BY SMT
<1>. HIDE DEF t
<1>4. FoldTwice(t) = 65535
  BY <1>2, <1>3, SMT DEF FoldTwice
<1>. QED
  BY <1>4, SMT DEF t

\* With its own checksum among the words, a sum folds to all ones.
Answer(s) == (-1 - FoldTwice(s)) % 65536

\* A sum that two folds bring down to 16 bits
Small(s) == s \in Nat /\ s <= 65535 * 65535

\* The complement of the folded sum, added to the sum, gives a multiple of
\* 65535: its own complement is 0.
LEMMA ChecksumCancels ==
  ASSUME NEW s, Small(s)
  PROVE  Answer(s) \in Word /\ Answer(Answer(s) + s) = 0
<1>. DEFINE c == Answer(s)
<1>0. c = (-1 - FoldTwice(s)) % 65536
  BY SMT DEF Answer
<1>. HIDE DEF c
<1>1. s \in Nat /\ s <= 65535 * 65536
  BY SMT DEF Small
<1>2. PICK k \in Nat, f \in Nat :
           /\ f <= 65535 /\ s = 65535 * k + f /\ f = FoldTwice(s) % 65536
           /\ k <= 65536
           /\ f = 0 => s = 0
  BY <1>1, FoldRest, SMT
<1>3. FoldTwice(s) \in Int
  BY <1>1, SMT DEF FoldTwice
<1>4. c = 65535 - f
  <2>. DEFINE F == FoldTwice(s)
  <2>1. F \in Int /\ f = F % 65536 /\ c = (-1 - F) % 65536
    BY <1>0, <1>2, <1>3, SMT
  <2>. HIDE DEF F
  <2>. QED
    BY <2>1, SMT
<1>5. c + s = 65535 * (k + 1) /\ k + 1 \in Nat /\ 1 <= k + 1 /\ k + 1 <= 65536 /\ c \in Nat /\ c <= 65535
  BY <1>1, <1>2, <1>4, SMT
<1>6. FoldTwice(c + s) = 65535
  <2>. DEFINE j == k + 1
  <2>1. j \in Nat /\ 1 <= j /\ j <= 65536 /\ c + s = 65535 * j
    BY <1>5, SMT
  <2>. HIDE DEF j
  <2>2. FoldTwice(65535 * j) = 65535
    BY <2>1, FoldOfMultiple, SMT
  <2>. QED
    BY <2>1, <2>2, SMT
<1>7. Answer(c + s) = 0 /\ c \in Word
  BY <1>5, <1>6, SMT DEF Word, Answer
<1>. QED
  BY <1>7, SMT DEF c

\* How many words a buffer has
Halved(l, n) ==
  /\ n \in Nat
  /\ l % 2 = 0 => l = 2 * n
  /\ l % 2 # 0 => l + 1 = 2 * n

\* An odd byte at the end makes a word of its own.
LEMMA WordCount == ASSUME NEW l \in Nat PROVE Halved(l, (l + 1) \div 2)
  BY SMT DEF Halved

\* A byte, without the interval
IsByte(x) == x \in Nat /\ x <= 255

\* That is Byte.
LEMMA ByteRange == 0 \in Byte /\ \A x : x \in Byte <=> IsByte(x)
  BY SMT DEF IsByte, Byte

\* The words of a buffer of bytes
LEMMA WordsAreWords ==
  ASSUME NEW b \in Seq(Byte), NEW n, n = (Len(b) + 1) \div 2
  PROVE  AreWords(Words(b), n) /\ DOMAIN Words(b) = 1 .. n /\ n \in Nat
<1>. DEFINE l == Len(b)
<1>1. l \in Nat /\ n \in Nat /\ (l % 2 = 0 => l = 2 * n) /\ (l % 2 # 0 => l + 1 = 2 * n)
  <2>1. l \in Nat
    BY LenProperties, Zenon
  <2>2. Halved(l, (l + 1) \div 2)
    BY <2>1, WordCount, Zenon
  <2>3. Halved(l, n)
    BY <2>2, Zenon
  <2>. QED
    BY <2>1, <2>3, Zenon DEF Halved
<1>2. ASSUME NEW i \in 1 .. l PROVE IsByte(b[i])
  <2>1. b[i] \in Byte
    BY <1>2, ElementOfSeq, Zenon
  <2>. QED
    BY <2>1, ByteRange, Zenon
<1>3. DOMAIN Words(b) = 1 .. n
  BY Zenon DEF Words
<1>4. ASSUME NEW i \in 1 .. n PROVE Words(b)[i] \in Word
  <2>. DEFINE x == b[2 * i - 1]
              y == IF 2 * i <= l THEN b[2 * i] ELSE 0
  <2>1. Words(b)[i] = x + 256 * y
    BY <1>4, Zenon DEF Words
  <2>2. 2 * i - 1 \in 1 .. l /\ (2 * i <= l => 2 * i \in 1 .. l)
    <3>. HIDE DEF l
    <3>. QED
      BY <1>1, <1>4, SMT
  <2>3. IsByte(x)
    BY <1>2, <2>2, Zenon
  <2>4. IsByte(y)
    <3>1. IsByte(0)
      BY SMT DEF IsByte
    <3>. QED
      BY <1>2, <2>2, <3>1, Zenon
  <2>. HIDE DEF x, y
  <2>5. x + 256 * y \in Word
    BY <2>3, <2>4, SMT DEF IsByte, Word
  <2>. QED
    BY <2>1, <2>5, Zenon
<1>5. AreWords(Words(b), n)
  BY <1>4, Zenon DEF AreWords
<1>. QED
  BY <1>1, <1>3, <1>5, Zenon

\* The buffer, filled up to a whole word
Whole(b) == IF Len(b) % 2 = 0 THEN b ELSE Append(b, 0)

\* w is b with x after it.
Appended(b, x, w) ==
  /\ w \in Seq(Byte) /\ Len(w) = Len(b) + 1
  /\ \A j \in 1 .. Len(b) : w[j] = b[j]
  /\ w[Len(b) + 1] = x

\* Append of one byte
LEMMA ByteAppended ==
  ASSUME NEW b \in Seq(Byte), NEW x \in Byte
  PROVE  Appended(b, x, Append(b, x))
  BY AppendProperties DEF Appended

\* A buffer b of n words, filled up, with one more word after it
Extended(b, n, lo, hi, t) ==
  /\ t \in Seq(Byte) /\ Len(t) = 2 * n + 2
  /\ \A j \in 1 .. Len(b) : t[j] = b[j]
  /\ Len(b) # 2 * n => t[2 * n] = 0
  /\ t[2 * n + 1] = lo /\ t[2 * n + 2] = hi

\* Two bytes after a buffer that is filled up are one more word.
LEMMA WholeExtended ==
  ASSUME NEW b \in Seq(Byte), NEW lo \in Byte, NEW hi \in Byte,
         NEW n, Halved(Len(b), n)
  PROVE  Extended(b, n, lo, hi, Whole(b) \o <<lo, hi>>)
<1>. DEFINE l == Len(b)
            w == Whole(b)
            t == w \o <<lo, hi>>
<1>1. l \in Nat
  BY LenProperties, Zenon
<1>2. 0 \in Byte
  BY ByteRange, Zenon
<1>3. /\ w \in Seq(Byte) /\ Len(w) = 2 * n
      /\ \A j \in 1 .. l : w[j] = b[j]
      /\ l # 2 * n => w[2 * n] = 0
      /\ l <= 2 * n
  <2>1. CASE l % 2 = 0
    <3>1. w = b
      BY <2>1 DEF Whole
    <3>2. l = 2 * n
      BY <1>1, <2>1, Zenon DEF Halved
    <3>3. l <= 2 * n
      BY <1>1, <3>2
    <3>. QED
      BY <3>1, <3>2, <3>3, Zenon
  <2>2. CASE l % 2 # 0
    <3>1. w = Append(b, 0)
      BY <2>2, Zenon DEF Whole
    <3>2. Appended(b, 0, w)
      BY <1>2, <3>1, ByteAppended, Zenon
    <3>3. l + 1 = 2 * n
      BY <1>1, <2>2, Zenon DEF Halved
    <3>4. l <= 2 * n
      BY <1>1, <3>3
    <3>. HIDE DEF w
    <3>. QED
      BY <3>2, <3>3, <3>4, Zenon DEF Appended
  <2>. QED
    BY <2>1, <2>2, Zenon
<1>4. WithPair(Byte, w, lo, hi, t)
  BY <1>3, PairAppended, Zenon
<1>5. n \in Nat
  BY Zenon DEF Halved
<1>. HIDE DEF w, t, l
<1>6. /\ \A j \in 1 .. l : j \in 1 .. 2 * n
      /\ l # 2 * n => 2 * n \in 1 .. 2 * n
  BY <1>1, <1>3, <1>5
<1>7. /\ t \in Seq(Byte) /\ Len(t) = 2 * n + 2
      /\ \A j \in 1 .. 2 * n : t[j] = w[j]
      /\ t[2 * n + 1] = lo /\ t[2 * n + 2] = hi
  BY <1>3, <1>4, Zenon DEF WithPair
<1>8. /\ \A j \in 1 .. l : t[j] = b[j]
      /\ l # 2 * n => t[2 * n] = 0
  BY <1>3, <1>6, <1>7, Zenon
<1>9. Extended(b, n, lo, hi, t)
  BY <1>7, <1>8, Zenon DEF Extended, l
<1>. QED
  BY <1>9, Zenon DEF t, w

\* What a word is made of
Pair(i, p, q) == 2 * i - 1 = p /\ 2 * i = q

\* Word i of s is made of bytes p and q, and 0 for a byte that is not there.
MadeOf(s, i, p, q) ==
  /\ q <= Len(s) => Words(s)[i] = s[p] + 256 * s[q]
  /\ ~(q <= Len(s)) => Words(s)[i] = s[p] + 256 * 0

\* The two bytes of word i
LEMMA WordOfBytes ==
  ASSUME NEW s, NEW i \in 1 .. (Len(s) + 1) \div 2, NEW p, NEW q, Pair(i, p, q)
  PROVE  MadeOf(s, i, p, q)
<1>1. Words(s)[i] = s[2 * i - 1] + 256 * (IF 2 * i <= Len(s) THEN s[2 * i] ELSE 0)
  BY DEF Words
<1>2. Words(s)[i] = s[p] + 256 * (IF q <= Len(s) THEN s[q] ELSE 0)
  BY <1>1, Zenon DEF Pair
<1>. QED
  BY <1>2, Zenon DEF MadeOf

\* Its words are those of the buffer, and the new one.
LongerBy(t, b, n, x) ==
  /\ (Len(t) + 1) \div 2 = n + 1
  /\ \A i \in 1 .. n : Words(t)[i] = Words(b)[i]
  /\ Words(t)[n + 1] = x

\* The word of a low and a high byte
Joined(lo, hi) == lo + 256 * hi

\* b has n words, the last perhaps of one byte.
HasWords(b, n) ==
  /\ Len(b) \in Nat /\ n \in Nat /\ n = (Len(b) + 1) \div 2
  /\ Len(b) = 2 * n \/ Len(b) + 1 = 2 * n

\* One more word changes none of the others.
LEMMA ExtendedWords ==
  ASSUME NEW b, NEW n, HasWords(b, n), NEW lo, NEW hi, NEW t, Extended(b, n, lo, hi, t)
  PROVE  LongerBy(t, b, n, Joined(lo, hi))
<1>. DEFINE l == Len(b)
<1>0. /\ l \in Nat /\ n \in Nat /\ n = (l + 1) \div 2
      /\ l = 2 * n \/ l + 1 = 2 * n
  BY Zenon DEF HasWords
<1>1. /\ Len(t) = 2 * n + 2
      /\ \A j \in 1 .. l : t[j] = b[j]
      /\ l # 2 * n => t[2 * n] = 0
      /\ t[2 * n + 1] = lo /\ t[2 * n + 2] = hi
  BY Zenon DEF Extended
<1>2. n + 1 = (Len(t) + 1) \div 2
  BY <1>0, <1>1, SMT
<1>. HIDE DEF l
<1>3. ASSUME NEW i \in 1 .. n PROVE Words(t)[i] = Words(b)[i]
  <2>. DEFINE p == 2 * i - 1
              q == 2 * i
  <2>1. /\ i \in 1 .. n + 1 /\ q <= Len(t)
        /\ p \in 1 .. l
        /\ q <= l => q \in 1 .. l
        /\ ~(q <= l) => l # 2 * n /\ q = 2 * n
    BY <1>0, <1>1, SMT
  <2>2. Pair(i, p, q)
    BY DEF Pair
  <2>. HIDE DEF p, q
  <2>3. Words(t)[i] = t[p] + 256 * t[q]
    <3>1. i \in 1 .. (Len(t) + 1) \div 2
      BY <1>2, <2>1, Zenon
    <3>2. MadeOf(t, i, p, q)
      BY <2>2, <3>1, WordOfBytes, Zenon
    <3>. QED
      BY <2>1, <3>2, Zenon DEF MadeOf
  <2>0. MadeOf(b, i, p, q)
    <3>1. i \in 1 .. (Len(b) + 1) \div 2
      BY <1>0, Zenon DEF l
    <3>. QED
      BY <2>2, <3>1, WordOfBytes, Zenon
  <2>4. t[p] = b[p]
    BY <1>1, <2>1, Zenon
  <2>5. CASE q <= l
    <3>1. Words(b)[i] = b[p] + 256 * b[q]
      BY <2>0, <2>5, Zenon DEF MadeOf, l
    <3>2. t[q] = b[q]
      BY <1>1, <2>1, <2>5, Zenon
    <3>. QED
      BY <2>3, <2>4, <3>1, <3>2, Zenon
  <2>6. CASE ~(q <= l)
    <3>1. Words(b)[i] = b[p] + 256 * 0
      BY <2>0, <2>6, Zenon DEF MadeOf, l
    <3>2. t[q] = 0
      BY <1>1, <2>1, <2>6, Zenon
    <3>. QED
      BY <2>3, <2>4, <3>1, <3>2, Zenon
  <2>. QED
    BY <2>5, <2>6, Zenon
<1>4. Words(t)[n + 1] = lo + 256 * hi
  <2>. DEFINE i == n + 1
              p == 2 * n + 1
              q == 2 * n + 2
  <2>1. i \in 1 .. n + 1 /\ q <= Len(t) /\ Pair(i, p, q)
    BY <1>0, <1>1, SMT DEF Pair
  <2>. HIDE DEF p, q, i
  <2>2. Words(t)[i] = t[p] + 256 * t[q]
    <3>1. i \in 1 .. (Len(t) + 1) \div 2
      BY <1>2, <2>1, Zenon
    <3>2. MadeOf(t, i, p, q)
      BY <2>1, <3>1, WordOfBytes, Zenon
    <3>. QED
      BY <2>1, <3>2, Zenon DEF MadeOf
  <2>. QED
    BY <1>1, <2>2, Zenon DEF p, q, i
<1>. QED
  BY <1>2, <1>3, <1>4, Zenon DEF LongerBy, Joined

\* csum of a buffer of n words
CsumIs(b, n) == csum(b) = Answer(Sums(Words(b), n))

\* csum answers the complement of the folded sum of the words.
LEMMA CsumOfSum ==
  ASSUME NEW b \in Seq(Byte) PROVE CsumIs(b, (Len(b) + 1) \div 2)
<1>1. DOMAIN Words(b) = 1 .. (Len(b) + 1) \div 2
  BY WordsAreWords, Zenon
<1>2. SumFunction(Words(b)) = Sums(Words(b), (Len(b) + 1) \div 2)
  BY <1>1, Zenon DEF SumFunction, Sums
<1>3. csum(b) = Answer(SumFunction(Words(b)))
  BY SMT DEF csum, Answer
<1>. QED
  BY <1>2, <1>3, Zenon DEF CsumIs

\* A buffer short enough for two folds, and the sum of its words
Short(b) == Len(b) <= 131070

\* The words of such a buffer add up to a sum that two folds can take.
LEMMA SmallSum ==
  ASSUME NEW b, Len(b) \in Nat, Short(b), NEW s, Bounded(s, (Len(b) + 1) \div 2)
  PROVE  Small(s)
<1>. DEFINE l == Len(b)
            n == (l + 1) \div 2
<1>1. l \in Nat /\ l <= 131070 /\ s \in Nat /\ s <= 65535 * n
  BY SMT DEF Short, Bounded
<1>. HIDE DEF l
<1>2. n \in Nat /\ n <= 65535
  BY <1>1, SMT
<1>. HIDE DEF n
<1>3. s <= 65535 * 65535
  BY <1>1, <1>2, SMT
<1>. QED
  BY <1>1, <1>3, SMT DEF Small

\* The two bytes of a checksum
Split(c, lo, hi) == lo \in Byte /\ hi \in Byte /\ Joined(lo, hi) = c

\* The low and the high byte of a word are its two bytes.
LEMMA TwoBytes ==
  ASSUME NEW c \in Word
  PROVE  Split(c, c % 256, c \div 256)
<1>1. (c % 256) + 256 * (c \div 256) = c
  BY SMT DEF Word
<1>2. IsByte(c % 256) /\ IsByte(c \div 256)
  BY SMT DEF Word, IsByte
<1>3. c % 256 \in Byte /\ c \div 256 \in Byte
  BY <1>2, ByteRange, Zenon
<1>. QED
  BY <1>1, <1>3, SMT DEF Split, Joined

\* csum of the buffer and its checksum c is 0.
Verified(b, c) == csum(Whole(b) \o <<c % 256, c \div 256>>) = 0

\* It is, for the checksum csum answers.
LEMMA CsumVerifies ==
  ASSUME NEW b \in Seq(Byte), Short(b) PROVE Verified(b, csum(b))
<1>. DEFINE l == Len(b)
            n == (l + 1) \div 2
            c == csum(b)
            lo == c % 256
            hi == c \div 256
            t == Whole(b) \o <<lo, hi>>
            s == Sums(Words(b), n)
<1>1. l \in Nat /\ Halved(l, n)
  BY LenProperties, WordCount, Zenon
<1>2. n \in Nat /\ (l = 2 * n \/ l + 1 = 2 * n)
  BY <1>1, Zenon DEF Halved
<1>3. AreWords(Words(b), n)
  BY WordsAreWords, Zenon
<1>4. Small(s)
  <2>1. Bounded(s, n)
    BY <1>2, <1>3, SumOfWords, Zenon
  <2>. HIDE DEF s
  <2>. QED
    BY <1>1, <2>1, SmallSum, Zenon
<1>5. c = Answer(s)
  BY CsumOfSum, Zenon DEF CsumIs
<1>. HIDE DEF s, c
<1>6. c \in Word /\ Answer(c + s) = 0
  BY <1>4, <1>5, ChecksumCancels, Zenon
<1>7. lo \in Byte /\ hi \in Byte /\ Joined(lo, hi) = c
  <2>1. Split(c, lo, hi)
    BY <1>6, TwoBytes, Zenon
  <2>. QED
    BY <2>1, Zenon DEF Split
<1>. HIDE DEF lo, hi
<1>8. Extended(b, n, lo, hi, t)
  BY <1>1, <1>7, WholeExtended, Zenon
<1>. HIDE DEF t
<1>9. LongerBy(t, b, n, Joined(lo, hi))
  <2>1. HasWords(b, n)
    BY <1>1, <1>2, Zenon DEF HasWords
  <2>. HIDE DEF n
  <2>. QED
    BY <1>8, <2>1, ExtendedWords, Zenon
<1>10. t \in Seq(Byte)
  BY <1>8, Zenon DEF Extended
<1>. HIDE DEF n
<1>11. /\ (Len(t) + 1) \div 2 = n + 1
       /\ \A i \in 1 .. n : Words(t)[i] = Words(b)[i]
       /\ Words(t)[n + 1] = c
  BY <1>7, <1>9, Zenon DEF LongerBy
<1>12. AreWords(Words(t), n + 1)
  <2>1. AreWords(Words(t), (Len(t) + 1) \div 2)
    BY <1>10, WordsAreWords, Zenon
  <2>. QED
    BY <1>11, <2>1, Zenon
<1>13. Sums(Words(t), n + 1) = Words(t)[n + 1] + Sums(Words(t), n)
  BY <1>2, <1>12, OneMoreWord, Zenon
<1>14. Sums(Words(t), n) = s
  <2>1. IsFiniteSet(1 .. n)
    BY <1>2, FS_Interval, SMT
  <2>2. Agree(Words(t), Words(b), 1 .. n)
    BY <1>11, Zenon DEF Agree
  <2>. QED
    BY <2>1, <2>2, SumAgrees, Zenon DEF Sums, s
<1>15. Sums(Words(t), n + 1) = c + s
  BY <1>11, <1>13, <1>14, Zenon
<1>16. CsumIs(t, n + 1)
  <2>1. CsumIs(t, (Len(t) + 1) \div 2)
    BY <1>10, CsumOfSum, Zenon
  <2>. QED
    BY <1>11, <2>1, Zenon
<1>17. csum(t) = 0
  BY <1>6, <1>15, <1>16, Zenon DEF CsumIs
<1>. QED
  BY <1>17, Zenon DEF t, lo, hi, c, Verified

\* For every set of buffers of at most 131070 bytes: csum of a buffer with
\* its own checksum after it is 0, which is how a receiver tells a packet
\* that arrived whole.
THEOREM ChecksumAlwaysVerifies == ChecksumSpec => []ChecksumVerifies
<1>. DEFINE CInv == buf \in Buffers /\ answer \in {NoAnswer, csum(buf)}
<1>1. ChecksumInit => CInv
  BY Zenon DEF ChecksumInit
<1>2. CInv /\ [Csum]_csVars => CInv'
  BY Zenon DEF Csum, csVars
<1>3. CInv => ChecksumVerifies
  <2>0. \A b \in Buffers : b \in Seq(Byte) /\ Short(b)
    BY BuffersAssumption, SMT DEF Short
  <2>1. ASSUME CInv, answer # NoAnswer
        PROVE  Verified(buf, answer)
    <3>1. answer = csum(buf) /\ buf \in Seq(Byte) /\ Short(buf)
      BY <2>0, <2>1, Zenon
    <3>2. Verified(buf, csum(buf))
      BY <3>1, CsumVerifies, Zenon
    <3>. QED
      BY <3>1, <3>2, Zenon
  <2>. QED
    BY <2>1, Zenon DEF ChecksumVerifies, Verified, Whole
<1>. QED
  BY <1>1, <1>2, <1>3, PTL DEF ChecksumSpec
-----------------------------------------------------------------------------
(***************************************************************************)
(* The dump of libpcap/sniffex.c for every packet: each row begins where   *)
(* the one before it ends, and what is left of the payload is what the     *)
(* loop of print_payload still has to print.                               *)
(***************************************************************************)
\* What print_hex_ascii_line prints
Row == [offset : Nat, bytes : Seq(Nat), ascii : Nat]

\* Where the next row has to begin
NextOffset(rows) == IF rows = <<>> THEN 0 ELSE RowEnd(rows[Len(rows)])

\* A row as print_hex_ascii_line prints it from byte `from' on
IsRow(row, from) ==
  /\ row \in Row /\ Len(row.bytes) \in 1 .. 16
  /\ \A j \in DOMAIN row.bytes : row.bytes[j] = row.offset + j - 1
  /\ row.offset = from /\ row.ascii = 49

\* Rows that begin where the one before ends, the first at 0
Contiguous(rows) ==
  \A i \in 1 .. Len(rows) :
    IsRow(rows[i], IF i = 1 THEN 0 ELSE RowEnd(rows[i - 1]))

(***************************************************************************)
(* The inductive invariant.  DumpComplete says nothing while print_payload *)
(* is under way; there the rows printed so far end where the loop is (ch,  *)
(* which is the offset it prints), and that and what is left make up the   *)
(* payload.                                                                *)
(***************************************************************************)
SnifferIInv ==
  /\ captured \in Nat /\ count = captured + 1
  /\ dump \in [number : Nat, verdict : {dump.verdict}, size : Int,
                  rows : Seq(Row)]
  /\ dump.number = captured
  /\ dump.verdict # "tcp" => dump.rows = <<>>
  /\ Contiguous(dump.rows)
  /\ pc # "print" =>
       IF dump.size <= 0 THEN dump.rows = <<>>
       ELSE dump.rows # <<>> /\ NextOffset(dump.rows) = dump.size
  /\ pc = "print" =>
       /\ ch \in Nat /\ len_rem \in Nat /\ len_rem > 16 /\ offset = ch
       /\ NextOffset(dump.rows) = ch /\ ch + len_rem = dump.size
       /\ dump.verdict = "tcp"

\* Every row ends its hexadecimal part at the same column.
LEMMA RowPrinted ==
  ASSUME NEW from \in Nat, NEW len \in 1 .. 16
  PROVE  /\ IsRow(print_hex_ascii_line(from, len, from), from)
         /\ RowEnd(print_hex_ascii_line(from, len, from)) = from + len
<1>. DEFINE bytes == [i \in 1 .. len |-> from + i - 1]
            ascii == 3 * len + (IF len > 7 THEN 1 ELSE 0) + (IF len < 8 THEN 1 ELSE 0)
                       + (IF len < 16 THEN 3 * (16 - len) ELSE 0)
            row == print_hex_ascii_line(from, len, from)
<1>1. ascii = 49
  <2>1. CASE len = 16
    BY <2>1
  <2>2. CASE len \in 8 .. 15
    BY <2>2
  <2>3. CASE len \in 1 .. 7
    BY <2>3
  <2>. QED
    BY <2>1, <2>2, <2>3
<1>2. bytes \in Seq(Nat) /\ Len(bytes) = len /\ DOMAIN bytes = 1 .. len
  OBVIOUS
<1>3. \A j \in DOMAIN bytes : bytes[j] = from + j - 1
  OBVIOUS
<1>4. row = [offset |-> from, bytes |-> bytes, ascii |-> ascii]
  BY DEF print_hex_ascii_line, line_width
<1>. HIDE DEF bytes, ascii, row
<1>5. row.offset = from /\ row.bytes = bytes /\ row.ascii = 49 /\ row \in Row
  BY <1>1, <1>2, <1>4 DEF Row
<1>6. IsRow(row, from) /\ RowEnd(row) = from + len
  BY <1>2, <1>3, <1>5 DEF IsRow, RowEnd
<1>. QED
  BY <1>6 DEF row

\* One more row in its place
LEMMA RowAdded ==
  ASSUME NEW rows \in Seq(Row), Contiguous(rows), NEW row,
         IsRow(row, NextOffset(rows))
  PROVE  LET more == Append(rows, row) IN
         /\ more \in Seq(Row) /\ Contiguous(more) /\ more # <<>>
         /\ NextOffset(more) = RowEnd(row)
<1>. DEFINE more == Append(rows, row)
<1>1. /\ more \in Seq(Row) /\ Len(more) = Len(rows) + 1 /\ more # <<>>
      /\ more[Len(rows) + 1] = row /\ Len(rows) \in Nat
      /\ \A i \in 1 .. Len(rows) : more[i] = rows[i]
  BY DEF IsRow
<1>2. rows = <<>> <=> Len(rows) = 0
  OBVIOUS
<1>. HIDE DEF more
<1>3. ASSUME NEW i \in 1 .. Len(more)
      PROVE  IsRow(more[i], IF i = 1 THEN 0 ELSE RowEnd(more[i - 1]))
  <2>1. CASE i \in 1 .. Len(rows)
    <3>1. more[i] = rows[i] /\ (i # 1 => more[i - 1] = rows[i - 1])
      BY <1>1, <2>1
    <3>2. IsRow(rows[i], IF i = 1 THEN 0 ELSE RowEnd(rows[i - 1]))
      BY <2>1, Zenon DEF Contiguous
    <3>. QED
      BY <3>1, <3>2, Zenon
  <2>2. CASE i = Len(rows) + 1 /\ rows = <<>>
    <3>1. i = 1 /\ more[i] = row /\ NextOffset(rows) = 0
      BY <1>1, <1>2, <2>2 DEF NextOffset
    <3>. QED
      BY <3>1, Zenon
  <2>3. CASE i = Len(rows) + 1 /\ rows # <<>>
    <3>1. /\ i # 1 /\ more[i] = row /\ i - 1 = Len(rows)
          /\ more[i - 1] = rows[Len(rows)]
      BY <1>1, <1>2, <2>3
    <3>2. NextOffset(rows) = RowEnd(more[i - 1])
      BY <2>3, <3>1, Zenon DEF NextOffset
    <3>. QED
      BY <3>1, <3>2, Zenon
  <2>. QED
    BY <1>1, <2>1, <2>2, <2>3
<1>4. NextOffset(more) = RowEnd(row)
  BY <1>1 DEF NextOffset
<1>. QED
  BY <1>1, <1>3, <1>4, Zenon DEF Contiguous, more

\* Before the first row
LEMMA NoRows == <<>> \in Seq(Row) /\ Contiguous(<<>>) /\ NextOffset(<<>>) = 0
  BY DEF Contiguous, NextOffset

\* Nothing was captured.
LEMMA InitDump == SnifferInit => SnifferIInv
  BY NoRows DEF SnifferInit, SnifferIInv, Nothing, Shown

\* While more than a row is left, the modulus is the whole width.
LEMMA FullRow == \A n \in Nat : n > 16 => LineLen(n) = 16
<1>1. ASSUME NEW n \in Nat, n > 16 PROVE 16 % n = 16
  BY <1>1
<1>. QED
  BY <1>1 DEF LineLen, line_width

\* What got_packet prints before the loop of print_payload
LEMMA DissectPrints ==
  ASSUME SnifferIInv, NEW pkt \in Packet, NEW said, said = Dissect(pkt)
  PROVE  /\ said \in [number : Nat, verdict : {said.verdict}, size : Int,
                       rows : Seq(Row)]
         /\ said.number = captured + 1
         /\ said.rows = FirstRows(said.size)
         /\ said.verdict # "tcp" => said.size = 0
<1>1. /\ pkt.ip_hl * 4 \in Nat /\ pkt.th_off * 4 \in Nat
      /\ pkt.ip_len - (pkt.ip_hl * 4 + pkt.th_off * 4) \in Int
  BY PacketAssumption
<1>2. count = captured + 1 /\ captured + 1 \in Nat
  BY DEF SnifferIInv
<1>3. PICK size \in Int : \E verdict, rows :
        /\ said = Shown(captured + 1, verdict, size, rows)
        /\ rows = FirstRows(size) /\ (verdict # "tcp" => size = 0)
  <2>1. FirstRows(0) = <<>>
    BY DEF FirstRows, line_width
  <2>. QED
    <3>. DEFINE size_ip == pkt.ip_hl * 4
                size_tcp == pkt.th_off * 4
                size_payload == pkt.ip_len - (size_ip + size_tcp)
    <3>1. said = IF size_ip < 20 THEN Shown(captured + 1, "bad ip", 0, <<>>)
                  ELSE IF pkt.ip_p # "tcp" THEN Shown(captured + 1, pkt.ip_p, 0, <<>>)
                  ELSE IF size_tcp < 20 THEN Shown(captured + 1, "bad tcp", 0, <<>>)
                  ELSE Shown(captured + 1, "tcp", size_payload, FirstRows(size_payload))
      BY <1>2, Zenon DEF Dissect
    <3>2. size_payload \in Int /\ 0 \in Int
      BY <1>1
    <3>3. "bad ip" # "tcp" /\ "bad tcp" # "tcp"
      OBVIOUS
    <3>. HIDE DEF size_ip, size_tcp, size_payload
    <3>. DEFINE Goal == \E size \in Int : \E verdict, rows :
                  /\ said = Shown(captured + 1, verdict, size, rows)
                  /\ rows = FirstRows(size) /\ (verdict # "tcp" => size = 0)
    <3>4. ASSUME NEW v, v # "tcp", said = Shown(captured + 1, v, 0, <<>>)
          PROVE  Goal
      BY <2>1, <3>2, <3>4, Zenon
    <3>5. ASSUME said = Shown(captured + 1, "tcp", size_payload, FirstRows(size_payload))
          PROVE  Goal
      BY <3>2, <3>5, Zenon
    <3>. HIDE DEF Goal
    <3>6. Goal
      BY <3>1, <3>3, <3>4, <3>5, Zenon
    <3>. QED
      BY <3>6 DEF Goal
<1>4. FirstRows(size) \in Seq(Row)
  <2>1. CASE size \in 1 .. 16
    <3>1. print_hex_ascii_line(0, size, 0) \in Row
      BY <2>1, RowPrinted DEF IsRow
    <3>. QED
      BY <3>1, <2>1 DEF FirstRows, line_width
  <2>2. CASE size \notin 1 .. 16
    BY <2>2, NoRows DEF FirstRows, line_width
  <2>. QED
    BY <2>1, <2>2
<1>5. PICK verdict, rows : /\ said = Shown(captured + 1, verdict, size, rows)
                           /\ rows = FirstRows(size) /\ (verdict # "tcp" => size = 0)
  BY <1>3
<1>6. /\ said.number = captured + 1 /\ said.verdict = verdict
      /\ said.size = size /\ said.rows = rows
  <2>1. said = Shown(captured + 1, verdict, size, rows)
    BY <1>5
  <2>. QED
    BY <2>1, SMT DEF Shown
<1>7. said = [number |-> said.number, verdict |-> said.verdict,
              size |-> said.size, rows |-> said.rows]
  BY <1>5, <1>6, Zenon DEF Shown
<1>8. said.rows = FirstRows(said.size) /\ (said.verdict # "tcp" => said.size = 0)
  BY <1>5, <1>6, Zenon
<1>9. said.number \in Nat /\ said.size \in Int /\ said.rows \in Seq(Row)
  BY <1>2, <1>3, <1>4, <1>5, <1>6, Zenon
<1>. HIDE <1>5
<1>. QED
  BY <1>6, <1>7, <1>8, <1>9, Zenon

\* A payload of one row is printed whole; a longer one not yet.
LEMMA FirstRowsDump ==
  ASSUME NEW size \in Int
  PROVE  /\ Contiguous(FirstRows(size))
         /\ size <= 0 \/ size > 16 => FirstRows(size) = <<>>
         /\ size \in 1 .. 16 => /\ FirstRows(size) # <<>>
                                /\ NextOffset(FirstRows(size)) = size
<1>1. CASE size \in 1 .. 16
  <2>. DEFINE row == print_hex_ascii_line(0, size, 0)
  <2>1. IsRow(row, 0) /\ RowEnd(row) = 0 + size
    BY <1>1, RowPrinted
  <2>2. FirstRows(size) = Append(<<>>, row)
    BY <1>1 DEF FirstRows, line_width
  <2>. HIDE DEF row
  <2>3. /\ Contiguous(Append(<<>>, row)) /\ Append(<<>>, row) # <<>>
        /\ NextOffset(Append(<<>>, row)) = RowEnd(row)
    BY <2>1, NoRows, RowAdded, Zenon
  <2>4. 0 + size = size /\ ~(size <= 0) /\ ~(size > 16)
    BY <1>1
  <2>. QED
    BY <2>1, <2>2, <2>3, <2>4, Zenon
<1>2. CASE size \notin 1 .. 16
  <2>1. FirstRows(size) = <<>>
    BY <1>2 DEF FirstRows, line_width
  <2>. QED
    BY <1>2, <2>1, NoRows
<1>. QED
  BY <1>1, <1>2

\* got_packet, up to the loop of print_payload
LEMMA GotPacketDump ==
  ASSUME SnifferIInv, NEW pkt \in Packet, got_packet(pkt) PROVE SnifferIInv'
<1>1. /\ dump' = Dissect(pkt) /\ captured' = captured + 1
      /\ count' = count + 1 /\ ch' = 0 /\ len_rem' = dump'.size /\ offset' = 0
      /\ pc' = IF dump'.size > 16 THEN "print" ELSE "loop"
  BY DEF got_packet, line_width
<1>2. /\ dump' \in [number : Nat, verdict : {dump'.verdict}, size : Int,
                       rows : Seq(Row)]
      /\ dump'.number = captured + 1
      /\ dump'.rows = FirstRows(dump'.size)
      /\ dump'.verdict # "tcp" => dump'.size = 0
  BY <1>1, DissectPrints, Zenon
<1>3. captured' \in Nat /\ count' = captured' + 1
  BY <1>1 DEF SnifferIInv
<1>4. dump'.size \in Int
  BY <1>2
<1>5. /\ Contiguous(dump'.rows)
      /\ dump'.size <= 0 \/ dump'.size > 16 => dump'.rows = <<>>
      /\ dump'.size \in 1 .. 16 => /\ dump'.rows # <<>>
                                      /\ NextOffset(dump'.rows) = dump'.size
  BY <1>2, <1>4, FirstRowsDump, Zenon
<1>6. CASE dump'.size > 16
  <2>1. /\ pc' = "print" /\ dump'.rows = <<>> /\ dump'.verdict = "tcp"
        /\ NextOffset(dump'.rows) = 0
    BY <1>1, <1>2, <1>5, <1>6, NoRows
  <2>2. len_rem' \in Nat /\ len_rem' > 16 /\ 0 + len_rem' = dump'.size /\ 0 \in Nat
    BY <1>1, <1>4, <1>6
  <2>. QED
    BY <1>1, <1>2, <1>3, <1>5, <2>1, <2>2 DEF SnifferIInv
<1>7. CASE ~(dump'.size > 16)
  <2>1. pc' = "loop" /\ (dump'.size <= 0 \/ dump'.size \in 1 .. 16)
    BY <1>1, <1>4, <1>7
  <2>2. dump'.verdict # "tcp" => dump'.rows = <<>>
    BY <1>2, <1>5
  <2>3. IF dump'.size <= 0 THEN dump'.rows = <<>>
        ELSE dump'.rows # <<>> /\ NextOffset(dump'.rows) = dump'.size
    BY <1>5, <2>1
  <2>. QED
    BY <1>1, <1>2, <1>3, <1>5, <2>1, <2>2, <2>3 DEF SnifferIInv
<1>. QED
  BY <1>6, <1>7

\* One round of that loop
LEMMA PrintDump == ASSUME SnifferIInv, print_payload PROVE SnifferIInv'
<1>. DEFINE row == print_hex_ascii_line(ch, 16, ch)
            rem == len_rem - 16
            last == print_hex_ascii_line(ch + 16, rem, ch + 16)
            rows == dump.rows
            size == dump.size
<1>1. /\ ch \in Nat /\ len_rem \in Nat /\ len_rem > 16 /\ offset = ch
      /\ NextOffset(rows) = ch /\ ch + len_rem = size
      /\ dump.verdict = "tcp" /\ Contiguous(rows)
      /\ rows \in Seq(Row) /\ size \in Int
  BY DEF print_payload, SnifferIInv
<1>2. LineLen(len_rem) = 16
  BY <1>1, FullRow
<1>3. /\ pc' = IF rem <= 16 THEN "loop" ELSE "print"
      /\ dump' = [dump EXCEPT !.rows = IF rem <= 16
                       THEN Append(Append(rows, row), last) ELSE Append(rows, row)]
      /\ ch' = ch + 16 /\ len_rem' = rem /\ offset' = ch + 16
      /\ UNCHANGED <<count, captured>>
  BY <1>1, <1>2, Zenon DEF print_payload, line_width
<1>4. rem \in Nat /\ rem >= 1 /\ ch + 16 \in Nat /\ (ch + 16) + rem = size /\ size > 0
  BY <1>1
<1>5. IsRow(row, ch) /\ RowEnd(row) = ch + 16
  BY <1>1, RowPrinted
<1>6. rem <= 16 => IsRow(last, ch + 16) /\ RowEnd(last) = (ch + 16) + rem
  <2>1. rem <= 16 => rem \in 1 .. 16
    <3>. HIDE DEF rem
    <3>. QED
      BY <1>4
  <2>. QED
    BY <1>4, <2>1, RowPrinted
<1>. HIDE DEF row, rem, last
<1>7. /\ Append(rows, row) \in Seq(Row) /\ Contiguous(Append(rows, row))
      /\ NextOffset(Append(rows, row)) = ch + 16
  BY <1>1, <1>5, RowAdded
<1>8. ASSUME NEW more, dump' = [dump EXCEPT !.rows = more], more \in Seq(Row)
      PROVE  /\ dump' \in [number : Nat, verdict : {dump'.verdict},
                              size : Int, rows : Seq(Row)]
             /\ dump'.number = dump.number /\ dump'.size = size
             /\ dump'.verdict = "tcp" /\ dump'.rows = more
  BY <1>1, <1>8 DEF SnifferIInv
<1>9. /\ captured' \in Nat /\ count' = captured' + 1 /\ dump.number = captured'
  BY <1>3 DEF SnifferIInv
<1>10. CASE rem <= 16
  <2>. DEFINE both == Append(Append(rows, row), last)
  <2>1. /\ both \in Seq(Row) /\ Contiguous(both) /\ both # <<>>
        /\ NextOffset(both) = (ch + 16) + rem
    BY <1>6, <1>7, <1>10, RowAdded
  <2>2. dump' = [dump EXCEPT !.rows = both] /\ pc' = "loop"
    BY <1>3, <1>10, Zenon
  <2>. HIDE DEF both
  <2>3. /\ dump' \in [number : Nat, verdict : {dump'.verdict},
                         size : Int, rows : Seq(Row)]
        /\ dump'.number = dump.number /\ dump'.size = size
        /\ dump'.verdict = "tcp" /\ dump'.rows = both
    BY <1>8, <2>1, <2>2
  <2>4. NextOffset(both) = dump'.size /\ ~(dump'.size <= 0)
    BY <1>4, <2>1, <2>3
  <2>. QED
    BY <1>9, <2>1, <2>2, <2>3, <2>4 DEF SnifferIInv
<1>11. CASE ~(rem <= 16)
  <2>. DEFINE more == Append(rows, row)
  <2>1. dump' = [dump EXCEPT !.rows = more] /\ pc' = "print"
    BY <1>3, <1>11, Zenon
  <2>2. /\ more \in Seq(Row) /\ Contiguous(more) /\ NextOffset(more) = ch + 16
    BY <1>7
  <2>. HIDE DEF more
  <2>3. /\ dump' \in [number : Nat, verdict : {dump'.verdict},
                         size : Int, rows : Seq(Row)]
        /\ dump'.number = dump.number /\ dump'.size = size
        /\ dump'.verdict = "tcp" /\ dump'.rows = more
    BY <1>8, <2>1, <2>2
  <2>4. ch' \in Nat /\ len_rem' \in Nat /\ len_rem' > 16 /\ ch' + len_rem' = dump'.size
    BY <1>3, <1>4, <1>11, <2>3
  <2>. QED
    BY <1>3, <1>9, <2>1, <2>2, <2>3, <2>4 DEF SnifferIInv
<1>. QED
  BY <1>10, <1>11

\* Every step
LEMMA NextDump == ASSUME SnifferIInv, [SnifferNext]_snVars PROVE SnifferIInv'
<1>1. ASSUME UNCHANGED <<count, captured, dump, payload>>,
             pc' # "print", pc # "print"
      PROVE  SnifferIInv'
  BY <1>1 DEF SnifferIInv
<1>2. CASE ChooseDevice \/ OpenDevice \/ CaptureComplete
  BY <1>1, <1>2 DEF ChooseDevice, OpenDevice, CaptureComplete, Goto
<1>3. CASE UNCHANGED snVars
  BY <1>3 DEF snVars, payload, SnifferIInv
<1>. QED
  BY <1>2, <1>3, PrintDump, GotPacketDump DEF SnifferNext

\* Whatever packets come, of whatever length: the dump of each is its payload.
THEOREM DumpAlwaysComplete == SnifferSpec => []DumpComplete
<1>1. ASSUME SnifferIInv PROVE DumpComplete
  <2>1. dump.rows \in Seq(Row) /\ DOMAIN dump.rows = 1 .. Len(dump.rows)
    BY <1>1 DEF SnifferIInv
  <2>2. ASSUME NEW i \in 1 .. Len(dump.rows)
        PROVE  IsRow(dump.rows[i],
                     IF i = 1 THEN 0 ELSE RowEnd(dump.rows[i - 1]))
    BY <1>1, Zenon DEF SnifferIInv, Contiguous
  <2>3. ASSUME NEW i \in 1 .. Len(dump.rows)
        PROVE  dump.rows[i].ascii = 49 /\ dump.rows[1].ascii = 49
    <3>1. 1 \in 1 .. Len(dump.rows)
      BY <2>1
    <3>. QED
      BY <2>2, <3>1, Zenon DEF IsRow
  <2>4. \A i \in DOMAIN dump.rows :
          /\ Len(dump.rows[i].bytes) \in 1 .. 16
          /\ \A j \in DOMAIN dump.rows[i].bytes :
               dump.rows[i].bytes[j] = dump.rows[i].offset + j - 1
          /\ dump.rows[i].offset = IF i = 1 THEN 0 ELSE RowEnd(dump.rows[i - 1])
          /\ dump.rows[i].ascii = dump.rows[1].ascii
    BY <2>1, <2>2, <2>3, Zenon DEF IsRow
  <2>. QED
    BY <1>1, <2>4, Zenon DEF SnifferIInv, DumpComplete, NextOffset
<1>. QED
  BY <1>1, InitDump, NextDump, PTL DEF SnifferSpec
=============================================================================
