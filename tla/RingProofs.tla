----------------------------- MODULE RingProofs -----------------------------
(***************************************************************************)
(* The programs that are built on rings.  The ring buffer for every size:  *)
(* its indices agree, and where the allocation holds the array it          *)
(* implements the bounded queue.  The echo server over DPDK neither loses  *)
(* an mbuf nor hands one out twice, and its ARP replies go where they      *)
(* should, for any number of ports and mbufs, any burst, any transmit ring *)
(* and any frames that arrive; the packet generator never reports more     *)
(* than it sent.                                                           *)
(***************************************************************************)
EXTENDS RingBuffer, Dpdk, SequenceTheorems, TLAPS

\* Every index the code computes is at most one turn past the last slot.
LEMMA WrapValue ==
  \A n \in 0 .. 2 * Size - 1 :
     Wrap(n) = IF n < Size THEN n ELSE n - Size
<1>. SUFFICES ASSUME NEW n \in 0 .. 2 * Size - 1
              PROVE  n % Size = IF n < Size THEN n ELSE n - Size
  BY DEF Wrap
<1>1. CASE n < Size
  <2>1. n % Size = n
    BY <1>1, SizeAssumption
  <2>. QED
    BY <1>1, <2>1
<1>2. CASE n >= Size
  <2>1. n % Size = n - Size
    BY <1>2, SizeAssumption
  <2>. QED
    BY <1>2, <2>1, SizeAssumption
<1>. QED
  BY <1>1, <1>2, SizeAssumption

\* The indices, the counter and the memory always have their types.
THEOREM RingTypeCorrect == RingSpec => []RingTypeOK
<1>. USE SizeAssumption DEF RingTypeOK, Slot
<1>1. RingInit => RingTypeOK
  BY DEF RingInit
<1>2. RingTypeOK /\ [RingNext]_ringVars => RingTypeOK'
  <2>. SUFFICES ASSUME RingTypeOK, [RingNext]_ringVars PROVE RingTypeOK'
    OBVIOUS
  <2>1. CASE NewRingBuffer
    BY <2>1 DEF NewRingBuffer
  <2>2. ASSUME NEW p \in Value, PushToQueue(p) PROVE RingTypeOK'
    BY <2>2, WrapValue DEF PushToQueue
  <2>3. CASE RetrieveFromQueue
    BY <2>3, WrapValue DEF RetrieveFromQueue
  <2>4. CASE PrintBuffer
    BY <2>4 DEF PrintBuffer
  <2>5. CASE FreeRingBuffer
    BY <2>5 DEF FreeRingBuffer
  <2>6. CASE Clobber
    BY <2>6 DEF Clobber
  <2>7. CASE UNCHANGED ringVars
    BY <2>7 DEF ringVars
  <2>. QED
    BY <2>1, <2>2, <2>3, <2>4, <2>5, <2>6, <2>7 DEF RingNext
<1>. QED
  BY <1>1, <1>2, PTL DEF RingSpec

-----------------------------------------------------------------------------
\* The elements are a sequence of slots' contents, oldest first.
LEMMA ContentsType ==
  ASSUME RingTypeOK
  PROVE  /\ Contents \in Seq(Value \cup {Junk})
         /\ Len(Contents) = active
         /\ DOMAIN Contents = 1 .. active
         /\ \A i \in 1 .. active : /\ Contents[i] = ring[Wrap(start + i - 1)]
                                  /\ Wrap(start + i - 1) \in Slot
<1>. USE SizeAssumption, WrapValue DEF RingTypeOK, Slot
<1>1. \A i \in 1 .. active : Wrap(start + i - 1) \in 0 .. Size - 1
  OBVIOUS
<1>2. Contents \in [1 .. active -> Value \cup {Junk}]
  BY <1>1 DEF Contents
<1>. QED
  BY <1>1, <1>2 DEF Contents

\* A sequence with one element more, or one less, known by its elements.
LEMMA AppendByElements ==
  ASSUME NEW S, NEW s \in Seq(S), NEW e \in S, NEW u \in Seq(S),
         Len(u) = Len(s) + 1,
         \A i \in 1 .. Len(s) + 1 : u[i] = IF i = Len(s) + 1 THEN e ELSE s[i]
  PROVE  u = Append(s, e)
  OBVIOUS

\* One element shorter, the others one place further down: the tail.
LEMMA TailByElements ==
  ASSUME NEW S, NEW s \in Seq(S), NEW u \in Seq(S), s # <<>>,
         Len(u) = Len(s) - 1, \A i \in 1 .. Len(s) - 1 : u[i] = s[i + 1]
  PROVE  u = Tail(s)
  OBVIOUS

\* PushToQueue on a buffer that is not full appends, whatever the slot held.
LEMMA PushAppends ==
  ASSUME RingTypeOK, RingTypeOK', end = Wrap(start + active),
         NEW p \in Value, PushToQueue(p), active < Size
  PROVE  Contents' = Append(Contents, p) /\ end' = Wrap(start' + active')
<1>. USE SizeAssumption, WrapValue DEF RingTypeOK, Slot
<1>1. /\ start' = start /\ active' = active + 1 /\ end' = Wrap(end + 1)
      /\ ring' = [ring EXCEPT ![end] = p]
  BY DEF PushToQueue
<1>2. \A i \in 1 .. active : Wrap(start + i - 1) # end
  BY <1>1
<1>3. ASSUME NEW i \in 1 .. active + 1
      PROVE  Contents'[i] = IF i = active + 1 THEN p ELSE Contents[i]
  <2>1. Contents'[i] = ring'[Wrap(start + i - 1)]
    BY <1>1 DEF Contents
  <2>2. CASE i = active + 1
    <3>1. Wrap(start + i - 1) = end
      BY <2>2
    <3>. QED
      BY <1>1, <2>1, <2>2, <3>1
  <2>3. CASE i \in 1 .. active
    <3>1. Contents[i] = ring[Wrap(start + i - 1)] /\ Wrap(start + i - 1) \in Slot
      BY <2>3, ContentsType
    <3>2. ring'[Wrap(start + i - 1)] = ring[Wrap(start + i - 1)]
      BY <1>1, <1>2, <2>3, <3>1
    <3>. QED
      BY <2>1, <2>3, <3>1, <3>2
  <2>. QED
    BY <2>2, <2>3
<1>4. Contents' \in Seq(Value \cup {Junk}) /\ Len(Contents') = active + 1
  BY <1>1, ContentsType DEF Contents
<1>5. Contents' = Append(Contents, p)
  <2>1. Contents \in Seq(Value \cup {Junk}) /\ Len(Contents) = active
    BY ContentsType
  <2>. QED
    BY <1>3, <1>4, <2>1, AppendByElements
<1>6. Wrap(end + 1) = Wrap(start + active + 1)
  OBVIOUS
<1>. QED
  BY <1>1, <1>5, <1>6

\* RetrieveFromQueue on a buffer that is not empty returns and drops the head.
LEMMA RetrieveTakesHead ==
  ASSUME RingTypeOK, RingTypeOK', end = Wrap(start + active),
         RetrieveFromQueue, active # 0
  PROVE  /\ Contents' = Tail(Contents) /\ res' = Popped(Head(Contents))
         /\ end' = Wrap(start' + active')
         /\ \A i \in 1 .. active - 1 :
              /\ Wrap(start' + i - 1) = Wrap(start + (i + 1) - 1)
              /\ Contents'[i] = Contents[i + 1]
<1>. USE SizeAssumption, WrapValue DEF RingTypeOK, Slot
<1>1. /\ start' = Wrap(start + 1) /\ active' = active - 1
      /\ end' = end /\ ring' = ring /\ res' = Popped(ring[start])
  BY DEF RetrieveFromQueue
<1>2. \A i \in 1 .. active - 1 : Wrap(start' + i - 1) = Wrap(start + (i + 1) - 1)
  BY <1>1
<1>3. ASSUME NEW i \in 1 .. active - 1 PROVE Contents'[i] = Contents[i + 1]
  <2>1. Contents'[i] = ring[Wrap(start' + i - 1)]
    BY <1>1 DEF Contents
  <2>2. Contents[i + 1] = ring[Wrap(start + (i + 1) - 1)]
    BY DEF Contents
  <2>. QED
    BY <1>2, <2>1, <2>2
<1>4. Contents' \in Seq(Value \cup {Junk}) /\ Len(Contents') = active - 1
  BY <1>1, ContentsType DEF Contents
<1>5. Contents' = Tail(Contents)
  <2>1. /\ Contents \in Seq(Value \cup {Junk}) /\ Len(Contents) = active
        /\ Contents # <<>>
    BY ContentsType
  <2>. QED
    BY <1>3, <1>4, <2>1, TailByElements
<1>6. Head(Contents) = ring[start]
  BY ContentsType
<1>7. Wrap(start + active) = Wrap(start' + active')
  BY <1>1
<1>. QED
  BY <1>1, <1>2, <1>3, <1>5, <1>6, <1>7, Zenon

-----------------------------------------------------------------------------
\* The end index is always where the elements end, and an element in memory
\* the buffer owns is a pointer that PushToQueue was given.
THEOREM IndicesAlwaysAgree == RingSpec => []IndicesAgree
<1>. USE SizeAssumption DEF Slot
<1>1. RingInit => IndicesAgree
  BY WrapValue DEF RingInit, IndicesAgree
<1>2. RingTypeOK /\ RingTypeOK' /\ IndicesAgree /\ [RingNext]_ringVars => IndicesAgree'
  <2>. SUFFICES ASSUME RingTypeOK, RingTypeOK', IndicesAgree, [RingNext]_ringVars
                PROVE  IndicesAgree'
    OBVIOUS
  <2>1. CASE NewRingBuffer
    BY <2>1, WrapValue DEF NewRingBuffer, IndicesAgree
  <2>2. ASSUME NEW p \in Value, PushToQueue(p) PROVE IndicesAgree'
    <3>1. CASE active < Size
      <4>1. /\ Contents' = Append(Contents, p)
            /\ end' = Wrap(start' + active')
            /\ start' = start /\ active' = active + 1
        BY <2>2, <3>1, PushAppends DEF IndicesAgree, PushToQueue
      <4>2. active \in Nat /\ Len(Contents) = active
        BY ContentsType DEF RingTypeOK
      <4>3. ASSUME NEW i \in 1 .. active', Wrap(start' + i - 1) < Owned
            PROVE  Contents'[i] \in Value
        <5>1. CASE i \in 1 .. active
          <6>1. Contents'[i] = Contents[i]
            BY <4>1, <4>2, <5>1, ContentsType
          <6>. QED
            BY <4>1, <4>3, <5>1, <6>1 DEF IndicesAgree
        <5>2. CASE i = active + 1
          BY <4>1, <4>2, <5>2, ContentsType
        <5>. QED
          BY <4>1, <4>2, <5>1, <5>2
      <4>. QED
        BY <4>1, <4>3, Zenon DEF IndicesAgree
    <3>2. CASE ~(active < Size)
      BY <2>2, <3>2 DEF PushToQueue, IndicesAgree, Contents
    <3>. QED
      BY <3>1, <3>2
  <2>3. CASE RetrieveFromQueue
    <3>1. CASE active = 0
      BY <2>3, <3>1 DEF RetrieveFromQueue, IndicesAgree, Contents
    <3>2. CASE active # 0
      <4>1. end' = Wrap(start' + active') /\ active' = active - 1
        BY <2>3, <3>2, RetrieveTakesHead DEF IndicesAgree, RetrieveFromQueue
      <4>2. ASSUME NEW i \in 1 .. active', Wrap(start' + i - 1) < Owned
            PROVE  Contents'[i] \in Value
        <5>1. i + 1 \in 1 .. active
          BY <4>1 DEF RingTypeOK
        <5>2. /\ Wrap(start' + i - 1) = Wrap(start + (i + 1) - 1)
              /\ Contents'[i] = Contents[i + 1]
          BY <2>3, <3>2, <4>1, RetrieveTakesHead DEF IndicesAgree
        <5>. QED
          BY <4>2, <5>1, <5>2 DEF IndicesAgree
      <4>. QED
        BY <4>1, <4>2 DEF IndicesAgree
    <3>. QED
      BY <3>1, <3>2
  <2>4. CASE PrintBuffer
    BY <2>4 DEF PrintBuffer, IndicesAgree, Contents
  <2>5. CASE FreeRingBuffer
    BY <2>5, WrapValue DEF FreeRingBuffer, IndicesAgree
  <2>6. CASE Clobber
    <3>1. PICK s \in Slot : s >= Owned /\ ring' = [ring EXCEPT ![s] = Junk]
      BY <2>6, Zenon DEF Clobber
    <3>2. start' = start /\ end' = end /\ active' = active
      BY <2>6 DEF Clobber
    <3>3. ASSUME NEW i \in 1 .. active, Wrap(start + i - 1) < Owned
          PROVE  Contents'[i] = Contents[i]
      <4>1. Wrap(start + i - 1) \in Slot /\ Wrap(start + i - 1) # s
        BY <3>3, <3>1, ContentsType
      <4>2. ring'[Wrap(start + i - 1)] = ring[Wrap(start + i - 1)]
        BY <3>1, <4>1 DEF RingTypeOK
      <4>. QED
        BY <3>2, <4>2 DEF Contents
    <3>. QED
      BY <3>2, <3>3 DEF IndicesAgree
  <2>7. CASE UNCHANGED ringVars
    BY <2>7 DEF ringVars, IndicesAgree, Contents
  <2>. QED
    BY <2>1, <2>2, <2>3, <2>4, <2>5, <2>6, <2>7 DEF RingNext
<1>. QED
  BY <1>1, <1>2, RingTypeCorrect, PTL DEF RingSpec

-----------------------------------------------------------------------------
\* Each step of the ring buffer is a step of the queue or leaves it alone,
\* unless someone else writes its memory.
LEMMA StepSimulates ==
  ASSUME RingTypeOK, RingTypeOK', IndicesAgree, [RingNext]_ringVars
  PROVE  [Queue!Next \/ Clobber]_(Queue!vars)
<1>. USE SizeAssumption DEF Queue!Next, Queue!vars, Slot
<1>. USE DEF Ok, ERROR_BUFFER_FULL, Popped, Shown, NoCall
<1>. USE DEF Queue!Ok, Queue!Full, Queue!Popped, Queue!Shown, Queue!NoCall
<1>1. CASE NewRingBuffer
  BY <1>1 DEF NewRingBuffer, Contents, Queue!New
<1>2. ASSUME NEW p \in Value, PushToQueue(p) PROVE Queue!Push(p)
  <2>1. CASE active < Size
    <3>1. Contents' = Append(Contents, p)
      BY <1>2, <2>1, PushAppends DEF IndicesAgree
    <3>. QED
      BY <1>2, <2>1, <3>1, ContentsType DEF PushToQueue, Queue!Push
  <2>2. CASE ~(active < Size)
    <3>1. Contents' = Contents
      BY <1>2, <2>2 DEF PushToQueue, Contents
    <3>. QED
      BY <1>2, <2>2, <3>1, ContentsType DEF PushToQueue, Queue!Push
  <2>. QED
    BY <2>1, <2>2
<1>3. CASE RetrieveFromQueue
  <2>1. CASE active = 0
    <3>1. Contents = <<>> /\ Contents' = Contents
      BY <1>3, <2>1 DEF RetrieveFromQueue, Contents
    <3>. QED
      BY <1>3, <2>1, <3>1 DEF RetrieveFromQueue, Queue!Retrieve
  <2>2. CASE active # 0
    <3>1. Contents' = Tail(Contents) /\ res' = Popped(Head(Contents))
      BY <1>3, <2>2, RetrieveTakesHead DEF IndicesAgree
    <3>2. Contents # <<>>
      BY <2>2, ContentsType DEF RingTypeOK
    <3>. QED
      BY <1>3, <2>2, <3>1, <3>2 DEF RetrieveFromQueue, Queue!Retrieve
  <2>. QED
    BY <2>1, <2>2
<1>4. CASE PrintBuffer
  BY <1>4 DEF PrintBuffer, Contents, Queue!Show
<1>5. CASE FreeRingBuffer
  BY <1>5 DEF FreeRingBuffer, Contents, Queue!Free
<1>6. CASE Clobber
  BY <1>6
<1>7. CASE UNCHANGED ringVars
  BY <1>7 DEF ringVars, Contents
<1>. QED
  BY <1>1, <1>2, <1>3, <1>4, <1>5, <1>6, <1>7 DEF RingNext

\* The initial state of the ring is an empty queue.
LEMMA InitSimulates == RingInit => Queue!Init
  BY DEF RingInit, Contents, Queue!Init, NoCall, Queue!NoCall

\* For every size and allocation: PushToQueue, RetrieveFromQueue, PrintBuffer,
\* NewRingBuffer and FreeRingBuffer do what the operations of a bounded FIFO
\* queue do, and nothing but a foreign write past the allocation disturbs it.
THEOREM RingImplementsQueue == RingSpec => ImplementsQueue
<1>1. RingTypeOK /\ RingTypeOK' /\ IndicesAgree /\ [RingNext]_ringVars
        => [Queue!Next \/ Clobber]_(Queue!vars)
  BY StepSimulates
<1>. QED
  BY <1>1, InitSimulates, RingTypeCorrect, IndicesAlwaysAgree, PTL
     DEF RingSpec, ImplementsQueue

\* A ring whose slots all lie in the allocation of NewRingBuffer is the bounded
\* FIFO queue that its callers rely on: there is no foreign write to fear.
THEOREM FittingRingIsQueue ==
  ASSUME Size <= Owned
  PROVE  RingSpec => Queue!Spec
<1>1. ~Clobber
  BY SizeAssumption DEF Clobber, Slot
<1>2. RingTypeOK /\ RingTypeOK' /\ IndicesAgree /\ [RingNext]_ringVars
        => [Queue!Next]_(Queue!vars)
  BY <1>1, StepSimulates
<1>. QED
  BY <1>2, InitSimulates, RingTypeCorrect, IndicesAlwaysAgree, PTL
     DEF RingSpec, Queue!Spec
-----------------------------------------------------------------------------
(***************************************************************************)
(* The DPDK programs.  The account of MbufsConserved needs to know that    *)
(* the core holds nothing while it polls, so that a new burst overwrites   *)
(* none.                                                                   *)
(***************************************************************************)
\* No element twice
IsInj(s) == \A i, j \in DOMAIN s : s[i] = s[j] => i = j

\* The mbufs in a place of a port, as a set.
In(k, p) == Range(MbufsAt(k, p))

\* MbufsConserved in terms of sets: no place holds an mbuf twice, no two places
\* share one, and the pool has those that are nowhere.
Separate ==
  /\ \A k \in Place, p \in Port : IsInj(MbufsAt(k, p))
  /\ \A k, l \in Place, p, q \in Port :
       k # l \/ p # q => In(k, p) \cap In(l, q) = {}

\* The pool has the mbufs that are in no other place.
PoolIsRest ==
  \A m \in Mbuf : m \in pool <=> \A k \in Place, p \in Port : m \notin In(k, p)

\* The inductive invariant of the echo server
IInv == TypeOK /\ Separate /\ PoolIsRest /\ (pc = "rx" => bufs = <<>>)

\* A sequence cut after n elements.
LEMMA Cut ==
  ASSUME NEW S, NEW s \in Seq(S), NEW n \in 0 .. Len(s)
  PROVE  /\ SubSeq(s, 1, n) \in Seq(S) /\ Len(SubSeq(s, 1, n)) = n
         /\ \A i \in 1 .. n : SubSeq(s, 1, n)[i] = s[i]
         /\ SubSeq(s, n + 1, Len(s)) \in Seq(S)
         /\ Len(SubSeq(s, n + 1, Len(s))) = Len(s) - n
         /\ \A i \in 1 .. Len(s) - n : SubSeq(s, n + 1, Len(s))[i] = s[n + i]
<1>1. \A i \in 1 .. Len(s) : s[i] \in S
  BY LenProperties
<1>2. Len(s) \in Nat
  BY LenProperties
<1>3. /\ SubSeq(s, 1, n) \in Seq(S) /\ Len(SubSeq(s, 1, n)) = n
      /\ \A i \in 1 .. n : SubSeq(s, 1, n)[i] = s[i]
  <2>1. \A i \in 1 .. n : s[i] \in S
    BY <1>1, <1>2
  <2>2. /\ SubSeq(s, 1, n) \in Seq(S)
        /\ Len(SubSeq(s, 1, n)) = IF 1 <= n THEN n - 1 + 1 ELSE 0
        /\ \A i \in 1 .. n - 1 + 1 : SubSeq(s, 1, n)[i] = s[1 + i - 1]
    BY <2>1, <1>2, SubSeqProperties
  <2>. QED
    BY <2>2, <1>2
<1>4. /\ SubSeq(s, n + 1, Len(s)) \in Seq(S)
      /\ Len(SubSeq(s, n + 1, Len(s))) = Len(s) - n
      /\ \A i \in 1 .. Len(s) - n : SubSeq(s, n + 1, Len(s))[i] = s[n + i]
  <2>1. \A i \in n + 1 .. Len(s) : s[i] \in S
    BY <1>1, <1>2
  <2>2. /\ SubSeq(s, n + 1, Len(s)) \in Seq(S)
        /\ Len(SubSeq(s, n + 1, Len(s))) =
             IF n + 1 <= Len(s) THEN Len(s) - (n + 1) + 1 ELSE 0
        /\ \A i \in 1 .. Len(s) - (n + 1) + 1 :
             SubSeq(s, n + 1, Len(s))[i] = s[n + 1 + i - 1]
    BY <2>1, <1>2, SubSeqProperties
  <2>. QED
    BY <2>2, <1>2
<1>. QED
  BY <1>3, <1>4

\* Two sequences a and b that one without repetitions, s, was cut into.
Pieces(s, n, a, b) ==
  /\ Len(a) = n /\ Len(b) = Len(s) - n
  /\ \A i \in 1 .. n : a[i] = s[i]
  /\ \A i \in 1 .. Len(s) - n : b[i] = s[n + i]

\* The pieces of a sequence without repetitions share out its elements.
LEMMA PiecesShare ==
  ASSUME NEW S, NEW s \in Seq(S), IsInj(s), NEW n \in 0 .. Len(s),
         NEW a \in Seq(S), NEW b \in Seq(S), Pieces(s, n, a, b)
  PROVE  /\ IsInj(a) /\ IsInj(b)
         /\ Range(a) \cup Range(b) = Range(s)
         /\ Range(a) \cap Range(b) = {}
<1>1. /\ DOMAIN a = 1 .. n /\ DOMAIN b = 1 .. Len(s) - n
      /\ DOMAIN s = 1 .. Len(s) /\ Len(s) \in Nat /\ n \in Nat /\ n <= Len(s)
  BY LenProperties DEF Pieces
<1>2. \A i \in DOMAIN a : i \in Nat /\ i <= n /\ i \in DOMAIN s /\ a[i] = s[i]
  BY <1>1 DEF Pieces
<1>3. \A i \in DOMAIN b : i \in Nat /\ n + i > n /\ n + i \in DOMAIN s
                         /\ b[i] = s[n + i]
  BY <1>1 DEF Pieces
<1>4. IsInj(a)
  BY <1>2 DEF IsInj
<1>5. IsInj(b)
  <2>1. ASSUME NEW i \in DOMAIN b, NEW j \in DOMAIN b, b[i] = b[j] PROVE i = j
    <3>1. n + i = n + j
      BY <1>3, <2>1 DEF IsInj
    <3>. QED
      BY <1>1, <1>3, <3>1
  <2>. QED
    BY <2>1 DEF IsInj
<1>6. Range(a) \cap Range(b) = {}
  <2>1. ASSUME NEW i \in DOMAIN a, NEW j \in DOMAIN b, a[i] = b[j] PROVE FALSE
    <3>1. i = n + j
      BY <1>2, <1>3, <2>1 DEF IsInj
    <3>. QED
      BY <1>1, <1>2, <1>3, <3>1
  <2>. QED
    BY <2>1 DEF Range
<1>7. Range(a) \subseteq Range(s)
  BY <1>2 DEF Range
<1>8. Range(b) \subseteq Range(s)
  BY <1>3 DEF Range
<1>9. Range(s) \subseteq Range(a) \cup Range(b)
  <2>1. ASSUME NEW i \in DOMAIN s PROVE s[i] \in Range(a) \cup Range(b)
    <3>1. CASE i <= n
      <4>1. i \in DOMAIN a /\ a[i] = s[i]
        BY <1>1, <1>2, <2>1, <3>1
      <4>. QED
        BY <4>1 DEF Range
    <3>2. CASE ~ (i <= n)
      <4>1. i - n \in DOMAIN b /\ n + (i - n) = i
        BY <1>1, <2>1, <3>2
      <4>2. b[i - n] = s[i]
        BY <1>3, <4>1
      <4>. QED
        BY <4>1, <4>2 DEF Range
    <3>. QED
      BY <3>1, <3>2
  <2>. QED
    BY <2>1 DEF Range
<1>. QED
  BY <1>4, <1>5, <1>6, <1>7, <1>8, <1>9

\* SubSeq makes such pieces.
LEMMA CutIntoPieces ==
  ASSUME NEW S, NEW s \in Seq(S), NEW n \in 0 .. Len(s)
  PROVE  /\ SubSeq(s, 1, n) \in Seq(S) /\ SubSeq(s, n + 1, Len(s)) \in Seq(S)
         /\ Pieces(s, n, SubSeq(s, 1, n), SubSeq(s, n + 1, Len(s)))
  BY Cut DEF Pieces

\* u is s followed by t; the two share nothing.
Join(u, s, t) == u = s \o t /\ \A x \in Range(s) : x \notin Range(t)

\* Two that share nothing make one without repetitions.
LEMMA JoinGathers ==
  ASSUME NEW S, NEW s \in Seq(S), NEW t \in Seq(S), IsInj(s), IsInj(t),
         NEW u, Join(u, s, t)
  PROVE  /\ u \in Seq(S) /\ IsInj(u)
         /\ Range(u) = Range(s) \cup Range(t)
<1>0. u = s \o t /\ \A x \in Range(s) : x \notin Range(t)
  BY DEF Join
<1>1. /\ u \in Seq(S) /\ Len(u) = Len(s) + Len(t)
      /\ \A i \in 1 .. Len(s) + Len(t) :
           u[i] = IF i <= Len(s) THEN s[i] ELSE t[i - Len(s)]
  BY <1>0, ConcatProperties
<1>2. /\ DOMAIN s = 1 .. Len(s) /\ DOMAIN t = 1 .. Len(t)
      /\ DOMAIN u = 1 .. Len(s) + Len(t) /\ Len(s) \in Nat /\ Len(t) \in Nat
  BY <1>1, LenProperties
<1>3. \A i \in DOMAIN u : \/ i \in DOMAIN s /\ u[i] = s[i]
                          \/ i - Len(s) \in DOMAIN t /\ u[i] = t[i - Len(s)]
  BY <1>1, <1>2
<1>4. \A i \in DOMAIN s : i \in DOMAIN u /\ u[i] = s[i]
  BY <1>1, <1>2
<1>5. \A i \in DOMAIN t :
        i + Len(s) \in DOMAIN u /\ u[i + Len(s)] = t[i]
  <2>1. ASSUME NEW i \in DOMAIN t
        PROVE  i + Len(s) \in DOMAIN u /\ u[i + Len(s)] = t[i]
    <3>1. /\ i + Len(s) \in 1 .. Len(s) + Len(t) /\ ~ (i + Len(s) <= Len(s))
          /\ i + Len(s) - Len(s) = i
      BY <1>2, <2>1
    <3>. QED
      BY <1>1, <1>2, <3>1
  <2>. QED
    BY <2>1
<1>6. Range(u) = Range(s) \cup Range(t)
  <2>1. Range(u) \subseteq Range(s) \cup Range(t)
    BY <1>3 DEF Range
  <2>2. Range(s) \subseteq Range(u)
    BY <1>4 DEF Range
  <2>3. Range(t) \subseteq Range(u)
    BY <1>5 DEF Range
  <2>. QED
    BY <2>1, <2>2, <2>3
<1>7. IsInj(u)
  <2>. SUFFICES ASSUME NEW i \in DOMAIN u, NEW j \in DOMAIN u, u[i] = u[j]
                PROVE  i = j
    BY DEF IsInj
  <2>1. CASE i \in DOMAIN s /\ u[i] = s[i] /\ j \in DOMAIN s /\ u[j] = s[j]
    BY <2>1, Zenon DEF IsInj
  <2>2. CASE /\ i - Len(s) \in DOMAIN t /\ u[i] = t[i - Len(s)]
             /\ j - Len(s) \in DOMAIN t /\ u[j] = t[j - Len(s)]
    <3>1. i - Len(s) = j - Len(s)
      BY <2>2, Zenon DEF IsInj
    <3>. QED
      BY <1>2, <3>1
  <2>3. ~ (u[i] \in Range(s) /\ u[j] \in Range(t))
    BY <1>0
  <2>4. ~ (u[i] \in Range(t) /\ u[j] \in Range(s))
    BY <1>0
  <2>. QED
    BY <1>3, <2>1, <2>2, <2>3, <2>4 DEF Range
<1>. QED
  BY <1>1, <1>6, <1>7

\* The elements are of the set.
LEMMA RangeInSet == ASSUME NEW S, NEW s \in Seq(S) PROVE Range(s) \subseteq S
  BY LenProperties DEF Range

\* No elements
LEMMA RangeOfEmpty == Range(<<>>) = {} /\ IsInj(<<>>)
  BY DEF Range, IsInj

\* At first all mbufs are in the pool.
LEMMA InitIInv == Init => IInv
<1>. SUFFICES ASSUME Init PROVE IInv
  OBVIOUS
<1>1. TypeOK
  BY ConstantsAssumption DEF Init, TypeOK, Port
<1>2. \A k \in Place, p \in Port : MbufsAt(k, p) = <<>>
  BY DEF Init, MbufsAt, Held, Place
<1>3. \A k \in Place, p \in Port : IsInj(MbufsAt(k, p)) /\ In(k, p) = {}
  BY <1>2 DEF IsInj, In, Range
<1>. QED
  BY <1>1, <1>3 DEF IInv, Separate, PoolIsRest, Init

\* Mbufs that move from one place of a port, or the pool, to another keep the
\* account, if no place holds one twice.
Moved(A, from, to, k, p, P) ==
  (In(k, p) \ IF k = from /\ p = P THEN A ELSE {})
    \cup IF k = to /\ p = P THEN A ELSE {}

\* The mbufs of A go from one place to another.
MoveOf(A, from, to, P) ==
  /\ A \subseteq Mbuf /\ from # to
  /\ from \in Place \cup {"pool"} /\ to \in Place \cup {"pool"}
  /\ A \subseteq IF from = "pool" THEN pool ELSE In(from, P)
  /\ pool' = (pool \ IF from = "pool" THEN A ELSE {})
               \cup IF to = "pool" THEN A ELSE {}
  /\ \A k \in Place, p \in Port : /\ In(k, p)' = Moved(A, from, to, k, p, P)
                                  /\ IsInj(MbufsAt(k, p))'

\* The frames of the other mbufs stay as they are.
Others(A) == \A m \in Mbuf \ A : frame'[m] = frame[m]

\* A move keeps every mbuf in one place.
LEMMA MoveKeeps ==
  ASSUME Separate, PoolIsRest, pool \subseteq Mbuf,
         NEW P \in Port, NEW A, NEW from, NEW to, MoveOf(A, from, to, P)
  PROVE  Separate' /\ PoolIsRest'
<1>. /\ A \subseteq Mbuf /\ from # to
     /\ from \in Place \cup {"pool"} /\ to \in Place \cup {"pool"}
     /\ A \subseteq IF from = "pool" THEN pool ELSE In(from, P)
     /\ pool' = (pool \ IF from = "pool" THEN A ELSE {})
                  \cup IF to = "pool" THEN A ELSE {}
     /\ \A k \in Place, p \in Port : /\ In(k, p)' = Moved(A, from, to, k, p, P)
                                     /\ IsInj(MbufsAt(k, p))'
  BY DEF MoveOf
<1>1. \A k, l \in Place, p, q \in Port :
        k # l \/ p # q => In(k, p)' \cap In(l, q)' = {}
  <2>. SUFFICES ASSUME NEW k \in Place, NEW l \in Place,
                       NEW p \in Port, NEW q \in Port, k # l \/ p # q, NEW m,
                       m \in In(k, p)', m \in In(l, q)'
                PROVE  FALSE
    OBVIOUS
  <2>1. /\ m \in In(k, p) \/ (k = to /\ p = P /\ m \in A)
        /\ m \in In(l, q) \/ (l = to /\ q = P /\ m \in A)
    BY DEF Moved
  <2>2. ~ (m \in In(k, p) /\ m \in In(l, q))
    BY DEF Separate
  <2>3. CASE m \in In(k, p) /\ l = to /\ q = P /\ m \in A
    <3>1. m \notin A \/ ~ (k = from /\ p = P)
      BY <2>3 DEF Moved
    <3>. QED
      BY <2>3, <3>1 DEF Separate, PoolIsRest
  <2>4. CASE m \in In(l, q) /\ k = to /\ p = P /\ m \in A
    <3>1. m \notin A \/ ~ (l = from /\ q = P)
      BY <2>4 DEF Moved
    <3>. QED
      BY <2>4, <3>1 DEF Separate, PoolIsRest
  <2>. QED
    BY <2>1, <2>2, <2>3, <2>4
<1>2. ASSUME NEW m \in Mbuf
      PROVE  m \in pool' <=> \A k \in Place, p \in Port : m \notin In(k, p)'
  <2>1. CASE m \notin A
    BY <2>1 DEF Moved, PoolIsRest
  <2>2. CASE m \in A /\ to = "pool"
    <3>1. from \in Place /\ m \in In(from, P) /\ m \in pool'
      BY <2>2
    <3>2. ASSUME NEW k \in Place, NEW p \in Port PROVE m \notin In(k, p)'
      <4>1. k # to
        BY <2>2 DEF Place
      <4>2. m \notin In(k, p) \/ (k = from /\ p = P)
        BY <3>1 DEF Separate
      <4>. QED
        BY <2>2, <4>1, <4>2 DEF Moved
    <3>. QED
      BY <3>1, <3>2
  <2>3. CASE m \in A /\ to \in Place
    <3>1. m \in In(to, P)'
      BY <2>3 DEF Moved
    <3>2. m \notin pool'
      BY <2>3 DEF PoolIsRest, Place
    <3>. QED
      BY <2>3, <3>1, <3>2
  <2>. QED
    BY <2>1, <2>2, <2>3
<1>. QED
  BY <1>1, <1>2 DEF Separate, PoolIsRest

\* rte_eth_tx_burst takes a part of the burst: the front of what the core
\* holds goes to the end of the ring.
LEMMA TxBurstKeeps ==
  ASSUME IInv, tx_burst
  PROVE  IInv' /\ \E A : MoveOf(A, "core", "tx", port)
<1>1. PICK P \in Port, s \in Seq(Mbuf), n \in 0 .. Len(bufs) :
        /\ P = port /\ s = txq[P]
        /\ nb_tx' = n /\ txq' = [txq EXCEPT ![P] = s \o SubSeq(bufs, 1, n)]
  BY Zenon DEF tx_burst, IInv, TypeOK
<1>2. /\ pc = "tx" /\ pc' = "free" /\ bufs \in Seq(Mbuf)
      /\ pool' = pool /\ rxq' = rxq /\ frame' = frame
      /\ port' = P /\ bufs' = bufs
  BY <1>1 DEF tx_burst, IInv, TypeOK
<1>3. PICK a \in Seq(Mbuf), b \in Seq(Mbuf) :
        /\ a = SubSeq(bufs, 1, n) /\ b = SubSeq(bufs, n + 1, Len(bufs))
        /\ Pieces(bufs, n, a, b)
  BY <1>2, CutIntoPieces, Zenon
<1>4. Pieces(bufs, n, a, b)
  BY <1>3
<1>5. /\ MbufsAt("core", P) = bufs /\ MbufsAt("tx", P) = s
      /\ \A p \in Port : p # P => MbufsAt("core", p) = <<>>
  BY <1>1, <1>2 DEF MbufsAt, Held
<1>6. /\ IsInj(bufs) /\ IsInj(s)
      /\ Range(bufs) = In("core", P) /\ Range(s) = In("tx", P)
      /\ Range(bufs) \cap Range(s) = {}
  BY <1>5 DEF IInv, Separate, In, Place
<1>7. /\ IsInj(a) /\ IsInj(b)
      /\ Range(a) \cup Range(b) = Range(bufs) /\ Range(a) \cap Range(b) = {}
  BY <1>2, <1>4, <1>6, PiecesShare
<1>8. \A x \in Range(s) : x \notin Range(a)
  BY <1>6, <1>7
<1>9. PICK queue : queue = s \o a /\ Join(queue, s, a)
  BY <1>8, Zenon DEF Join
<1>10. /\ queue \in Seq(Mbuf) /\ IsInj(queue)
       /\ Range(queue) = Range(s) \cup Range(a)
  <2>1. Join(queue, s, a) /\ IsInj(s) /\ IsInj(a)
    BY <1>6, <1>7, <1>9
  <2>. QED
    BY ONLY <2>1, s \in Seq(Mbuf), a \in Seq(Mbuf), JoinGathers
<1>11. txq' = [txq EXCEPT ![P] = queue]
  BY <1>1, <1>3, <1>9
<1>12. TypeOK'
  BY <1>1, <1>2, <1>10, <1>11 DEF IInv, TypeOK
<1>13. \A p \in Port :
         /\ MbufsAt("rx", p)' = MbufsAt("rx", p)
         /\ MbufsAt("tx", p)' = IF p = P THEN queue ELSE MbufsAt("tx", p)
         /\ MbufsAt("core", p)' = IF p = P THEN b ELSE <<>>
  BY <1>1, <1>2, <1>3, <1>11, Zenon DEF MbufsAt, Held, IInv, TypeOK
<1>14. \A k \in Place, p \in Port : IsInj(MbufsAt(k, p))'
  BY <1>7, <1>10, <1>13 DEF IInv, Separate, IsInj, Place
<1>15. /\ \A p \in Port : In("rx", p)' = In("rx", p)
       /\ \A p \in Port : p # P => /\ In("tx", p)' = In("tx", p)
                                   /\ In("core", p)' = {} /\ In("core", p) = {}
       /\ In("tx", P)' = In("tx", P) \cup Range(a)
       /\ In("core", P)' = Range(b)
  BY <1>5, <1>6, <1>10, <1>13, RangeOfEmpty DEF In
<1>16. \A k \in Place, p \in Port :
         In(k, p)' = Moved(Range(a), "core", "tx", k, p, P)
  <2>1. \A p \in Port : In("rx", p)' = Moved(Range(a), "core", "tx", "rx", p, P)
    BY <1>15 DEF Moved
  <2>2. \A p \in Port : In("tx", p)' = Moved(Range(a), "core", "tx", "tx", p, P)
    BY <1>15 DEF Moved
  <2>3. \A p \in Port :
          In("core", p)' = Moved(Range(a), "core", "tx", "core", p, P)
    BY <1>6, <1>7, <1>15 DEF Moved
  <2>. QED
    BY <2>1, <2>2, <2>3 DEF Place
<1>17. Range(a) \in SUBSET Mbuf /\ Range(a) \subseteq In("core", P)
  BY <1>6, <1>7, RangeInSet
<1>18. MoveOf(Range(a), "core", "tx", P)
  BY <1>2, <1>14, <1>16, <1>17 DEF MoveOf, Place
<1>19. Separate' /\ PoolIsRest'
  BY <1>18, MoveKeeps DEF IInv, TypeOK
<1>. QED
  BY <1>1, <1>2, <1>12, <1>18, <1>19 DEF IInv

\* rte_eth_rx_burst hands over the front of a port's ring, maybe none of it.
LEMMA RxBurstKeeps ==
  ASSUME IInv, rx_burst
  PROVE  IInv' /\ \E A : MoveOf(A, "rx", "core", port)
<1>1. PICK P \in Port, s \in Seq(Mbuf), n \in 0 .. BURST_SIZE :
        /\ P = port /\ s = rxq[P] /\ n <= Len(s)
        /\ bufs' = SubSeq(s, 1, n)
        /\ rxq' = [rxq EXCEPT ![P] = SubSeq(s, n + 1, Len(s))]
        /\ IF n = 0 THEN NextPort /\ UNCHANGED pc
                    ELSE pc' = "handle" /\ UNCHANGED port
  BY Zenon DEF rx_burst, IInv, TypeOK
<1>2. /\ pc = "rx" /\ bufs = <<>> /\ nb_tx = 0
      /\ pool' = pool /\ txq' = txq /\ frame' = frame /\ nb_tx' = 0
  BY DEF rx_burst, IInv, TypeOK
<1>3. n \in 0 .. Len(s) /\ Len(s) \in Nat
  BY <1>1, LenProperties, ConstantsAssumption
<1>4. PICK a \in Seq(Mbuf), b \in Seq(Mbuf) :
        /\ a = SubSeq(s, 1, n) /\ b = SubSeq(s, n + 1, Len(s))
        /\ Pieces(s, n, a, b)
  BY <1>3, CutIntoPieces, Zenon
<1>5. Pieces(s, n, a, b) /\ Len(a) = n
  BY <1>4 DEF Pieces
<1>6. /\ MbufsAt("rx", P) = s
      /\ \A p \in Port : MbufsAt("core", p) = <<>>
  BY <1>1, <1>2 DEF MbufsAt, Held
<1>7. IsInj(s) /\ Range(s) = In("rx", P)
  BY <1>6 DEF IInv, Separate, In, Place
<1>8. /\ IsInj(a) /\ IsInj(b)
      /\ Range(a) \cup Range(b) = Range(s) /\ Range(a) \cap Range(b) = {}
  BY <1>3, <1>5, <1>7, PiecesShare
<1>9. n = 0 => a = <<>>
  BY <1>5, EmptySeq
<1>10. /\ bufs' = a /\ rxq' = [rxq EXCEPT ![P] = b]
       /\ pc' \in {"rx", "handle"} /\ (pc' = "rx" => n = 0)
       /\ n # 0 => port' = P
  BY <1>1, <1>2, <1>4
<1>11. port' \in Port
  BY <1>1, ConstantsAssumption DEF NextPort, Port
<1>12. TypeOK'
  BY <1>1, <1>2, <1>3, <1>5, <1>10, <1>11 DEF IInv, TypeOK
<1>13. \A p \in Port :
         /\ MbufsAt("tx", p)' = MbufsAt("tx", p)
         /\ MbufsAt("rx", p)' = IF p = P THEN b ELSE MbufsAt("rx", p)
         /\ MbufsAt("core", p)' = IF p = P THEN a ELSE <<>>
  BY <1>1, <1>2, <1>9, <1>10, Zenon DEF MbufsAt, Held, IInv, TypeOK
<1>14. \A k \in Place, p \in Port : IsInj(MbufsAt(k, p))'
  <2>1. IsInj(<<>>)
    BY DEF IsInj
  <2>2. \A p \in Port : /\ IsInj(MbufsAt("tx", p)')
                        /\ IsInj(MbufsAt("rx", p)')
                        /\ IsInj(MbufsAt("core", p)')
    BY <1>8, <1>13, <2>1, Zenon DEF IInv, Separate, Place
  <2>. QED
    BY <2>2, Zenon DEF Place, IsInj
<1>15. /\ \A p \in Port : In("tx", p)' = In("tx", p) /\ In("core", p) = {}
       /\ \A p \in Port : p # P => /\ In("rx", p)' = In("rx", p)
                                   /\ In("core", p)' = {}
       /\ In("core", P)' = Range(a) /\ In("rx", P)' = Range(b)
  BY <1>6, <1>13, RangeOfEmpty DEF In
<1>16. \A k \in Place, p \in Port :
         In(k, p)' = Moved(Range(a), "rx", "core", k, p, P)
  <2>1. \A p \in Port : In("tx", p)' = Moved(Range(a), "rx", "core", "tx", p, P)
    BY <1>15 DEF Moved
  <2>2. \A p \in Port :
          In("core", p)' = Moved(Range(a), "rx", "core", "core", p, P)
    BY <1>15 DEF Moved
  <2>3. \A p \in Port : In("rx", p)' = Moved(Range(a), "rx", "core", "rx", p, P)
    BY <1>7, <1>8, <1>15 DEF Moved
  <2>. QED
    BY <2>1, <2>2, <2>3 DEF Place
<1>17. Range(a) \in SUBSET Mbuf /\ Range(a) \subseteq In("rx", P)
  BY <1>7, <1>8, RangeInSet
<1>18. MoveOf(Range(a), "rx", "core", P)
  BY <1>2, <1>14, <1>16, <1>17 DEF MoveOf, Place
<1>19. Separate' /\ PoolIsRest'
  BY <1>18, MoveKeeps DEF IInv, TypeOK
<1>. QED
  BY <1>1, <1>9, <1>10, <1>12, <1>18, <1>19 DEF IInv

\* What the port did not take goes back to the pool.
LEMMA FreeKeeps ==
  ASSUME IInv, free_unsent
  PROVE  IInv' /\ \E A : MoveOf(A, "core", "pool", port) /\ Others(A)
<1>1. PICK P \in Port, b \in Seq(Mbuf) :
        P = port /\ b = SubSeq(bufs, nb_tx + 1, Len(bufs))
  BY CutIntoPieces, Zenon DEF IInv, TypeOK
<1>2. /\ pc = "free" /\ pc' = "rx" /\ bufs' = <<>> /\ nb_tx' = 0
      /\ rxq' = rxq /\ txq' = txq /\ pool' = pool \cup Range(b)
      /\ DOMAIN frame' = Mbuf
  BY <1>1 DEF free_unsent, Free, rings
<1>3. port' \in Port
  BY ConstantsAssumption DEF free_unsent, NextPort, Port, IInv, TypeOK
<1>4. \A p \in Port :
        /\ MbufsAt("rx", p)' = MbufsAt("rx", p)
        /\ MbufsAt("tx", p)' = MbufsAt("tx", p)
        /\ MbufsAt("core", p)' = <<>>
        /\ MbufsAt("core", p) = IF p = P THEN b ELSE <<>>
  BY <1>1, <1>2 DEF MbufsAt, Held
<1>5. /\ \A p \in Port : /\ In("rx", p)' = In("rx", p)
                         /\ In("tx", p)' = In("tx", p)
                         /\ In("core", p)' = {}
                         /\ p # P => In("core", p) = {}
      /\ In("core", P) = Range(b)
  BY <1>4, RangeOfEmpty DEF In
<1>6. \A k \in Place, p \in Port :
        In(k, p)' = Moved(Range(b), "core", "pool", k, p, P)
  BY <1>5 DEF Moved, Place
<1>7. \A k \in Place, p \in Port : IsInj(MbufsAt(k, p))'
  BY <1>4, RangeOfEmpty DEF IInv, Separate, IsInj, Place
<1>8. Range(b) \in SUBSET Mbuf
  BY RangeInSet
<1>9. TypeOK'
  <2>1. /\ <<>> \in Seq(Mbuf) /\ Len(<<>>) <= BURST_SIZE /\ 0 \in 0 .. Len(<<>>)
    BY ConstantsAssumption
  <2>. QED
    BY <1>2, <1>3, <1>8, <2>1, Zenon DEF IInv, TypeOK
<1>10. MoveOf(Range(b), "core", "pool", P)
  BY <1>2, <1>5, <1>6, <1>7, <1>8 DEF MoveOf, Place
<1>11. Separate' /\ PoolIsRest'
  BY <1>10, MoveKeeps DEF IInv, TypeOK
<1>12. Others(Range(b))
  BY <1>1 DEF free_unsent, Free, Others
<1>. QED
  BY <1>1, <1>2, <1>9, <1>10, <1>11, <1>12 DEF IInv

\* An element that is not yet there
LEMMA AppendGathers ==
  ASSUME NEW S, NEW s \in Seq(S), NEW e \in S, IsInj(s), e \notin Range(s)
  PROVE  /\ Append(s, e) \in Seq(S) /\ IsInj(Append(s, e))
         /\ Range(Append(s, e)) = Range(s) \cup {e}
<1>1. <<e>> \in Seq(S) /\ IsInj(<<e>>) /\ Range(<<e>>) = {e}
  BY DEF IsInj, Range
<1>2. PICK t \in Seq(S) : t = <<e>> /\ IsInj(t) /\ Range(t) = {e}
  BY <1>1, Zenon
<1>3. PICK u : u = Append(s, e)
  BY Zenon
<1>4. Join(u, s, t)
  <2>1. u = s \o t
    BY <1>2, <1>3, AppendIsConcat
  <2>2. \A x \in Range(s) : x \notin Range(t)
    BY <1>2
  <2>. QED
    BY <2>1, <2>2 DEF Join
<1>5. u \in Seq(S) /\ IsInj(u) /\ Range(u) = Range(s) \cup Range(t)
  <2>1. Join(u, s, t) /\ IsInj(s) /\ IsInj(t)
    BY <1>2, <1>4
  <2>. QED
    BY ONLY <2>1, s \in Seq(S), t \in Seq(S), JoinGathers
<1>. QED
  BY <1>2, <1>3, <1>5, Zenon

\* Without its first element
LEMMA TailDrops ==
  ASSUME NEW S, NEW s \in Seq(S), IsInj(s), s # <<>>
  PROVE  /\ Tail(s) \in Seq(S) /\ IsInj(Tail(s))
         /\ Head(s) \in Range(s) /\ Range(Tail(s)) = Range(s) \ {Head(s)}
<1>1. /\ Head(s) = s[1] /\ Head(s) \in S /\ Tail(s) \in Seq(S)
      /\ Len(s) \in Nat /\ Len(s) >= 1
      /\ Len(Tail(s)) = Len(s) - 1
      /\ \A i \in 1 .. Len(Tail(s)) : Tail(s)[i] = s[i + 1]
  BY HeadTailProperties, EmptySeq, LenProperties
<1>2. PICK a \in Seq(S), b \in Seq(S) : a = <<Head(s)>> /\ b = Tail(s)
  <2>1. <<Head(s)>> \in Seq(S)
    BY <1>1
  <2>. QED
    BY <1>1, <2>1, Zenon
<1>3. Len(a) = 1 /\ a[1] = s[1] /\ Range(a) = {Head(s)}
  BY <1>1, <1>2 DEF Range
<1>4. Pieces(s, 1, a, b) /\ 1 \in 0 .. Len(s)
  BY <1>1, <1>2, <1>3 DEF Pieces
<1>5. /\ IsInj(b) /\ Range(a) \cup Range(b) = Range(s)
      /\ Range(a) \cap Range(b) = {}
  BY <1>4, PiecesShare
<1>. QED
  BY <1>1, <1>2, <1>3, <1>5

\* An arriving frame takes an mbuf from the pool to the end of the ring.
LEMMA ReceiveKeeps ==
  ASSUME IInv, NEW P \in Port, Receive(P)
  PROVE  IInv' /\ \E A : /\ MoveOf(A, "pool", "rx", P) /\ Others(A)
                       /\ \A m \in A : frame'[m] \in Request
<1>1. PICK m \in Mbuf, s \in Seq(Mbuf) :
        /\ m \in pool /\ s = rxq[P]
        /\ pool' = pool \ {m} /\ DOMAIN frame' = Mbuf
        /\ rxq' = [rxq EXCEPT ![P] = Append(s, m)]
  BY Zenon DEF Receive, IInv, TypeOK
<1>2. txq' = txq /\ port' = port /\ bufs' = bufs /\ nb_tx' = nb_tx /\ pc' = pc
  BY DEF Receive
<1>3. MbufsAt("rx", P) = s
  BY <1>1 DEF MbufsAt
<1>4. IsInj(s) /\ Range(s) = In("rx", P) /\ m \notin Range(s)
  BY <1>1, <1>3 DEF IInv, Separate, PoolIsRest, In, Place
<1>5. PICK queue \in Seq(Mbuf) :
        /\ queue = Append(s, m) /\ IsInj(queue)
        /\ Range(queue) = Range(s) \cup {m}
  <2>1. /\ Append(s, m) \in Seq(Mbuf) /\ IsInj(Append(s, m))
        /\ Range(Append(s, m)) = Range(s) \cup {m}
    BY <1>4, AppendGathers
  <2>. QED
    BY <2>1, Zenon
<1>6. TypeOK'
  BY <1>1, <1>2, <1>5 DEF IInv, TypeOK
<1>7. \A p \in Port :
        /\ MbufsAt("tx", p)' = MbufsAt("tx", p)
        /\ MbufsAt("rx", p)' = IF p = P THEN queue ELSE MbufsAt("rx", p)
        /\ MbufsAt("core", p)' = MbufsAt("core", p)
  BY <1>1, <1>2, <1>5 DEF MbufsAt, Held, IInv, TypeOK
<1>8. \A k \in Place, p \in Port : IsInj(MbufsAt(k, p))'
  BY <1>5, <1>7 DEF IInv, Separate, IsInj, Place
<1>9. /\ \A p \in Port : /\ In("tx", p)' = In("tx", p)
                         /\ In("core", p)' = In("core", p)
                         /\ p # P => In("rx", p)' = In("rx", p)
      /\ In("rx", P)' = In("rx", P) \cup {m}
  BY <1>4, <1>5, <1>7, Zenon DEF In
<1>10. \A k \in Place, p \in Port :
         In(k, p)' = Moved({m}, "pool", "rx", k, p, P)
  BY <1>9 DEF Moved, Place
<1>11. MoveOf({m}, "pool", "rx", P)
  BY <1>1, <1>8, <1>10, Zenon DEF MoveOf, Place
<1>12. Separate' /\ PoolIsRest'
  BY <1>11, MoveKeeps DEF IInv, TypeOK
<1>13. Others({m}) /\ frame'[m] \in Request
  BY <1>1 DEF Receive, Others, IInv, TypeOK
<1>. QED
  BY <1>2, <1>6, <1>11, <1>12, <1>13 DEF IInv

\* A frame on the wire gives its mbuf back.
LEMMA TransmitKeeps ==
  ASSUME IInv, NEW P \in Port, Transmit(P)
  PROVE  IInv' /\ \E A : MoveOf(A, "tx", "pool", P) /\ Others(A)
<1>1. PICK s \in Seq(Mbuf) : s = txq[P] /\ s # <<>>
  BY DEF Transmit, IInv, TypeOK
<1>2. MbufsAt("tx", P) = s
  BY <1>1 DEF MbufsAt
<1>3. IsInj(s) /\ Range(s) = In("tx", P)
  BY <1>2 DEF IInv, Separate, In, Place
<1>4. PICK m \in Mbuf, queue \in Seq(Mbuf) :
        /\ m = Head(s) /\ queue = Tail(s) /\ IsInj(queue)
        /\ m \in Range(s) /\ Range(queue) = Range(s) \ {m}
  BY <1>1, <1>3, TailDrops, RangeInSet, Zenon
<1>5. /\ pool' = pool \cup {m} /\ DOMAIN frame' = Mbuf
      /\ txq' = [txq EXCEPT ![P] = queue]
      /\ rxq' = rxq /\ port' = port /\ bufs' = bufs /\ nb_tx' = nb_tx
      /\ pc' = pc
  BY <1>1, <1>4 DEF Transmit, Free
<1>6. m \in Mbuf
  OBVIOUS
<1>7. TypeOK'
  BY <1>4, <1>5, <1>6 DEF IInv, TypeOK
<1>8. \A p \in Port :
        /\ MbufsAt("rx", p)' = MbufsAt("rx", p)
        /\ MbufsAt("tx", p)' = IF p = P THEN queue ELSE MbufsAt("tx", p)
        /\ MbufsAt("core", p)' = MbufsAt("core", p)
  BY <1>5 DEF MbufsAt, Held, IInv, TypeOK
<1>9. \A k \in Place, p \in Port : IsInj(MbufsAt(k, p))'
  BY <1>4, <1>8 DEF IInv, Separate, IsInj, Place
<1>10. /\ \A p \in Port : /\ In("rx", p)' = In("rx", p)
                          /\ In("core", p)' = In("core", p)
                          /\ p # P => In("tx", p)' = In("tx", p)
       /\ In("tx", P)' = In("tx", P) \ {m}
  BY <1>3, <1>4, <1>8, Zenon DEF In
<1>11. \A k \in Place, p \in Port :
         In(k, p)' = Moved({m}, "tx", "pool", k, p, P)
  BY <1>10 DEF Moved, Place
<1>12. MoveOf({m}, "tx", "pool", P)
  BY <1>3, <1>4, <1>5, <1>6, <1>9, <1>11, Zenon DEF MoveOf, Place
<1>13. Separate' /\ PoolIsRest'
  BY <1>12, MoveKeeps DEF IInv, TypeOK
<1>14. Others({m})
  BY <1>1, <1>4 DEF Transmit, Free, Others
<1>. QED
  BY <1>5, <1>7, <1>12, <1>13, <1>14 DEF IInv

\* packet_handler rewrites frames and moves none; nor does a stutter.
LEMMA StillKeeps ==
  ASSUME IInv, rx_handler \/ UNCHANGED vars
  PROVE  IInv'
<1>1. /\ pool' = pool /\ rxq' = rxq /\ txq' = txq /\ port' = port
      /\ bufs' = bufs /\ nb_tx' = nb_tx
      /\ DOMAIN frame' = Mbuf
      /\ pc' = pc \/ (pc = "handle" /\ pc' = "tx")
  BY DEF rx_handler, vars, rings, IInv, TypeOK
<1>2. TypeOK' /\ (pc' = "rx" => bufs' = <<>>)
  BY <1>1 DEF IInv, TypeOK
<1>3. \A k \in Place, p \in Port : MbufsAt(k, p)' = MbufsAt(k, p)
  BY <1>1 DEF MbufsAt, Held, Place
<1>4. \A k \in Place, p \in Port :
        In(k, p)' = In(k, p) /\ IsInj(MbufsAt(k, p))'
  BY <1>3 DEF In, IsInj, IInv, Separate
<1>5. Separate' /\ PoolIsRest'
  BY <1>1, <1>4 DEF IInv, Separate, PoolIsRest
<1>. QED
  BY <1>2, <1>5 DEF IInv

\* Every step is a move, or none.
LEMMA NextIInv == IInv /\ [Next]_vars => IInv'
  BY RxBurstKeeps, TxBurstKeeps, FreeKeeps, ReceiveKeeps, TransmitKeeps,
     StillKeeps DEF Next, lcore_main

\* The account in terms of sets is the one in terms of the rings.
LEMMA IInvConserves == IInv => MbufsConserved
<1>. SUFFICES ASSUME IInv PROVE MbufsConserved
  OBVIOUS
<1>1. ASSUME NEW k \in Place, NEW l \in Place, NEW p \in Port, NEW q \in Port,
             NEW i \in DOMAIN MbufsAt(k, p), NEW j \in DOMAIN MbufsAt(l, q),
             MbufsAt(k, p)[i] = MbufsAt(l, q)[j]
      PROVE  k = l /\ p = q /\ i = j
  <2>1. MbufsAt(k, p)[i] \in In(k, p) /\ MbufsAt(k, p)[i] \in In(l, q)
    BY <1>1 DEF In, Range
  <2>2. k = l /\ p = q
    BY <2>1 DEF IInv, Separate
  <2>. QED
    BY <1>1, <2>2 DEF IInv, Separate, IsInj
<1>. QED
  BY <1>1 DEF MbufsConserved, IInv, PoolIsRest, In

\* The invariant holds in every state.
LEMMA Invariance == Spec => []IInv
  BY InitIInv, NextIInv, PTL DEF Spec

\* The rings of basicfwd.c hold mbufs of the pool only, the burst of lcore_main
\* fits its array and no more frames count as sent than it holds.
THEOREM TypeCorrect == Spec => []TypeOK
<1>1. IInv => TypeOK
  BY DEF IInv
<1>. QED
  BY <1>1, Invariance, PTL

\* However the ports and lcore_main interleave, and however little of a burst
\* rte_eth_tx_burst takes, each mbuf is free, in one ring or in the core's
\* burst, and in one place only: freeing exactly the unsent ones is right.
THEOREM MbufsAlwaysConserved == Spec => []MbufsConserved
  BY Invariance, IInvConserves, PTL
-----------------------------------------------------------------------------
(***************************************************************************)
(* The frames.  What waits in a receive ring, or in the core's burst before *)
(* packet_handler has seen it, came from the network; what waits for or in *)
(* a transmit ring is the handler's answer to such a frame on that port.   *)
(* That an mbuf is in one place only keeps the frames from being written   *)
(* over on the way.                                                        *)
(***************************************************************************)
Answer(f, p) == \E q \in Request : f = packet_handler(q, p)

\* What the frame of an mbuf may be, by the place the mbuf is in
Frames ==
  \A p \in Port :
    /\ \A m \in In("rx", p) : frame[m] \in Request
    /\ \A m \in In("tx", p) : Answer(frame[m], p)
    /\ \A m \in In("core", p) : /\ pc = "handle" => frame[m] \in Request
                                /\ pc = "tx" => Answer(frame[m], p)

\* Only mbufs are in a place.
LEMMA InMbuf ==
  ASSUME IInv, NEW k \in Place, NEW p \in Port PROVE In(k, p) \subseteq Mbuf
<1>1. \A s \in Seq(Mbuf) : Range(s) \subseteq Mbuf
  BY RangeInSet
<1>2. MbufsAt(k, p) \in Seq(Mbuf)
  <2>1. Held \in Seq(Mbuf)
    BY Cut DEF Held, IInv, TypeOK
  <2>. QED
    BY <2>1 DEF MbufsAt, IInv, TypeOK
<1>. QED
  BY <1>1, <1>2 DEF In

\* A core that polls holds none.
LEMMA IdleCoreIsEmpty ==
  ASSUME IInv, pc = "rx", NEW p \in Port PROVE In("core", p) = {}
<1>1. MbufsAt("core", p) = <<>>
  BY DEF MbufsAt, Held, IInv
<1>. QED
  BY <1>1, RangeOfEmpty DEF In

\* At first no place holds an mbuf.
LEMMA InitFrames == Init => Frames
<1>. SUFFICES ASSUME Init PROVE Frames
  OBVIOUS
<1>1. \A k \in Place, p \in Port : MbufsAt(k, p) = <<>>
  BY DEF Init, MbufsAt, Held, Place
<1>2. \A k \in Place, p \in Port : In(k, p) = {}
  BY <1>1, RangeOfEmpty DEF In
<1>. QED
  BY <1>2 DEF Frames, Place

\* packet_handler turns the frames of the burst, and no others, into answers.
LEMMA HandlerAnswers ==
  ASSUME IInv, Frames, rx_handler PROVE Frames'
<1>1. /\ pc = "handle" /\ pc' = "tx" /\ port \in Port
      /\ \A m \in Mbuf : frame'[m] = IF m \in Range(bufs)
                                     THEN packet_handler(frame[m], port)
                                     ELSE frame[m]
      /\ \A k \in Place, p \in Port : MbufsAt(k, p)' = MbufsAt(k, p)
  BY DEF rx_handler, rings, MbufsAt, Held, Place, IInv, TypeOK
<1>2. \A k \in Place, p \in Port : In(k, p)' = In(k, p)
  BY <1>1 DEF In
<1>3. /\ In("core", port) = Range(bufs)
      /\ \A p \in Port : p # port => In("core", p) = {}
  BY <1>1, RangeOfEmpty DEF In, MbufsAt, Held
<1>4. ASSUME NEW p \in Port, NEW m \in In("rx", p) \cup In("tx", p)
      PROVE  frame'[m] = frame[m]
  <2>1. PICK k \in {"rx", "tx"} : m \in In(k, p)
    OBVIOUS
  <2>2. k \in Place /\ "core" \in Place /\ k # "core"
    BY DEF Place
  <2>3. m \in Mbuf
    BY <2>1, <2>2, InMbuf, Zenon
  <2>4. m \notin Range(bufs)
    <3>1. In(k, p) \cap In("core", port) = {}
      BY <1>1, <2>2, Zenon DEF IInv, Separate
    <3>. QED
      BY <1>3, <2>1, <3>1
  <2>. QED
    BY <1>1, <2>3, <2>4, Zenon
<1>5. /\ \A p \in Port : \A m \in In("rx", p) : frame'[m] \in Request
      /\ \A p \in Port : \A m \in In("tx", p) : Answer(frame'[m], p)
  BY <1>4 DEF Frames
<1>6. ASSUME NEW p \in Port, NEW m \in In("core", p) PROVE Answer(frame'[m], p)
  BY <1>1, <1>3, InMbuf DEF Place, Frames, Answer
<1>. QED
  BY <1>1, <1>2, <1>5, <1>6 DEF Frames, Answer, Place

\* A burst carries frames from the receive ring to the core ...
LEMMA RxBurstFrames ==
  ASSUME IInv, Frames, rx_burst PROVE Frames'
<1>1. PICK A : MoveOf(A, "rx", "core", port)
  BY RxBurstKeeps
<1>2. pc = "rx" /\ frame' = frame /\ pc' # "tx" /\ port \in Port
  BY DEF rx_burst, IInv, TypeOK
<1>3. \A p \in Port : In("core", p) = {}
  BY <1>2, IdleCoreIsEmpty
<1>4. \A p \in Port : /\ In("rx", p)' \subseteq In("rx", p)
                      /\ In("tx", p)' \subseteq In("tx", p)
                      /\ In("core", p)' \subseteq In("rx", p)
  BY <1>1, <1>3 DEF MoveOf, Moved, Place
<1>. QED
  BY <1>2, <1>4 DEF Frames, Answer

\* ... and from the core to the transmit ring of the same port.
LEMMA TxBurstFrames ==
  ASSUME IInv, Frames, tx_burst PROVE Frames'
<1>1. PICK A : MoveOf(A, "core", "tx", port)
  BY TxBurstKeeps
<1>2. pc = "tx" /\ pc' = "free" /\ frame' = frame /\ port \in Port
  BY DEF tx_burst, IInv, TypeOK
<1>3. \A p \in Port : /\ In("rx", p)' \subseteq In("rx", p)
                      /\ In("tx", p)' \subseteq In("tx", p) \cup In("core", p)
  BY <1>1 DEF MoveOf, Moved, Place
<1>. QED
  BY <1>2, <1>3 DEF Frames, Answer

\* An mbuf that goes back to the pool was in no other place, so the frames
\* that are still in use stay as they are.
LEMMA ReleaseFrames ==
  ASSUME IInv, Frames, NEW P \in Port, NEW A, NEW k \in Place,
         MoveOf(A, k, "pool", P), Others(A), pc' = pc \/ pc' = "rx"
  PROVE  Frames'
<1>1. \A l \in Place, p \in Port : In(l, p)' \subseteq In(l, p) \ A
  <2>1. ASSUME NEW l \in Place, NEW p \in Port PROVE In(l, p)' \subseteq In(l, p) \ A
    <3>1. l # "pool" /\ k # "pool"
      BY DEF Place
    <3>2. A \subseteq In(k, P) /\ In(l, p)' = Moved(A, k, "pool", l, p, P)
      BY <3>1, Zenon DEF MoveOf
    <3>3. In(l, p)' = In(l, p) \ IF l = k /\ p = P THEN A ELSE {}
      BY <3>1, <3>2, Zenon DEF Moved
    <3>4. CASE l = k /\ p = P
      BY <3>3, <3>4, Zenon
    <3>5. CASE ~(l = k /\ p = P)
      <4>1. In(l, p) \cap In(k, P) = {}
        BY <3>5, Zenon DEF IInv, Separate
      <4>2. In(l, p)' \subseteq In(l, p)
        BY <3>3, Zenon
      <4>. QED
        BY <3>2, <4>1, <4>2, Zenon
    <3>. QED
      BY <3>4, <3>5, Zenon
  <2>. QED
    BY <2>1, Zenon
<1>2. \A l \in Place, p \in Port : \A m \in In(l, p)' : frame'[m] = frame[m]
  BY <1>1, InMbuf DEF Others
<1>3. \A p \in Port :
        /\ \A m \in In("rx", p)' : m \in In("rx", p) /\ frame'[m] = frame[m]
        /\ \A m \in In("tx", p)' : m \in In("tx", p) /\ frame'[m] = frame[m]
        /\ \A m \in In("core", p)' : m \in In("core", p) /\ frame'[m] = frame[m]
  BY <1>1, <1>2 DEF Place
<1>4. /\ (pc = "handle")' => pc = "handle"
      /\ (pc = "tx")' => pc = "tx"
  OBVIOUS
<1>5. ASSUME NEW p \in Port
      PROVE  /\ \A m \in In("rx", p)' : frame'[m] \in Request
             /\ \A m \in In("tx", p)' : Answer(frame'[m], p)
  BY <1>3 DEF Frames
<1>6. ASSUME NEW p \in Port, NEW m \in In("core", p)'
      PROVE  /\ (pc = "handle")' => frame'[m] \in Request
             /\ (pc = "tx")' => Answer(frame'[m], p)
  BY <1>3, <1>4 DEF Frames
<1>. QED
  BY <1>5, <1>6, Zenon DEF Frames, Answer

\* A frame that arrives is a request.
LEMMA ReceiveFrames ==
  ASSUME IInv, Frames, NEW P \in Port, Receive(P) PROVE Frames'
<1>1. PICK A : /\ MoveOf(A, "pool", "rx", P) /\ Others(A)
               /\ \A m \in A : frame'[m] \in Request
  BY ReceiveKeeps
<1>2. pc' = pc
  BY DEF Receive
<1>3. \A l \in Place, p \in Port : In(l, p) \cap A = {} /\ In(l, p) \subseteq Mbuf
  BY <1>1, InMbuf DEF MoveOf, IInv, PoolIsRest
<1>4. \A l \in Place, p \in Port : \A m \in In(l, p) : frame'[m] = frame[m]
  BY <1>1, <1>3 DEF Others
<1>5. \A p \in Port : /\ In("rx", p)' \subseteq In("rx", p) \cup A
                      /\ In("tx", p)' \subseteq In("tx", p)
                      /\ In("core", p)' \subseteq In("core", p)
  <2>1. \A k \in Place, p \in Port :
          In(k, p)' = Moved(A, "pool", "rx", k, p, P)
    BY <1>1, Zenon DEF MoveOf
  <2>2. "pool" \notin Place /\ {"rx", "tx", "core"} \subseteq Place
    BY DEF Place
  <2>. QED
    BY <2>1, <2>2 DEF Moved
<1>6. \A p \in Port :
        /\ \A m \in In("rx", p)' : frame'[m] \in Request
        /\ \A m \in In("tx", p)' : m \in In("tx", p) /\ frame'[m] = frame[m]
        /\ \A m \in In("core", p)' : m \in In("core", p) /\ frame'[m] = frame[m]
  <2>1. \A p \in Port : \A m \in In("rx", p) :
          frame'[m] = frame[m] /\ frame[m] \in Request
    BY <1>4 DEF Frames, Place
  <2>. QED
    BY <1>1, <1>4, <1>5, <2>1 DEF Place
<1>. QED
  BY <1>2, <1>6 DEF Frames, Answer

\* Every step
LEMMA NextFrames == IInv /\ Frames /\ [Next]_vars => Frames'
<1>. SUFFICES ASSUME IInv, Frames, [Next]_vars PROVE Frames'
  OBVIOUS
<1>1. CASE free_unsent
  <2>1. port \in Port /\ pc' = "rx"
    BY <1>1 DEF free_unsent, IInv, TypeOK
  <2>. QED
    BY <1>1, <2>1, FreeKeeps, ReleaseFrames DEF Place
<1>2. ASSUME NEW P \in Port, Transmit(P) PROVE Frames'
  <2>1. pc' = pc
    BY <1>2 DEF Transmit
  <2>. QED
    BY <1>2, <2>1, TransmitKeeps, ReleaseFrames DEF Place
<1>3. CASE UNCHANGED vars
  BY <1>3 DEF vars, rings, Frames, Answer, In, MbufsAt, Held
<1>. QED
  BY <1>1, <1>2, <1>3, RxBurstFrames, HandlerAnswers, TxBurstFrames,
     ReceiveFrames DEF Next, lcore_main

\* What packet_handler answers with: a reply that no host sent answers a
\* request, and is sent in the name of the port.
Asked(f, p) ==
  f.kind = "arp" /\ f.op = "reply" /\ f \notin Request =>
    /\ f.sha = p
    /\ \E q \in Request : /\ q.kind = "arp" /\ q.op = "request"
                          /\ f.tha = q.sha /\ f.tip = q.sip
                          /\ f.sip = q.tip

\* packet_handler's answer to a request is addressed to its sender.
LEMMA RepliesAnswer == ASSUME NEW p, NEW f, Answer(f, p) PROVE Asked(f, p)
<1>. SUFFICES ASSUME f.kind = "arp", f.op = "reply", f \notin Request
              PROVE  /\ f.sha = p
                     /\ \E q \in Request : /\ q.kind = "arp" /\ q.op = "request"
                                           /\ f.tha = q.sha /\ f.tip = q.sip
                                           /\ f.sip = q.tip
  BY Zenon DEF Asked
<1>1. PICK q \in Request : f = packet_handler(q, p)
  BY DEF Answer
<1>2. f # q
  OBVIOUS
<1>3. CASE q.kind = "arp" /\ q.op = "request" /\ q.tip = my_ip
  BY <1>1, <1>3 DEF packet_handler, Arp
<1>4. CASE ~ (q.kind = "arp" /\ q.op = "request" /\ q.tip = my_ip)
  <2>1. f = Icmp(IP_ICMP_ECHO_REPLY, UpdatedChecksum(q.cksum), q.rest)
    BY <1>1, <1>2, <1>4, Zenon DEF packet_handler
  <2>. QED
    BY <2>1 DEF Icmp
<1>. QED
  BY <1>3, <1>4

\* Whatever the hosts send, ARP replies of theirs included, and in whatever
\* order the core serves the ports: a reply that packet_handler made is sent on
\* the port it speaks for, to the host that asked.
THEOREM ArpAlwaysReplies == Spec => []ArpReplies
<1>1. ASSUME IInv, Frames PROVE ArpReplies
  <2>1. ASSUME NEW p \in Port, NEW i \in DOMAIN txq[p]
        PROVE  Answer(frame[txq[p][i]], p)
    <3>1. txq[p][i] \in In("tx", p)
      BY DEF In, MbufsAt, Range
    <3>. QED
      BY <1>1, <3>1, Zenon DEF Frames
  <2>3. \A p \in Port : \A i \in DOMAIN txq[p] : Asked(frame[txq[p][i]], p)
    BY <2>1, RepliesAnswer, Zenon
  <2>. QED
    BY <2>3, Zenon DEF ArpReplies, Asked
<1>. QED
  BY <1>1, Invariance, InitFrames, NextFrames, PTL DEF Spec
-----------------------------------------------------------------------------
(***************************************************************************)
(* The packet generator, for every burst size, every ring and any number   *)
(* of packets.  NeverOverReports is not inductive: a burst is in `sent'    *)
(* before it is in the counter, and the counter, once read, may grow       *)
(* before it is cleared.  GenIInv takes account of both.                   *)
(***************************************************************************)

\* Packets in the port's hands that send_batch has still to add
Unadded == IF generator = "add" THEN genTx ELSE 0

\* What is both printed and in the counter
ReadTwice == IF timer = "set" THEN count ELSE 0

\* What was reported and what will be, against what was sent
Account ==
  /\ reported + counter + Unadded <= sent + ReadTwice
  /\ ReadTwice <= counter /\ ReadTwice <= reported

\* The inductive invariant of the generator
GenIInv == Gen!TypeOK /\ Account

\* At first nothing was sent.
LEMMA InitGenIInv == ASSUME Gen!Init PROVE GenIInv
<1>1. force_quit \in BOOLEAN /\ timerOn \in BOOLEAN
  BY Zenon DEF Gen!Init
<1>2. Gen!TypeOK
  BY <1>1, GeneratorAssumption DEF Gen!Init, Gen!TypeOK
<1>3. QED  BY <1>2 DEF Gen!Init, GenIInv, Account, Unadded, ReadTwice

\* Its variables are numbers.
LEMMA GeneratorNumbers ==
  ASSUME GenIInv
  PROVE  /\ counter \in Nat /\ sent \in Nat /\ reported \in Nat /\ count \in Nat
         /\ genTx \in Nat /\ inRing \in Nat /\ rx \in Nat
         /\ Unadded \in Nat /\ ReadTwice \in Nat
         /\ MaxSent \in Nat /\ sent <= MaxSent
<1>1. /\ counter \in Nat /\ sent \in Nat /\ reported \in Nat /\ count \in Nat
      /\ MaxSent \in Nat /\ sent <= MaxSent
  BY GeneratorAssumption DEF GenIInv, Gen!TypeOK
<1>2. genTx \in Nat /\ inRing \in Nat /\ rx \in Nat
  BY GeneratorAssumption DEF GenIInv, Gen!TypeOK
<1>. QED
  BY <1>1, <1>2 DEF Unadded, ReadTwice

\* A step that touches neither side of the account
LEMMA AccountKept ==
  ASSUME GenIInv,
         UNCHANGED <<counter, generator, genTx, sent, timer, count, reported>>
  PROVE  Account'
  BY DEF GenIInv, Account, Unadded, ReadTwice

\* A step of the generating core: what the ring takes is added later.
LEMMA SenderKeepsIInv ==
  ASSUME GenIInv, Gen!add_paxos_messages \/ Gen!send_batch
  PROVE  GenIInv'
<1>1. CASE Gen!add_paxos_messages
  BY <1>1
     DEF Gen!add_paxos_messages, GenIInv, Account, Gen!TypeOK, Unadded,
         ReadTwice, Gen!report, Gen!receive
<1>2. CASE Gen!tx_burst
  <2>1. PICK n \in 0 .. GenBurst :
          /\ inRing + n <= GenTxRing /\ sent + n <= MaxSent
          /\ genTx' = n /\ inRing' = inRing + n /\ sent' = sent + n
    BY <1>2, Zenon DEF Gen!tx_burst
  <2>2. /\ generator = "burst" /\ generator' = "add"
        /\ UNCHANGED <<counter, force_quit, timer, count, reported, timerOn,
                       master, rx>>
    BY <1>2, Zenon DEF Gen!tx_burst, Gen!report, Gen!receive
  <2>3. Unadded = 0 /\ Unadded' = n /\ ReadTwice' = ReadTwice
    BY <2>1, <2>2 DEF Unadded, ReadTwice
  <2>4. n \in Nat
    BY GeneratorAssumption
  <2>5. /\ sent' \in 0 .. MaxSent /\ inRing' \in 0 .. GenTxRing
        /\ genTx' \in 0 .. GenBurst /\ generator' \in {"craft", "burst", "add"}
    BY <2>1, <2>2, <2>4, GeneratorAssumption, GeneratorNumbers
  <2>6. Gen!TypeOK'
    BY <2>2, <2>5, Zenon DEF GenIInv, Gen!TypeOK
  <2>7. reported + counter + n <= (sent + n) + ReadTwice
    <3>1. reported + counter + 0 <= sent + ReadTwice
      BY <2>3, Zenon DEF GenIInv, Account
    <3>. QED
      BY <2>4, <3>1, GeneratorNumbers
  <2>8. Account'
    BY <2>1, <2>2, <2>3, <2>7, Zenon DEF GenIInv, Account
  <2>. QED
    BY <2>6, <2>8 DEF GenIInv
<1>3. CASE Gen!atomic32_add
  <2>1. /\ generator = "add" /\ counter' = counter + genTx
        /\ generator' \in {"burst", "craft"}
        /\ UNCHANGED <<force_quit, genTx, inRing, sent, timer, count, reported,
                       timerOn, master, rx>>
    BY <1>3 DEF Gen!atomic32_add, Gen!report, Gen!receive
  <2>2. Unadded = genTx /\ Unadded' = 0 /\ ReadTwice' = ReadTwice
    BY <2>1 DEF Unadded, ReadTwice
  <2>3. /\ reported + counter + genTx <= sent + ReadTwice
        /\ ReadTwice <= counter /\ ReadTwice <= reported
    BY <2>2, Zenon DEF GenIInv, Account
  <2>4. /\ counter + genTx \in 0 .. MaxSent /\ ReadTwice <= counter + genTx
        /\ reported + (counter + genTx) + 0 <= sent + ReadTwice
    BY <2>3, GeneratorNumbers
  <2>5. Gen!TypeOK'
    BY <2>1, <2>4 DEF GenIInv, Gen!TypeOK
  <2>6. Account'
    BY <2>1, <2>2, <2>3, <2>4, Zenon DEF Account
  <2>. QED
    BY <2>5, <2>6 DEF GenIInv
<1>4. QED  BY <1>1, <1>2, <1>3 DEF Gen!send_batch

\* A step of the timer's core: the read makes the counter's value count in
\* both places, the clearing takes it out of one.
LEMMA TimerKeepsIInv ==
  ASSUME GenIInv, Gen!timer_manage \/ Gen!report_stat
  PROVE  GenIInv'
<1>1. CASE Gen!timer_manage
  BY <1>1
     DEF Gen!timer_manage, GenIInv, Account, Gen!TypeOK, Unadded, ReadTwice,
         Gen!sender, Gen!receive
<1>2. CASE Gen!report_stat_read
  <2>1. /\ timer = "read" /\ timer' = "set"
        /\ count' = counter /\ reported' = reported + counter
        /\ UNCHANGED <<counter, force_quit, generator, genTx, inRing, sent,
                       timerOn, master, rx>>
    BY <1>2, Zenon DEF Gen!report_stat_read, Gen!sender, Gen!receive
  <2>2. ReadTwice = 0 /\ ReadTwice' = counter /\ Unadded' = Unadded
    BY <2>1 DEF Unadded, ReadTwice
  <2>3. reported + counter + Unadded <= sent + 0
    BY <2>2, Zenon DEF GenIInv, Account
  <2>4. /\ reported + counter \in 0 .. MaxSent
        /\ counter <= counter /\ counter <= reported + counter
        /\ (reported + counter) + counter + Unadded <= sent + counter
    BY <2>3, GeneratorNumbers
  <2>5. Gen!TypeOK'
    BY <2>1, <2>4 DEF GenIInv, Gen!TypeOK
  <2>6. Account'
    BY <2>1, <2>2, <2>4, Zenon DEF Account
  <2>. QED
    BY <2>5, <2>6 DEF GenIInv
<1>3. CASE Gen!report_stat_set
  <2>1. /\ timer = "set" /\ timer' = "check" /\ counter' = 0
        /\ UNCHANGED <<force_quit, generator, genTx, inRing, sent, count,
                       reported, timerOn, master, rx>>
    BY <1>3, Zenon DEF Gen!report_stat_set, Gen!sender, Gen!receive
  <2>2. ReadTwice' = 0 /\ Unadded' = Unadded
    BY <2>1 DEF Unadded, ReadTwice
  <2>3. reported + counter + Unadded <= sent + ReadTwice /\ ReadTwice <= counter
    BY Zenon DEF GenIInv, Account
  <2>4. reported + 0 + Unadded <= sent + 0 /\ 0 <= 0 /\ 0 <= reported
    BY <2>3, GeneratorNumbers
  <2>5. counter' \in 0 .. MaxSent
    BY <2>1, GeneratorNumbers
  <2>6. Gen!TypeOK'
    BY <2>1, <2>5 DEF GenIInv, Gen!TypeOK
  <2>7. Account'
    BY <2>1, <2>2, <2>4, Zenon DEF Account
  <2>. QED
    BY <2>6, <2>7 DEF GenIInv
<1>4. CASE Gen!report_stat_check
  BY <1>4
     DEF Gen!report_stat_check, GenIInv, Account, Gen!TypeOK, Unadded,
         ReadTwice, Gen!sender, Gen!receive
<1>5. QED  BY <1>1, <1>2, <1>3, <1>4 DEF Gen!report_stat

\* The master core, the signal and the port touch neither side of the account.
LEMMA OthersKeepIInv ==
  ASSUME GenIInv,
         Gen!lcore_main \/ Gen!signal_handler \/ Gen!Transmit \/ Gen!Receive
  PROVE  GenIInv'
<1>1. Account'
  BY AccountKept DEF Gen!lcore_main, Gen!lcore_main_check, Gen!lcore_main_drain,
     Gen!signal_handler, Gen!Transmit, Gen!Receive, Gen!sender, Gen!report
<1>2. ASSUME Gen!lcore_main_check PROVE Gen!TypeOK'
  BY <1>2 DEF Gen!lcore_main_check, Gen!sender, Gen!report, GenIInv, Gen!TypeOK
<1>3. ASSUME Gen!lcore_main_drain PROVE Gen!TypeOK'
  <2>1. PICK n \in 0 .. GenBurst : n <= rx /\ rx' = rx - n
    BY <1>3, Zenon DEF Gen!lcore_main_drain
  <2>2. rx \in 0 .. GenRxRing
    BY Zenon DEF GenIInv, Gen!TypeOK
  <2>3. rx' \in 0 .. GenRxRing
    BY <2>1, <2>2, GeneratorAssumption
  <2>. QED
    BY <1>3, <2>3 DEF Gen!lcore_main_drain, Gen!sender, Gen!report, GenIInv,
       Gen!TypeOK
<1>4. ASSUME Gen!signal_handler PROVE Gen!TypeOK'
  BY <1>4 DEF Gen!signal_handler, Gen!sender, Gen!report, Gen!receive,
     GenIInv, Gen!TypeOK
<1>5. ASSUME Gen!Transmit PROVE Gen!TypeOK'
  <2>1. inRing' \in 0 .. GenTxRing
    BY <1>5, GeneratorAssumption DEF Gen!Transmit, GenIInv, Gen!TypeOK
  <2>. QED
    BY <1>5, <2>1 DEF Gen!Transmit, Gen!sender, Gen!report, Gen!receive,
       GenIInv, Gen!TypeOK
<1>6. ASSUME Gen!Receive PROVE Gen!TypeOK'
  <2>1. rx' \in 0 .. GenRxRing
    BY <1>6, GeneratorAssumption DEF Gen!Receive, GenIInv, Gen!TypeOK
  <2>. QED
    BY <1>6, <2>1 DEF Gen!Receive, Gen!sender, Gen!report, GenIInv, Gen!TypeOK
<1>7. Gen!TypeOK'
  BY <1>2, <1>3, <1>4, <1>5, <1>6 DEF Gen!lcore_main, GenIInv
<1>. QED
  BY <1>1, <1>7 DEF GenIInv

\* Every step of the three cores
LEMMA NextGenIInv == ASSUME GenIInv, [Gen!Next]_(Gen!vars) PROVE GenIInv'
<1>1. CASE UNCHANGED Gen!vars
  BY <1>1
     DEF Gen!vars, Gen!sender, Gen!report, Gen!receive, GenIInv, Account,
         Gen!TypeOK, Unadded, ReadTwice
<1>2. CASE Gen!Next
  BY <1>2, SenderKeepsIInv, TimerKeepsIInv, OthersKeepIInv DEF Gen!Next
<1>3. QED  BY <1>1, <1>2

\* No counter of the generator leaves its range: what was read and what was
\* printed stay below the bound on the packets sent, however the cores of
\* generate_packets and report_stat interleave.
THEOREM GeneratorTypeCorrect == Gen!Spec => []Gen!TypeOK
<1>1. Gen!Init => GenIInv  BY InitGenIInv
<1>2. GenIInv /\ [Gen!Next]_(Gen!vars) => GenIInv'  BY NextGenIInv
<1>3. GenIInv => Gen!TypeOK  BY DEF GenIInv
<1>4. QED  BY <1>1, <1>2, <1>3, PTL DEF Gen!Spec

\* What report_stat printed and what waits in the counter never exceed the
\* packets that send_batch handed to the port, for every burst size and ring.
THEOREM ReportsOnlySent == Gen!Spec => []NeverOverReports
<1>1. Gen!Init => GenIInv  BY InitGenIInv
<1>2. GenIInv /\ [Gen!Next]_(Gen!vars) => GenIInv'  BY NextGenIInv
<1>3. ASSUME GenIInv PROVE NeverOverReports
  <2>1. /\ reported \in Nat /\ counter \in Nat /\ sent \in Nat
        /\ Unadded \in Nat /\ ReadTwice \in Nat
    BY <1>3, GeneratorNumbers
  <2>2. reported + counter + Unadded <= sent + ReadTwice
    BY <1>3 DEF GenIInv, Account
  <2>3. reported + counter - ReadTwice <= sent  BY <2>1, <2>2
  <2>4. QED  BY <2>3 DEF NeverOverReports, Gen!NeverOverReports, ReadTwice
<1>4. QED  BY <1>1, <1>2, <1>3, PTL DEF Gen!Spec
=============================================================================
