--------------------------- MODULE UdpEchoProofs ----------------------------
(***************************************************************************)
(* UdpEcho for any number of clients, size of batch, faults and clock.  A  *)
(* datagram is known by its body: who sent it and the how manieth it is.   *)
(* The server's batches change who carries a body, and not which ones are  *)
(* under way.                                                              *)
(***************************************************************************)
EXTENDS UdpEcho, FiniteSetTheorems, TLAPS

\* What a datagram carries
Body == [owner : Client, id : Nat, ts : Time]

\* The types of the variables
EchoTypeOK ==
  /\ now \in Time
  /\ client \in [Client -> {"idle", "run", "stopped"}]
  /\ toServer \subseteq [from : Client, body : Body]
  /\ toClient \subseteq [to : Client, body : Body]
  /\ slots \in Seq([remote : Client, body : Body])
  /\ nb_packets \in [Client -> Nat] /\ latency \in [Client -> Nat]
  /\ reported \in [Client -> Nat]
  /\ sends \in [Client -> Nat] /\ lost \in [Client -> Nat]
  /\ errors \in [Client -> Nat]

\* Requests and replies are their owner's, no body is in both, and the ids
\* are those of the requests sent.
Owned ==
  /\ \A m \in toServer : m.from = m.body.owner
  /\ \A m \in toClient : m.to = m.body.owner

\* No body is on both ways.
Distinct == \A m \in toServer, k \in toClient : m.body # k.body

\* The bodies under way, and those of one client
Bodies == {m.body : m \in toServer \cup toClient}
BodiesOf(c) == {b \in Bodies : b.owner = c}

\* No number its owner has not reached
Numbered == \A b \in Bodies : b.id <= sends[b.owner]

\* A client that has started has one request under way.
Started(c) == IF client[c] = "idle" THEN 0 ELSE 1

\* Lost ones are missing from its bodies, and failed reads add one.
OneBody ==
  \A c \in Client :
    /\ IsFiniteSet(BodiesOf(c))
    /\ Cardinality(BodiesOf(c)) + lost[c] = Started(c) + errors[c]

\* The inductive invariant
EInv == EchoTypeOK /\ Owned /\ Distinct /\ Numbered /\ OneBody

\* A datagram is its address and its body.
LEMMA SameDatagram ==
  /\ \A m, k \in [from : Client, body : Body] :
       m.from = k.from /\ m.body = k.body => m = k
  /\ \A m, k \in [to : Client, body : Body] :
       m.to = k.to /\ m.body = k.body => m = k
  OBVIOUS

\* What is under way is known by its bodies.
LEMMA CountBodies ==
  ASSUME EInv, NEW c \in Client
  PROVE  Cardinality(UnderWay(c)) = Cardinality(BodiesOf(c))
<1>. DEFINE Carrier(b) == CHOOSE m \in UnderWay(c) : m.body = b
            f == [b \in BodiesOf(c) |-> Carrier(b)]
<1>1. \A m \in UnderWay(c) : m.body \in BodiesOf(c)
  BY DEF UnderWay, BodiesOf, Bodies, EInv, Owned
<1>2. \A b \in BodiesOf(c) : \E m \in UnderWay(c) : m.body = b
  BY DEF UnderWay, BodiesOf, Bodies, EInv, Owned
<1>3. \A b \in BodiesOf(c) : Carrier(b) \in UnderWay(c) /\ Carrier(b).body = b
  BY <1>2
<1>. HIDE DEF Carrier
<1>4. ASSUME NEW m \in UnderWay(c), NEW k \in UnderWay(c), m.body = k.body
      PROVE  m = k
  <2>1. CASE m \in toServer /\ k \in toServer
    BY <1>4, <2>1, SameDatagram, Zenon DEF EInv, Owned, EchoTypeOK
  <2>2. CASE m \in toClient /\ k \in toClient
    BY <1>4, <2>2, SameDatagram, Zenon DEF EInv, Owned, EchoTypeOK
  <2>. QED
    BY <1>4, <2>1, <2>2 DEF UnderWay, EInv, Distinct
<1>5. f \in Bijection(BodiesOf(c), UnderWay(c))
  <2>1. f \in [BodiesOf(c) -> UnderWay(c)]
    BY <1>3
  <2>2. f \in Injection(BodiesOf(c), UnderWay(c))
    BY <1>3, <2>1 DEF Injection, IsInjective
  <2>3. f \in Surjection(BodiesOf(c), UnderWay(c))
    BY <1>1, <1>3, <1>4, <2>1 DEF Surjection
  <2>. QED
    BY <2>2, <2>3 DEF Bijection
<1>6. IsFiniteSet(BodiesOf(c)) /\ ExistsBijection(BodiesOf(c), UnderWay(c))
  BY <1>5 DEF ExistsBijection, EInv, OneBody
<1>. QED
  BY <1>6, FS_Bijection

\* Nothing is under way yet.
LEMMA InitEInv == Init => EInv
<1>. SUFFICES ASSUME Init PROVE EInv
  OBVIOUS
<1>1. EchoTypeOK
  BY ConstantsAssumption DEF Init, EchoTypeOK, Time, Zero
<1>2. Bodies = {}
  BY DEF Init, Bodies
<1>3. \A c \in Client : BodiesOf(c) = {}
  BY <1>2 DEF BodiesOf
<1>4. OneBody
  BY <1>3, FS_EmptySet DEF Init, OneBody, Zero, Started
<1>. QED
  BY <1>1, <1>2, <1>4 DEF Init, EInv, Owned, Distinct, Numbered

\* A new request of c is under way, and the replies K, if any, are not any more.
NewRequest(c, b, K) ==
  /\ b \in Body /\ b.owner = c /\ b \notin Bodies /\ b.ts = now'
  /\ Bodies' = (Bodies \ {m.body : m \in K}) \cup {b}
  /\ toServer' = toServer \cup {[from |-> c, body |-> b]}

\* send_to_addr adds a body that is new.
LEMMA SendAddsRequest ==
  ASSUME EInv, NEW c \in Client, send_to_addr(c),
         NEW K \in SUBSET toClient, toClient' = toClient \ K
  PROVE  /\ \E b : NewRequest(c, b, K)
         /\ Owned' /\ Distinct' /\ Numbered'
         /\ now' \in Time /\ sends' \in [Client -> Nat]
         /\ toServer' \subseteq [from : Client, body : Body]
         /\ toClient' \subseteq [to : Client, body : Body]
<1>1. /\ sends \in [Client -> Nat] /\ now' \in Time
      /\ toServer \subseteq [from : Client, body : Body]
      /\ toClient \subseteq [to : Client, body : Body]
  BY DEF EInv, EchoTypeOK, send_to_addr
<1>2. /\ sends' \in [Client -> Nat] /\ sends'[c] = sends[c] + 1
      /\ \A d \in Client : sends[d] <= sends'[d]
  BY <1>1 DEF send_to_addr, Bump
<1>3. PICK b : b = [owner |-> c, id |-> sends'[c], ts |-> now']
  BY Zenon
<1>4. b \in Body /\ b.owner = c /\ b.id = sends[c] + 1 /\ b.ts = now'
  BY <1>1, <1>2, <1>3 DEF Body
<1>5. toServer' = toServer \cup {[from |-> c, body |-> b]}
  BY <1>3 DEF send_to_addr
<1>6. Bodies \subseteq Body
  BY <1>1 DEF Bodies
<1>7. b \notin Bodies
  <2>1. b \in Bodies => b.id <= sends[c]
    BY <1>4 DEF EInv, Numbered
  <2>2. sends[c] \in Nat
    BY <1>1
  <2>. QED
    BY <1>4, <2>1, <2>2
<1>8. PICK q : /\ q = [from |-> c, body |-> b] /\ q.from = c /\ q.body = b
               /\ q \in [from : Client, body : Body]
  <2>1. b \in Body
    BY <1>4
  <2>2. [from |-> c, body |-> b] \in [from : Client, body : Body]
    BY <2>1
  <2>. QED
    BY <2>2, Zenon
<1>9. Bodies' = (Bodies \ {m.body : m \in K}) \cup {b}
  <2>1. Bodies' = {m.body : m \in toServer \cup (toClient \ K)} \cup {b}
    BY <1>5, <1>8 DEF Bodies
  <2>2. \A m \in toClient, k \in K : m.body = k.body => m = k
    BY <1>1, SameDatagram DEF EInv, Owned
  <2>3. {m.body : m \in toServer \cup (toClient \ K)}
          = Bodies \ {m.body : m \in K}
    BY <2>2 DEF Bodies, EInv, Distinct
  <2>. QED
    BY <2>1, <2>3
<1>10. Owned'
  BY <1>4, <1>5, <1>8 DEF EInv, Owned
<1>11. Distinct'
  BY <1>5, <1>7, <1>8 DEF EInv, Distinct, Bodies
<1>12. Numbered'
  <2>1. \A d \in Bodies : d.owner \in Client /\ d.id \in Nat
    BY <1>6 DEF Body
  <2>2. ASSUME NEW d \in Bodies PROVE d.id <= sends'[d.owner]
    <3>1. d.id <= sends[d.owner] /\ sends[d.owner] <= sends'[d.owner]
      BY <1>2, <2>1 DEF EInv, Numbered
    <3>. QED
      BY <1>1, <1>2, <2>1, <3>1
  <2>3. b.id <= sends'[b.owner]
    BY <1>1, <1>2, <1>4
  <2>. QED
    BY <1>9, <2>2, <2>3 DEF Numbered
<1>13. NewRequest(c, b, K)
  BY <1>4, <1>5, <1>7, <1>9 DEF NewRequest
<1>. QED
  BY <1>1, <1>2, <1>5, <1>8, <1>10, <1>11, <1>12, <1>13

\* The account of one client changes.
Balanced(c) ==
  /\ IsFiniteSet(BodiesOf(c))
  /\ Cardinality(BodiesOf(c)) + lost[c] = Started(c) + errors[c]

\* The account of client d did not change.
Untouched(d) == /\ BodiesOf(d)' = BodiesOf(d) /\ Started(d)' = Started(d)
                /\ lost'[d] = lost[d] /\ errors'[d] = errors[d]

\* It is enough to look at the client that moved.
LEMMA OnlyOneTouched ==
  ASSUME OneBody, NEW c \in Client, Balanced(c)',
         \A d \in Client \ {c} : Untouched(d)
  PROVE  OneBody'
<1>1. \A d \in Client \ {c} : Balanced(d)'
  BY DEF OneBody, Balanced, Untouched
<1>. QED
  BY <1>1 DEF OneBody, Balanced

\* The numbers of the account
LEMMA CountType ==
  ASSUME EInv, NEW c \in Client
  PROVE  /\ IsFiniteSet(BodiesOf(c)) /\ Cardinality(BodiesOf(c)) \in Nat
         /\ lost[c] \in Nat /\ errors[c] \in Nat /\ Started(c) \in Nat
         /\ Cardinality(BodiesOf(c)) + lost[c] = Started(c) + errors[c]
  BY FS_CardinalityType DEF EInv, OneBody, EchoTypeOK, Started

\* One body more
LEMMA NewRequestCounts ==
  ASSUME EInv, NEW c \in Client, NEW b, NewRequest(c, b, {})
  PROVE  /\ BodiesOf(c)' = BodiesOf(c) \cup {b}
         /\ IsFiniteSet(BodiesOf(c)')
         /\ Cardinality(BodiesOf(c)') = Cardinality(BodiesOf(c)) + 1
         /\ \A d \in Client \ {c} : BodiesOf(d)' = BodiesOf(d)
<1>1. /\ BodiesOf(c)' = BodiesOf(c) \cup {b} /\ b \notin BodiesOf(c)
      /\ \A d \in Client \ {c} : BodiesOf(d)' = BodiesOf(d)
  BY DEF NewRequest, BodiesOf
<1>. QED
  BY <1>1, CountType, FS_AddElement

\* One body less, and one more
LEMMA AnsweredCounts ==
  ASSUME EInv, NEW c \in Client, NEW b, NEW m \in toClient, m.to = c,
         NewRequest(c, b, {m})
  PROVE  /\ BodiesOf(c)' = (BodiesOf(c) \ {m.body}) \cup {b}
         /\ m.body \in BodiesOf(c)
         /\ IsFiniteSet(BodiesOf(c)')
         /\ Cardinality(BodiesOf(c)') = Cardinality(BodiesOf(c))
         /\ \A d \in Client \ {c} : BodiesOf(d)' = BodiesOf(d)
<1>1. m.body.owner = c /\ m.body \in Bodies
  BY DEF EInv, Owned, Bodies
<1>2. /\ BodiesOf(c)' = (BodiesOf(c) \ {m.body}) \cup {b}
      /\ b \notin BodiesOf(c) \ {m.body} /\ m.body \in BodiesOf(c)
      /\ \A d \in Client \ {c} : BodiesOf(d)' = BodiesOf(d)
  BY <1>1 DEF NewRequest, BodiesOf
<1>3. /\ IsFiniteSet(BodiesOf(c) \ {m.body})
      /\ Cardinality(BodiesOf(c) \ {m.body}) = Cardinality(BodiesOf(c)) - 1
  BY <1>2, CountType, FS_RemoveElement
<1>4. PICK R : R = BodiesOf(c) \ {m.body}
  BY Zenon
<1>5. IsFiniteSet(R \cup {b}) /\ Cardinality(R \cup {b}) = Cardinality(R) + 1
  BY <1>2, <1>3, <1>4, FS_AddElement, Zenon
<1>6. Cardinality(R) + 1 = Cardinality(BodiesOf(c))
  BY <1>3, <1>4, CountType
<1>. QED
  BY <1>2, <1>4, <1>5, <1>6, Zenon

\* What % and \div are
LEMMA DivMod ==
  ASSUME NEW a \in Nat, NEW n \in Nat \ {0}
  PROVE  /\ a = n * (a \div n) + (a % n) /\ a % n \in 0 .. n - 1
         /\ a \div n \in Nat
  OBVIOUS

\* What % returns
LEMMA ModType == ASSUME NEW a \in Int, NEW n \in Nat \ {0} PROVE a % n \in Nat
  OBVIOUS

\* measure keeps the statistics natural numbers.
LEMMA MeasureType ==
  ASSUME EInv, NEW c \in Client, NEW start \in Time, measure(c, start)
  PROVE  /\ nb_packets' \in [Client -> Nat] /\ latency' \in [Client -> Nat]
         /\ reported' \in [Client -> Nat]
<1>1. /\ nb_packets \in [Client -> Nat] /\ latency \in [Client -> Nat]
      /\ reported \in [Client -> Nat] /\ now \in Nat /\ start \in Nat
      /\ NS_PER_S \in Nat \ {0} /\ Width \in Nat \ {0}
  BY ConstantsAssumption DEF EInv, EchoTypeOK, Time
<1>2. CASE UNCHANGED stat
  BY <1>1, <1>2 DEF stat
<1>3. CASE ~ UNCHANGED stat
  <2>1. PICK d : d = timespec_diff(Timespec(now), Timespec(start))
    OBVIOUS
  <2>2. /\ latency' = [latency EXCEPT ![c] =
             (@ + d.result.tv_sec * NS_PER_S + d.result.tv_nsec) % Width]
        /\ nb_packets' = Bump(nb_packets, c) /\ reported' = reported
    BY <1>3, <2>1 DEF measure
  <2>3. d.result.tv_sec \in Int /\ d.result.tv_nsec \in Int
    BY <1>1, <2>1, DivMod DEF timespec_diff, Timespec
  <2>4. PICK z \in Int :
          z = latency[c] + d.result.tv_sec * NS_PER_S + d.result.tv_nsec
    BY <1>1, <2>3
  <2>5. latency' = [latency EXCEPT ![c] = z % Width] /\ z % Width \in Nat
    BY <1>1, <2>2, <2>4, ModType
  <2>. QED
    BY <1>1, <2>2, <2>5 DEF Bump
<1>. QED
  BY <1>2, <1>3

\* The first request of a client
LEMMA StartKeeps ==
  ASSUME EInv, NEW c \in Client, Start(c) PROVE EInv'
<1>1. /\ client[c] = "idle" /\ client' = [client EXCEPT ![c] = "run"]
      /\ send_to_addr(c) /\ toClient' = toClient
      /\ UNCHANGED <<serverVars, stat, lost, errors>>
  BY DEF Start
<1>2. /\ \E b : NewRequest(c, b, {})
      /\ Owned' /\ Distinct' /\ Numbered'
      /\ now' \in Time /\ sends' \in [Client -> Nat]
      /\ toServer' \subseteq [from : Client, body : Body]
      /\ toClient' \subseteq [to : Client, body : Body]
  <2>1. toClient' = toClient \ {} /\ {} \in SUBSET toClient
    BY <1>1
  <2>. QED
    BY <1>1, <2>1, SendAddsRequest
<1>3. EchoTypeOK'
  BY <1>1, <1>2, Zenon DEF EInv, EchoTypeOK, serverVars, stat
<1>4. /\ IsFiniteSet(BodiesOf(c)')
      /\ Cardinality(BodiesOf(c)') = Cardinality(BodiesOf(c)) + 1
      /\ \A d \in Client \ {c} : BodiesOf(d)' = BodiesOf(d)
  BY <1>2, NewRequestCounts
<1>5. /\ Started(c) = 0 /\ Started(c)' = 1
      /\ \A d \in Client \ {c} : Started(d)' = Started(d)
  BY <1>1 DEF Started, EInv, EchoTypeOK
<1>6. Balanced(c)'
  BY <1>1, <1>4, <1>5, CountType DEF Balanced
<1>7. OneBody'
  BY <1>1, <1>4, <1>5, <1>6, OnlyOneTouched DEF Untouched, EInv
<1>. QED
  BY <1>2, <1>3, <1>7 DEF EInv

\* A reply is read, and the next request is sent.
LEMMA OnReadKeeps ==
  ASSUME EInv, NEW c \in Client, on_read(c) PROVE EInv'
<1>1. PICK m \in toClient : /\ m.to = c /\ toClient' = toClient \ {m}
                            /\ measure(c, m.body.ts)
  BY DEF on_read
<1>2. send_to_addr(c) /\ UNCHANGED <<client, serverVars, lost, errors>>
  BY DEF on_read
<1>3. /\ \E b : NewRequest(c, b, {m})
      /\ Owned' /\ Distinct' /\ Numbered'
      /\ now' \in Time /\ sends' \in [Client -> Nat]
      /\ toServer' \subseteq [from : Client, body : Body]
      /\ toClient' \subseteq [to : Client, body : Body]
  <2>1. {m} \in SUBSET toClient
    OBVIOUS
  <2>. QED
    BY <1>1, <1>2, <2>1, SendAddsRequest
<1>4. /\ nb_packets' \in [Client -> Nat] /\ latency' \in [Client -> Nat]
      /\ reported' \in [Client -> Nat]
  <2>1. m.body.ts \in Time
    BY DEF EInv, EchoTypeOK, Body
  <2>. QED
    BY <1>1, <2>1, MeasureType
<1>5. EchoTypeOK'
  BY <1>2, <1>3, <1>4, Zenon DEF EInv, EchoTypeOK, serverVars
<1>6. /\ IsFiniteSet(BodiesOf(c)')
      /\ Cardinality(BodiesOf(c)') = Cardinality(BodiesOf(c))
      /\ \A d \in Client \ {c} : BodiesOf(d)' = BodiesOf(d)
  BY <1>1, <1>3, AnsweredCounts
<1>7. \A d \in Client : Started(d)' = Started(d)
  BY <1>2 DEF Started
<1>8. Balanced(c)'
  BY <1>2, <1>6, <1>7, CountType DEF Balanced
<1>9. OneBody'
  BY <1>2, <1>6, <1>7, <1>8, OnlyOneTouched DEF Untouched, EInv
<1>. QED
  BY <1>3, <1>5, <1>9 DEF EInv

\* The reading fails, and the next request is sent all the same.
LEMMA OnReadErrorKeeps ==
  ASSUME EInv, NEW c \in Client, on_read_error(c) PROVE EInv'
<1>1. /\ send_to_addr(c) /\ errors' = Bump(errors, c)
      /\ UNCHANGED <<client, toClient, serverVars, lost>>
  BY DEF on_read_error
<1>2. /\ \E b : NewRequest(c, b, {})
      /\ Owned' /\ Distinct' /\ Numbered'
      /\ now' \in Time /\ sends' \in [Client -> Nat]
      /\ toServer' \subseteq [from : Client, body : Body]
      /\ toClient' \subseteq [to : Client, body : Body]
  <2>1. toClient' = toClient \ {} /\ {} \in SUBSET toClient
    BY <1>1
  <2>. QED
    BY <1>1, <2>1, SendAddsRequest, Zenon
<1>3. /\ nb_packets' \in [Client -> Nat] /\ latency' \in [Client -> Nat]
      /\ reported' \in [Client -> Nat]
  BY MeasureType DEF on_read_error
<1>4. /\ errors' \in [Client -> Nat] /\ errors'[c] = errors[c] + 1
      /\ \A d \in Client \ {c} : errors'[d] = errors[d]
  BY <1>1 DEF Bump, EInv, EchoTypeOK
<1>5. EchoTypeOK'
  BY <1>1, <1>2, <1>3, <1>4 DEF EInv, EchoTypeOK, serverVars
<1>6. /\ IsFiniteSet(BodiesOf(c)')
      /\ Cardinality(BodiesOf(c)') = Cardinality(BodiesOf(c)) + 1
      /\ \A d \in Client \ {c} : BodiesOf(d)' = BodiesOf(d)
  BY <1>2, NewRequestCounts
<1>7. \A d \in Client : Started(d)' = Started(d)
  BY <1>1 DEF Started
<1>8. Balanced(c)'
  <2>1. /\ Cardinality(BodiesOf(c)) \in Nat /\ lost[c] \in Nat
        /\ errors[c] \in Nat /\ Started(c) \in Nat
        /\ Cardinality(BodiesOf(c)) + lost[c] = Started(c) + errors[c]
    BY CountType
  <2>2. Cardinality(BodiesOf(c)') + lost'[c] = Started(c)' + errors'[c]
    BY <1>1, <1>4, <1>6, <1>7, <2>1
  <2>. QED
    BY <1>6, <2>2 DEF Balanced
<1>9. OneBody'
  BY <1>1, <1>4, <1>6, <1>7, <1>8, OnlyOneTouched DEF Untouched, EInv
<1>. QED
  BY <1>2, <1>5, <1>9 DEF EInv

\* One datagram of c is gone.
LEMMA LoseKeeps ==
  ASSUME EInv, NEW c \in Client, Lose(c)
  PROVE  EInv' /\ Bodies' \subseteq Bodies
<1>1. /\ lost' = Bump(lost, c)
      /\ UNCHANGED <<now, client, serverVars, stat, sends, errors>>
  BY DEF Lose
<1>2. /\ lost' \in [Client -> Nat] /\ lost'[c] = lost[c] + 1
      /\ \A d \in Client \ {c} : lost'[d] = lost[d]
  BY <1>1 DEF Bump, EInv, EchoTypeOK
<1>3. toServer' \subseteq toServer /\ toClient' \subseteq toClient
  BY DEF Lose
<1>4. EchoTypeOK'
  BY <1>1, <1>2, <1>3, Zenon DEF EInv, EchoTypeOK, serverVars, stat
<1>5. PICK b \in Bodies : b.owner = c /\ Bodies' = Bodies \ {b}
  <2>1. CASE \E m \in toServer : /\ m.from = c /\ toServer' = toServer \ {m}
                                 /\ UNCHANGED toClient
    <3>1. PICK m \in toServer : /\ m.from = c /\ toServer' = toServer \ {m}
                                /\ UNCHANGED toClient
      BY <2>1
    <3>2. \A k \in toServer : k.body = m.body => k = m
      BY SameDatagram, Zenon DEF EInv, Owned, EchoTypeOK
    <3>3. m.body \in Bodies /\ m.body.owner = c /\ Bodies' = Bodies \ {m.body}
      BY <3>1, <3>2 DEF Bodies, EInv, Owned, Distinct
    <3>. QED
      BY <3>3
  <2>2. CASE \E m \in toClient : /\ m.to = c /\ toClient' = toClient \ {m}
                                 /\ UNCHANGED toServer
    <3>1. PICK m \in toClient : /\ m.to = c /\ toClient' = toClient \ {m}
                                /\ UNCHANGED toServer
      BY <2>2
    <3>2. \A k \in toClient : k.body = m.body => k = m
      BY SameDatagram, Zenon DEF EInv, Owned, EchoTypeOK
    <3>3. m.body \in Bodies /\ m.body.owner = c /\ Bodies' = Bodies \ {m.body}
      BY <3>1, <3>2 DEF Bodies, EInv, Owned, Distinct
    <3>. QED
      BY <3>3
  <2>. QED
    BY <2>1, <2>2 DEF Lose
<1>6. Owned' /\ Distinct' /\ Numbered'
  BY <1>1, <1>3, <1>5 DEF EInv, Owned, Distinct, Numbered
<1>7. /\ BodiesOf(c)' = BodiesOf(c) \ {b} /\ b \in BodiesOf(c)
      /\ \A d \in Client \ {c} : BodiesOf(d)' = BodiesOf(d)
  BY <1>5 DEF BodiesOf
<1>8. /\ IsFiniteSet(BodiesOf(c)')
      /\ Cardinality(BodiesOf(c)') = Cardinality(BodiesOf(c)) - 1
  BY <1>7, CountType, FS_RemoveElement
<1>9. \A d \in Client : Started(d)' = Started(d)
  BY <1>1 DEF Started
<1>10. Balanced(c)'
  <2>1. /\ Cardinality(BodiesOf(c)) \in Nat /\ lost[c] \in Nat
        /\ errors[c] \in Nat /\ Started(c) \in Nat
        /\ Cardinality(BodiesOf(c)) + lost[c] = Started(c) + errors[c]
    BY CountType
  <2>2. Cardinality(BodiesOf(c)') + lost'[c] = Started(c)' + errors'[c]
    BY <1>1, <1>2, <1>8, <1>9, <2>1
  <2>. QED
    BY <1>8, <2>2 DEF Balanced
<1>11. OneBody'
  BY <1>1, <1>2, <1>7, <1>9, <1>10, OnlyOneTouched DEF Untouched, EInv
<1>. QED
  BY <1>4, <1>5, <1>6, <1>11 DEF EInv

\* The first n slots of the server are the datagrams it has just read.
LEMMA Filled ==
  ASSUME NEW S, NEW old \in Seq(S), NEW n \in Nat, NEW new \in [1 .. n -> S]
  PROVE  /\ new \o SubSeq(old, n + 1, Len(old)) \in Seq(S)
         /\ \A i \in 1 .. n : (new \o SubSeq(old, n + 1, Len(old)))[i] = new[i]
<1>1. new \in Seq(S) /\ Len(new) = n
  OBVIOUS
<1>2. SubSeq(old, n + 1, Len(old)) \in Seq(S)
  OBVIOUS
<1>. QED
  BY <1>1, <1>2

\* A batch of requests becomes as many replies, with the same bodies, to those
\* who sent them; what the slots held before is not sent.
LEMMA ServerAnswers ==
  ASSUME EInv, server_on_read
  PROVE  \E R \in SUBSET toServer :
           /\ toServer' = toServer \ R
           /\ toClient' = toClient \cup {[to |-> m.from, body |-> m.body] : m \in R}
           /\ slots' \in Seq([remote : Client, body : Body])
<1>. DEFINE Slot == [remote : Client, body : Body]
            Fill(batch, n) == [i \in 1 .. n |-> [remote |-> batch[i].from,
                                                body |-> batch[i].body]]
<1>0. PICK n \in 1 .. VLEN : \E batch \in Injection(1 .. n, toServer) :
        /\ slots' = Fill(batch, n) \o SubSeq(slots, n + 1, Len(slots))
        /\ toServer' = toServer \ Range(batch)
        /\ respond(slots', n)
  BY Zenon DEF server_on_read
<1>1. PICK batch \in Injection(1 .. n, toServer) :
        /\ slots' = Fill(batch, n) \o SubSeq(slots, n + 1, Len(slots))
        /\ toServer' = toServer \ Range(batch)
        /\ respond(slots', n)
  BY <1>0, Zenon
<1>2. n \in Nat /\ batch \in [1 .. n -> toServer]
  BY <1>1 DEF Injection
<1>3. slots \in Seq(Slot) /\ toServer \subseteq [from : Client, body : Body]
  BY DEF EInv, EchoTypeOK
<1>4. \A i \in 1 .. n : /\ Fill(batch, n)[i].remote = batch[i].from
                        /\ Fill(batch, n)[i].body = batch[i].body
                        /\ Fill(batch, n)[i] \in Slot
  BY <1>2, <1>3
<1>5. PICK new \in [1 .. n -> Slot] :
        /\ new = Fill(batch, n)
        /\ \A i \in 1 .. n : /\ new[i].remote = batch[i].from
                              /\ new[i].body = batch[i].body
  BY <1>4, Zenon
<1>. HIDE DEF Slot, Fill
<1>6. slots' \in Seq(Slot) /\ \A i \in 1 .. n : slots'[i] = new[i]
  <2>1. slots' = new \o SubSeq(slots, n + 1, Len(slots))
    BY <1>1, <1>5, Zenon
  <2>2. /\ new \o SubSeq(slots, n + 1, Len(slots)) \in Seq(Slot)
        /\ \A i \in 1 .. n :
             (new \o SubSeq(slots, n + 1, Len(slots)))[i] = new[i]
    BY <1>2, <1>3, Filled
  <2>. QED
    BY <2>1, <2>2, Zenon
<1>7. \A i \in 1 .. n :
        Reply(slots'[i]) = [to |-> batch[i].from, body |-> batch[i].body]
  BY <1>5, <1>6 DEF Reply
<1>8. {Reply(slots'[i]) : i \in 1 .. n}
        = {[to |-> m.from, body |-> m.body] : m \in Range(batch)}
  BY <1>2, <1>7, Zenon DEF Range
<1>9. Range(batch) \in SUBSET toServer
  BY <1>2 DEF Range
<1>. QED
  BY <1>1, <1>6, <1>8, <1>9, Zenon DEF respond, Slot

\* The server answers a batch.
LEMMA ServerOnReadKeeps ==
  ASSUME EInv, server_on_read PROVE EInv' /\ Bodies' = Bodies
<1>1. PICK R \in SUBSET toServer :
        /\ toServer' = toServer \ R
        /\ toClient' = toClient \cup {[to |-> m.from, body |-> m.body] : m \in R}
        /\ slots' \in Seq([remote : Client, body : Body])
  BY ServerAnswers, Zenon
<1>2. UNCHANGED <<now, client, server, stat, counts>>
  BY DEF server_on_read
<1>3. /\ toServer \subseteq [from : Client, body : Body]
      /\ toClient \subseteq [to : Client, body : Body]
  BY DEF EInv, EchoTypeOK
<1>4. \A k \in toClient' : \/ k \in toClient
                           \/ \E m \in R : /\ k = [to |-> m.from, body |-> m.body]
                                           /\ k.to = m.from /\ k.body = m.body
  BY <1>1
<1>5. ASSUME NEW m \in R PROVE \E k \in toClient' : k.body = m.body
  <2>1. [to |-> m.from, body |-> m.body].body = m.body
    OBVIOUS
  <2>2. [to |-> m.from, body |-> m.body] \in toClient'
    BY <1>1
  <2>. QED
    BY <2>1, <2>2, Zenon
<1>6. toClient' \subseteq [to : Client, body : Body]
  BY <1>3, <1>4
<1>7. EchoTypeOK'
  BY <1>1, <1>2, <1>3, <1>6 DEF EInv, EchoTypeOK, stat, counts
<1>8. Owned'
  BY <1>1, <1>4 DEF EInv, Owned
<1>9. Bodies' = Bodies
  BY <1>1, <1>4, <1>5 DEF Bodies
<1>10. Distinct'
  <2>1. \A m \in toServer, k \in R : m.body = k.body => m = k
    BY <1>3, SameDatagram DEF EInv, Owned
  <2>. QED
    BY <1>1, <1>4, <2>1 DEF EInv, Distinct
<1>11. Numbered' /\ OneBody'
  BY <1>2, <1>9 DEF EInv, Numbered, OneBody, BodiesOf, Started, counts
<1>. QED
  BY <1>7, <1>8, <1>9, <1>10, <1>11 DEF EInv

\* The steps that send and receive nothing
LEMMA OthersKeepEInv ==
  ASSUME EInv,
         \/ \E c \in Client : client_on_perf(c) \/ handle_signal(c)
         \/ server_read_error \/ server_on_perf \/ Tick \/ UNCHANGED vars
  PROVE  EInv'
<1>1. UNCHANGED <<toServer, toClient, slots, counts>>
  BY DEF client_on_perf, handle_signal, server_read_error, server_on_perf,
         Tick, vars, serverVars
<1>2. /\ client' \in [Client -> {"idle", "run", "stopped"}]
      /\ \A d \in Client : Started(d)' = Started(d)
  BY Zenon DEF client_on_perf, handle_signal, server_read_error, server_on_perf,
         Tick, vars, EInv, EchoTypeOK, Started
<1>3. /\ now' \in Time
      /\ nb_packets' \in [Client -> Nat] /\ latency' \in [Client -> Nat]
      /\ reported' \in [Client -> Nat]
  <2>1. /\ now \in Time
        /\ nb_packets \in [Client -> Nat] /\ latency \in [Client -> Nat]
        /\ reported \in [Client -> Nat]
    BY DEF EInv, EchoTypeOK
  <2>2. ASSUME NEW c \in Client, client_on_perf(c)
        PROVE  /\ now' = now
               /\ nb_packets' \in [Client -> Nat] /\ latency' \in [Client -> Nat]
               /\ reported' \in [Client -> Nat]
    BY <2>1, <2>2 DEF client_on_perf
  <2>3. CASE ~ \E c \in Client : client_on_perf(c)
    BY <2>1, <2>3 DEF handle_signal, server_read_error, server_on_perf, Tick,
       vars, stat
  <2>. QED
    BY <2>1, <2>2, <2>3
<1>4. EchoTypeOK'
  BY <1>1, <1>2, <1>3 DEF EInv, EchoTypeOK, counts
<1>. QED
  BY <1>1, <1>2, <1>4, Zenon
     DEF EInv, Owned, Distinct, Numbered, OneBody, Bodies, BodiesOf, counts

\* Every step keeps the invariant.
LEMMA NextEInv == EInv /\ [Next]_vars => EInv'
<1>. SUFFICES ASSUME EInv, [Next]_vars PROVE EInv'
  OBVIOUS
<1>. QED
  BY StartKeeps, OnReadKeeps, OnReadErrorKeeps, LoseKeeps, ServerOnReadKeeps,
     OthersKeepEInv DEF Next

\* It holds in every state.
LEMMA EchoInvariance == Spec => []EInv
  BY InitEInv, NextEInv, PTL DEF Spec

\* The server of msg_hdr answers each datagram of a batch to the client that
\* sent it, for any VLEN and whatever earlier batches left in its buffers.
THEOREM RepliesAlwaysToSender == Spec => []ReplyToSender
<1>1. EInv => ReplyToSender
  BY DEF EInv, Owned, ReplyToSender
<1>. QED
  BY <1>1, EchoInvariance, PTL

\* For any number of clients, requests, losses and failed reads: a client that
\* has started has one datagram under way, less the lost ones and plus one for
\* each time on_read went on after a failed recvfrom.
THEOREM AlwaysOneUnderWay == Spec => []OneUnderWay
<1>1. ASSUME EInv PROVE OneUnderWay
  <2>1. ASSUME NEW c \in Client, client[c] # "idle"
        PROVE  Cardinality(UnderWay(c)) + lost[c] = 1 + errors[c]
    <3>1. Started(c) = 1
      BY <2>1 DEF Started
    <3>2. Cardinality(UnderWay(c)) = Cardinality(BodiesOf(c))
      BY <1>1, CountBodies
    <3>. QED
      BY <1>1, <3>1, <3>2 DEF EInv, OneBody
  <2>. QED
    BY <2>1 DEF OneUnderWay
<1>. QED
  BY <1>1, EchoInvariance, PTL
-----------------------------------------------------------------------------
(***************************************************************************)
(* Latencies, on a clock that is not set back: the requests under way were *)
(* sent by now, and the round trips that were summed up were over when the *)
(* one under way was sent.                                                 *)
(***************************************************************************)
Fits ==
  /\ \A b \in Bodies : b.ts <= now
  /\ \A c \in Client :
       /\ client[c] = "idle" => reported[c] = 0 /\ latency[c] = 0
       /\ errors[c] = 0 =>
            \A b \in BodiesOf(c) : reported[c] + latency[c] <= b.ts

\* Quotients and remainders of two times, the first not after the second.
LEMMA Borrow ==
  ASSUME NEW n \in Nat \ {0}, NEW p \in Nat, NEW q \in Nat,
         NEW x \in 0 .. n - 1, NEW y \in 0 .. n - 1, n * p + x <= n * q + y
  PROVE  /\ p <= q
         /\ (q - p) * n + (y - x) = (n * q + y) - (n * p + x)
         /\ (q - p - 1) * n + (n + y - x) = (n * q + y) - (n * p + x)
<1>1. p <= q
  OBVIOUS
<1>2. (q - p) * n + (y - x) = (n * q + y) - (n * p + x)
  OBVIOUS
<1>3. (q - p - 1) * n + (n + y - x) = (n * q + y) - (n * p + x)
  OBVIOUS
<1>. QED
  BY <1>1, <1>2, <1>3

\* timespec_diff of two times
Span(end, start) == timespec_diff(Timespec(end), Timespec(start))

\* timespec_diff of two times in order is not negative, and is their difference
\* in seconds and nanoseconds.
LEMMA DiffIsRight ==
  ASSUME NEW start \in Time, NEW end \in Time, start <= end
  PROVE  /\ ~ Span(end, start).negative
         /\ Span(end, start).result.tv_sec \in Int
         /\ Span(end, start).result.tv_nsec \in Int
         /\ Span(end, start).result.tv_sec * NS_PER_S
              + Span(end, start).result.tv_nsec = end - start
<1>. DEFINE n == NS_PER_S
            p == start \div n
            q == end \div n
            x == start % n
            y == end % n
            d == Span(end, start)
<1>1. n \in Nat \ {0} /\ start \in Nat /\ end \in Nat
  BY ConstantsAssumption DEF Time
<1>2. /\ start = n * p + x /\ end = n * q + y
      /\ p \in Nat /\ q \in Nat /\ x \in 0 .. n - 1 /\ y \in 0 .. n - 1
  BY <1>1, DivMod, Zenon
<1>3. /\ d.negative = (q < p)
      /\ d.result.tv_sec = IF y < x THEN q - p - 1 ELSE q - p
      /\ d.result.tv_nsec = IF y < x THEN n + y - x ELSE y - x
  BY DEF Span, timespec_diff, Timespec
<1>. HIDE DEF n, p, q, x, y, d
<1>4. /\ p <= q
      /\ (q - p) * n + (y - x) = end - start
      /\ (q - p - 1) * n + (n + y - x) = end - start
  BY <1>1, <1>2, Borrow
<1>5. ~ (q < p)
  BY <1>2, <1>4
<1>6. d.result.tv_sec * n + d.result.tv_nsec = end - start
  BY <1>1, <1>2, <1>3, <1>4
<1>7. d.result.tv_sec \in Int /\ d.result.tv_nsec \in Int
  BY <1>1, <1>2, <1>3
<1>. QED
  BY <1>3, <1>5, <1>6, <1>7, Zenon DEF d, n

\* What on_read adds for a reply on a clock that was not set back.
LEMMA MeasureAdds ==
  ASSUME EInv, NEW c \in Client, NEW start \in Time, start <= now,
         measure(c, start), latency[c] <= start
  PROVE  /\ latency'[c] = latency[c] + (now - start)
         /\ \A e \in Client \ {c} : latency'[e] = latency[e]
         /\ reported' = reported
<1>. DEFINE d == Span(now, start)
<1>1. /\ latency \in [Client -> Nat] /\ now \in Time /\ now \in Nat
      /\ start \in Nat /\ Width \in Nat \ {0} /\ now < Width
      /\ NS_PER_S \in Nat
  BY ConstantsAssumption DEF EInv, EchoTypeOK, Time
<1>2. /\ ~ d.negative /\ d.result.tv_sec \in Int /\ d.result.tv_nsec \in Int
      /\ d.result.tv_sec * NS_PER_S + d.result.tv_nsec = now - start
  BY <1>1, DiffIsRight
<1>3. /\ latency' = [latency EXCEPT ![c] =
           (@ + d.result.tv_sec * NS_PER_S + d.result.tv_nsec) % Width]
      /\ reported' = reported
  BY <1>2 DEF measure, Span
<1>. HIDE DEF d
<1>4. PICK s \in Int, u \in Int, l \in Nat :
        s = d.result.tv_sec * NS_PER_S /\ u = d.result.tv_nsec /\ l = latency[c]
  BY <1>1, <1>2
<1>5. l + s + u = l + (now - start) /\ l + (now - start) \in 0 .. Width - 1
  BY <1>1, <1>2, <1>4
<1>6. (l + s + u) % Width = l + (now - start)
  BY <1>1, <1>5
<1>7. latency' = [latency EXCEPT ![c] = l + (now - start)]
  BY <1>1, <1>3, <1>4, <1>6, Zenon
<1>. QED
  BY <1>1, <1>3, <1>4, <1>7

\* No time has passed.
LEMMA InitFits == Init => Fits
  BY DEF Init, Fits, Bodies, BodiesOf, Zero

\* The types that the arithmetic needs
LEMMA BodyTypes ==
  ASSUME EInv
  PROVE  /\ Bodies \subseteq Body /\ now \in Nat
         /\ \A b \in Bodies : b.ts \in Time /\ b.ts \in Nat
         /\ \A c \in Client : /\ reported[c] \in Nat /\ latency[c] \in Nat
                               /\ errors[c] \in Nat
<1>1. Bodies \subseteq Body
  BY DEF Bodies, EInv, EchoTypeOK
<1>. QED
  BY <1>1, ConstantsAssumption DEF Body, EInv, EchoTypeOK, Time

\* Without a failed read there is one body under way, or none.
LEMMA AtMostOne ==
  ASSUME EInv, NEW c \in Client, errors[c] = 0,
         NEW b \in BodiesOf(c), NEW e \in BodiesOf(c)
  PROVE  b = e
<1>1. Cardinality(BodiesOf(c)) \in Nat /\ Cardinality(BodiesOf(c)) <= 1
  <2>1. Started(c) <= 1
    BY DEF Started
  <2>. QED
    BY <2>1, CountType
<1>2. Cardinality(BodiesOf(c)) # 0
  BY CountType, FS_EmptySet
<1>3. IsFiniteSet(BodiesOf(c)) /\ Cardinality(BodiesOf(c)) = 1
  BY <1>1, <1>2, CountType
<1>4. \E x : BodiesOf(c) = {x}
  BY <1>3, FS_Singleton, Zenon
<1>. QED
  BY <1>4

\* A client that has not started has nothing under way.
LEMMA IdleHasNone ==
  ASSUME EInv, NEW c \in Client, client[c] = "idle", errors[c] = 0
  PROVE  BodiesOf(c) = {}
<1>1. Started(c) = 0
  BY DEF Started
<1>2. Cardinality(BodiesOf(c)) = 0
  BY <1>1, CountType
<1>. QED
  BY <1>2, CountType, FS_EmptySet

\* measure changes the statistics of one client only.
LEMMA MeasureIsOwn ==
  ASSUME NEW c \in Client, NEW start, measure(c, start),
         latency \in [Client -> Nat]
  PROVE  /\ \A d \in Client \ {c} : latency'[d] = latency[d]
         /\ reported' = reported
<1>1. CASE UNCHANGED stat
  BY <1>1 DEF stat
<1>2. CASE ~ UNCHANGED stat
  <2>1. PICK z : latency' = [latency EXCEPT ![c] = z] /\ reported' = reported
    BY <1>2 DEF measure
  <2>. QED
    BY <2>1
<1>. QED
  BY <1>1, <1>2

\* For provers that do no arithmetic
LEMMA NotAfterItself == \A x \in Nat : x <= x
  OBVIOUS

\* The order of times is transitive.
LEMMA NotAfter ==
  ASSUME NEW x \in Nat, NEW y \in Nat, NEW z \in Nat, x <= y, y <= z
  PROVE  x <= z
  OBVIOUS

\* What was reported or measured before a request was sent, and its own time
LEMMA TimesAddUp ==
  ASSUME NEW x \in Nat, NEW y \in Nat, NEW ts \in Nat, NEW n \in Nat,
         NEW z \in Nat, x + y <= ts, ts <= n, n <= z
  PROVE  x + (y + (n - ts)) <= z
  OBVIOUS

\* A step that leaves a client's statistics alone and adds no datagram.
LEMMA FewerFit ==
  ASSUME EInv, Fits, Bodies' \subseteq Bodies, now' \in Nat, now <= now',
         client' = client, errors' = errors, UNCHANGED stat
  PROVE  Fits'
<1>1. \A c \in Client : BodiesOf(c)' \subseteq BodiesOf(c)
  BY DEF BodiesOf
<1>2. ASSUME NEW b \in Bodies' PROVE b.ts <= now'
  <2>1. b.ts \in Nat /\ b.ts <= now /\ now \in Nat
    BY BodyTypes, Zenon DEF Fits
  <2>. QED
    BY <2>1, NotAfter
<1>. QED
  BY <1>1, <1>2 DEF Fits, stat

\* The clock does not go back while a request is sent.
LEMMA SendTime ==
  ASSUME EInv, NEW c, send_to_addr(c) PROVE now' \in Nat /\ now <= now'
<1>1. now \in Nat
  BY BodyTypes, Zenon
<1>2. now' = now \/ now' = now + 1
  BY Zenon DEF send_to_addr
<1>. QED
  BY <1>1, <1>2

\* A request of c is sent: the others' accounts stay as they are.
LEMMA SendFits ==
  ASSUME EInv, Fits, NEW c \in Client, NEW b, NEW K, NewRequest(c, b, K),
         send_to_addr(c),
         \A d \in Client \ {c} :
           /\ BodiesOf(d)' = BodiesOf(d) /\ client'[d] = client[d]
           /\ latency'[d] = latency[d] /\ reported'[d] = reported[d]
           /\ errors'[d] = errors[d],
         client'[c] # "idle",
         errors'[c] = 0 =>
           \A e \in BodiesOf(c)' : reported'[c] + latency'[c] <= e.ts
  PROVE  Fits'
<1>1. now' \in Nat /\ now <= now' /\ b.ts = now'
  BY SendTime DEF NewRequest
<1>2. \A e \in Bodies : e.ts <= now'
  <2>. SUFFICES ASSUME NEW e \in Bodies PROVE e.ts <= now'
    OBVIOUS
  <2>1. e.ts \in Nat /\ e.ts <= now /\ now \in Nat
    BY BodyTypes, Zenon DEF Fits
  <2>. QED
    BY <1>1, <2>1, NotAfter
<1>3. \A e \in Bodies' : e.ts <= now'
  <2>1. \A e \in Bodies' : e \in Bodies \/ e = b
    BY Zenon DEF NewRequest
  <2>2. b.ts <= now'
    BY <1>1, NotAfterItself, Zenon
  <2>. QED
    BY <1>2, <2>1, <2>2, Zenon
<1>. QED
  BY <1>3 DEF Fits

\* The first request of a client carries the present time.
LEMMA StartFits ==
  ASSUME EInv, Fits, NEW c \in Client, Start(c) PROVE Fits'
<1>1. /\ client[c] = "idle" /\ client' = [client EXCEPT ![c] = "run"]
      /\ send_to_addr(c) /\ toClient' = toClient \ {}
      /\ UNCHANGED <<stat, errors>>
  BY DEF Start
<1>2. PICK b : NewRequest(c, b, {})
  BY <1>1, SendAddsRequest, Zenon
<1>3. /\ BodiesOf(c)' = BodiesOf(c) \cup {b}
      /\ \A d \in Client \ {c} : BodiesOf(d)' = BodiesOf(d)
  BY <1>2, NewRequestCounts
<1>4. /\ client'[c] # "idle"
      /\ \A d \in Client \ {c} : client'[d] = client[d]
  BY <1>1 DEF EInv, EchoTypeOK
<1>5. ASSUME errors'[c] = 0, NEW e \in BodiesOf(c)'
      PROVE  reported'[c] + latency'[c] <= e.ts
  <2>1. e = b
    BY <1>1, <1>3, <1>5, IdleHasNone
  <2>2. reported'[c] = 0 /\ latency'[c] = 0
    BY <1>1 DEF Fits, stat
  <2>3. b.ts \in Nat
    BY <1>1, <1>2, SendTime, Zenon DEF NewRequest
  <2>. QED
    BY <2>1, <2>2, <2>3
<1>. QED
  BY <1>1, <1>2, <1>3, <1>4, <1>5, SendFits DEF stat

\* A latency is the time since the request, and the next one begins now.
LEMMA OnReadFits ==
  ASSUME EInv, Fits, NEW c \in Client, on_read(c) PROVE Fits'
<1>1. PICK m \in toClient : /\ m.to = c /\ toClient' = toClient \ {m}
                            /\ measure(c, m.body.ts)
  BY DEF on_read
<1>2. /\ send_to_addr(c) /\ UNCHANGED <<client, errors>> /\ client[c] = "run"
  BY DEF on_read
<1>3. PICK b : NewRequest(c, b, {m})
  BY <1>1, <1>2, SendAddsRequest
<1>4. /\ BodiesOf(c)' = (BodiesOf(c) \ {m.body}) \cup {b}
      /\ m.body \in BodiesOf(c)
      /\ \A d \in Client \ {c} : BodiesOf(d)' = BodiesOf(d)
  BY <1>1, <1>3, AnsweredCounts
<1>5. m.body.ts \in Time /\ m.body.ts \in Nat /\ m.body.ts <= now
  BY <1>4, BodyTypes DEF BodiesOf, Fits
<1>6. /\ \A d \in Client \ {c} : latency'[d] = latency[d]
      /\ reported' = reported
  BY <1>1, MeasureIsOwn DEF EInv, EchoTypeOK
<1>7. ASSUME errors'[c] = 0, NEW e \in BodiesOf(c)'
      PROVE  reported'[c] + latency'[c] <= e.ts
  <2>1. e = b
    BY <1>2, <1>4, <1>7, AtMostOne
  <2>2. reported[c] + latency[c] <= m.body.ts
    BY <1>2, <1>4, <1>7 DEF Fits
  <2>3. reported[c] \in Nat /\ latency[c] \in Nat /\ now \in Nat
    BY BodyTypes
  <2>4. latency[c] <= m.body.ts
    BY <1>5, <2>2, <2>3
  <2>5. latency'[c] = latency[c] + (now - m.body.ts)
    BY <1>1, <1>5, <2>4, MeasureAdds
  <2>6. b.ts = now' /\ now' \in Nat /\ now <= now'
    BY <1>2, <1>3, SendTime DEF NewRequest
  <2>. QED
    <3>1. reported[c] + (latency[c] + (now - m.body.ts)) <= now'
      BY <1>5, <2>2, <2>3, <2>6, TimesAddUp
    <3>. QED
      BY <1>6, <2>1, <2>5, <2>6, <3>1, Zenon
<1>. QED
  BY <1>2, <1>3, <1>4, <1>6, <1>7, SendFits

\* A failed read takes its client out of account.
LEMMA OnReadErrorFits ==
  ASSUME EInv, Fits, NEW c \in Client, on_read_error(c) PROVE Fits'
<1>1. /\ send_to_addr(c) /\ toClient' = toClient \ {} /\ client' = client
      /\ client[c] = "run" /\ errors' = Bump(errors, c)
      /\ \E start : measure(c, start)
  BY DEF on_read_error
<1>2. PICK b : NewRequest(c, b, {})
  BY <1>1, SendAddsRequest
<1>3. \A d \in Client \ {c} : BodiesOf(d)' = BodiesOf(d)
  BY <1>2, NewRequestCounts
<1>4. /\ \A d \in Client \ {c} : latency'[d] = latency[d]
      /\ reported' = reported
  BY <1>1, MeasureIsOwn DEF EInv, EchoTypeOK
<1>5. /\ errors'[c] = errors[c] + 1 /\ errors[c] \in Nat
      /\ \A d \in Client \ {c} : errors'[d] = errors[d]
  BY <1>1 DEF Bump, EInv, EchoTypeOK
<1>6. errors'[c] # 0
  BY <1>5
<1>. QED
  BY <1>1, <1>2, <1>3, <1>4, <1>5, <1>6, SendFits

\* client_on_perf moves the sum to what was reported.
LEMMA OnPerfFits ==
  ASSUME EInv, Fits, NEW c \in Client, client_on_perf(c) PROVE Fits'
<1>1. /\ client[c] = "run" /\ reported'[c] = reported[c] + latency[c]
      /\ latency'[c] = 0 /\ UNCHANGED <<now, client, toServer, toClient, errors>>
      /\ \A d \in Client \ {c} : /\ reported'[d] = reported[d]
                                  /\ latency'[d] = latency[d]
  BY DEF client_on_perf, EInv, EchoTypeOK, counts
<1>2. reported'[c] + latency'[c] = reported[c] + latency[c]
  <2>1. /\ reported[c] \in Nat /\ latency[c] \in Nat
        /\ reported'[c] = reported[c] + latency[c] /\ latency'[c] = 0
    BY <1>1, BodyTypes, Zenon
  <2>. QED
    BY <2>1
<1>3. Bodies' = Bodies /\ \A d \in Client : BodiesOf(d)' = BodiesOf(d)
  BY <1>1 DEF Bodies, BodiesOf
<1>. QED
  BY <1>1, <1>2, <1>3 DEF Fits

\* Every step of a system whose clock is not set back
LEMMA NextFits == ASSUME ~ ClockSteps, EInv, Fits, [Next]_vars PROVE Fits'
<1>1. now \in Nat /\ \A n \in Time : n \in Nat
  BY BodyTypes, ConstantsAssumption DEF Time
<1>2. ASSUME NEW c \in Client, Lose(c) PROVE Fits'
  <2>1. Bodies' \subseteq Bodies
    BY <1>2, LoseKeeps
  <2>2. UNCHANGED <<now, client, errors, stat>>
    BY <1>2 DEF Lose
  <2>. QED
    BY <1>1, <2>1, <2>2, FewerFit
<1>3. CASE server_on_read
  <2>1. Bodies' \subseteq Bodies
    BY <1>3, ServerOnReadKeeps
  <2>2. UNCHANGED <<now, client, errors, stat>>
    BY <1>3 DEF server_on_read, counts
  <2>. QED
    BY <1>1, <2>1, <2>2, FewerFit
<1>4. CASE server_read_error \/ server_on_perf \/ Tick \/ UNCHANGED vars
  <2>1. UNCHANGED <<client, toServer, toClient, errors, stat>>
    BY <1>4 DEF server_read_error, server_on_perf, Tick, vars, counts
  <2>2. now' \in Nat /\ now <= now'
    BY <1>1, <1>4 DEF server_read_error, server_on_perf, Tick, vars
  <2>3. Bodies' \subseteq Bodies
    BY <2>1 DEF Bodies
  <2>. QED
    BY <2>1, <2>2, <2>3, FewerFit
<1>5. ASSUME NEW c \in Client, handle_signal(c) PROVE Fits'
  <2>1. /\ client[c] = "run" /\ client' = [client EXCEPT ![c] = "stopped"]
        /\ UNCHANGED <<now, toServer, toClient, stat, errors>>
    BY <1>5 DEF handle_signal, counts
  <2>2. \A d \in Client : client'[d] = "idle" => client[d] = "idle"
    BY <2>1 DEF EInv, EchoTypeOK
  <2>3. Bodies' = Bodies /\ \A d \in Client : BodiesOf(d)' = BodiesOf(d)
    BY <2>1 DEF Bodies, BodiesOf
  <2>. QED
    BY <2>1, <2>2, <2>3 DEF Fits, stat
<1>. QED
  BY <1>2, <1>3, <1>4, <1>5, StartFits, OnReadFits, OnReadErrorFits,
     OnPerfFits DEF Next

\* On a clock that is not set back, whatever the length of its seconds, the
\* latencies that on_read has summed up, borrows of timespec_diff included, fit
\* into the time before the request that is under way.
THEOREM LatencyAlwaysFits == ASSUME ~ ClockSteps PROVE Spec => []LatencyFitsTime
<1>1. ASSUME EInv, Fits PROVE LatencyFitsTime
  <2>1. ASSUME NEW c \in Client, NEW m \in UnderWay(c) PROVE m.body \in BodiesOf(c)
    BY <1>1 DEF UnderWay, Bodies, BodiesOf, EInv, Owned
  <2>. QED
    BY <1>1, <2>1 DEF LatencyFitsTime, Fits
<1>2. EInv /\ Fits /\ [Next]_vars => Fits'
  BY NextFits
<1>. QED
  BY <1>1, <1>2, InitFits, EchoInvariance, PTL DEF Spec
=============================================================================
