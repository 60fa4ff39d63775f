------------------------------ MODULE UdpEcho -------------------------------
(***************************************************************************)
(* client_server/msg_hdr and client_server/udp: a UDP echo server and the  *)
(* clients that measure round trips with it.  The server of msg_hdr reads  *)
(* up to VLEN datagrams per callback into static buffers and answers from  *)
(* them; that of udp reads one, which is VLEN = 1.                         *)
(*                                                                         *)
(* The network (external) may lose and reorder datagrams; nobody retries.  *)
(* A datagram carries the time it was sent.  Times are nanoseconds of a    *)
(* clock whose seconds have NS_PER_S of them; CLOCK_REALTIME may be set    *)
(* back.                                                                   *)
(***************************************************************************)
EXTENDS Integers, FiniteSets, Sequences, Functions

CONSTANTS Client,
          VLEN,          \* datagrams per callback of the server
          NS_PER_S,
          MaxClock,      \* bound on the clock
          MaxSends,      \* bound on the requests of all clients
          Width,         \* the modulus of uint64_t arithmetic
          MaxFaults,     \* bound on lost datagrams and failed reads
          ClockSteps     \* TRUE: the clock may be set back

ASSUME ConstantsAssumption ==
  /\ VLEN \in Nat \ {0} /\ NS_PER_S \in Nat \ {0}
  /\ MaxClock \in Nat /\ MaxSends \in Nat /\ Width \in Nat \ {0}
  /\ MaxClock < Width
  /\ MaxFaults \in Nat /\ ClockSteps \in BOOLEAN

VARIABLES now,
          client,        \* "idle", "run" or "stopped", of each client
          server,        \* "run" or "stopped"
          toServer,      \* requests: who sent it (from) and its payload
          toClient,      \* replies: whom it goes to (to) and its payload
          slots,         \* remotes[] and bufs[] of the server, those ever filled
          message_per_second,
          nb_packets, latency,   \* stat of each client
          reported,      \* the latencies a client has averaged and printed
          sends, lost, errors    \* counts of each client

serverVars == <<server, slots, message_per_second>>
stat == <<nb_packets, latency, reported>>
counts == <<sends, lost, errors>>
vars == <<now, client, toServer, toClient, serverVars, stat, counts>>

Time == 0 .. MaxClock

Zero == [c \in Client |-> 0]
Bump(f, c) == [f EXCEPT ![c] = @ + 1]

Total(f) == FoldFunction(+, 0, f)
FaultsLeft == Total(lost) + Total(errors) < MaxFaults

Init ==
  /\ now = 0 /\ client = [c \in Client |-> "idle"] /\ server = "run"
  /\ toServer = {} /\ toClient = {}
  /\ slots = <<>>
  /\ message_per_second = 0
  /\ nb_packets = Zero /\ latency = Zero /\ reported = Zero
  /\ sends = Zero /\ lost = Zero /\ errors = Zero
-----------------------------------------------------------------------------
(* struct timespec *)

Timespec(t) == [tv_sec |-> t \div NS_PER_S, tv_nsec |-> t % NS_PER_S]

timespec_diff_no_borrow(end, start) ==
  [result |-> [tv_nsec |-> IF end.tv_nsec < start.tv_nsec
                             THEN NS_PER_S + end.tv_nsec - start.tv_nsec
                             ELSE end.tv_nsec - start.tv_nsec,
               tv_sec |-> end.tv_sec - start.tv_sec],
   negative |-> end.tv_sec < start.tv_sec]

timespec_diff(end, start) ==
  [result |-> IF end.tv_nsec < start.tv_nsec
                THEN [tv_nsec |-> NS_PER_S + end.tv_nsec - start.tv_nsec,
                      tv_sec |-> end.tv_sec - start.tv_sec - 1]
                ELSE [tv_nsec |-> end.tv_nsec - start.tv_nsec,
                      tv_sec |-> end.tv_sec - start.tv_sec],
   negative |-> end.tv_sec < start.tv_sec]
-----------------------------------------------------------------------------
(* The client *)

\* The clock is read anew for the request and may have moved on.
send_to_addr(c) ==
  /\ Total(sends) < MaxSends
  /\ now' \in {now, now + 1} /\ now' \in Time
  /\ sends' = Bump(sends, c)
  /\ toServer' = toServer \cup
       {[from |-> c, body |-> [owner |-> c, id |-> sends'[c], ts |-> now']]}

Start(c) ==
  /\ client[c] = "idle"
  /\ client' = [client EXCEPT ![c] = "run"]
  /\ send_to_addr(c)
  /\ UNCHANGED <<toClient, serverVars, stat, lost, errors>>

\* What on_read adds to the statistics for a reply sent at `start'.
measure(c, start) ==
  LET d == timespec_diff(Timespec(now), Timespec(start))
  IN IF d.negative
       THEN UNCHANGED stat
       ELSE /\ latency' = [latency EXCEPT ![c] =
                 (@ + d.result.tv_sec * NS_PER_S + d.result.tv_nsec) % Width]
            /\ nb_packets' = Bump(nb_packets, c)
            /\ UNCHANGED reported

on_read_silent(c) ==
  /\ client[c] = "run"
  /\ \E m \in toClient :
       /\ m.to = c
       /\ toClient' = toClient \ {m}
       /\ measure(c, m.body.ts)
  /\ UNCHANGED <<now, client, toServer, serverVars, counts>>

on_read(c) ==
  /\ client[c] = "run"
  /\ \E m \in toClient :
       /\ m.to = c
       /\ toClient' = toClient \ {m}
       /\ measure(c, m.body.ts)
  /\ send_to_addr(c)
  /\ UNCHANGED <<client, serverVars, lost, errors>>

\* recvfrom fails: `start' is not initialized, and yet the callback goes on.
on_read_error(c) ==
  /\ FaultsLeft /\ client[c] = "run"
  /\ \E start \in Time : measure(c, start)
  /\ errors' = Bump(errors, c)
  /\ send_to_addr(c)
  /\ UNCHANGED <<client, toClient, serverVars, lost>>

\* (With no packet since the last second 0/0 is printed and nothing changes.)
client_on_perf(c) ==
  /\ client[c] = "run" /\ nb_packets[c] > 0
  /\ reported' = [reported EXCEPT ![c] = @ + latency[c]]
  /\ latency' = [latency EXCEPT ![c] = 0]
  /\ nb_packets' = [nb_packets EXCEPT ![c] = 0]
  /\ UNCHANGED <<now, client, toServer, toClient, serverVars, counts>>

handle_signal(c) ==
  /\ client[c] = "run"
  /\ client' = [client EXCEPT ![c] = "stopped"]
  /\ UNCHANGED <<now, toServer, toClient, serverVars, stat, counts>>
-----------------------------------------------------------------------------
(* The server *)

Reply(slot) == [to |-> slot.remote, body |-> slot.body]

\* sendmmsg of the first n slots; the others hold earlier datagrams.
respond_all(filled, n) ==
  toClient' = toClient \cup
    {Reply(filled[i]) : i \in 1 .. Len(filled)}

respond_first(filled, n) ==
  toClient' = toClient \cup
    {[to |-> filled[1].remote, body |-> filled[i].body] : i \in 1 .. n}

respond(filled, n) ==
  toClient' = toClient \cup {Reply(filled[i]) : i \in 1 .. n}

server_on_read ==
  /\ server = "run"
  /\ \E n \in 1 .. VLEN : \E batch \in Injection(1 .. n, toServer) :
       LET filled == [i \in 1 .. n |-> [remote |-> batch[i].from,
                                        body |-> batch[i].body]]
                     \o SubSeq(slots, n + 1, Len(slots))
       IN /\ slots' = filled
          /\ toServer' = toServer \ Range(batch)
          /\ respond(filled, n)
          /\ message_per_second' = message_per_second + n
  /\ UNCHANGED <<now, client, server, stat, counts>>

\* recvmmsg fails and the server exits; the one of udp returns instead.
server_read_error ==
  /\ FaultsLeft /\ server = "run" /\ VLEN > 1
  /\ server' = "stopped"
  /\ UNCHANGED <<now, client, toServer, toClient, slots, message_per_second,
                 stat, counts>>

server_on_perf ==
  /\ server = "run" /\ message_per_second > 0
  /\ message_per_second' = 0
  /\ UNCHANGED <<now, client, server, toServer, toClient, slots, stat, counts>>
-----------------------------------------------------------------------------
(* The environment *)

Lose(c) ==
  /\ FaultsLeft
  /\ \/ \E m \in toServer : /\ m.from = c /\ toServer' = toServer \ {m}
                            /\ UNCHANGED toClient
     \/ \E m \in toClient : /\ m.to = c /\ toClient' = toClient \ {m}
                            /\ UNCHANGED toServer
  /\ lost' = Bump(lost, c)
  /\ UNCHANGED <<now, client, serverVars, stat, sends, errors>>

Tick ==
  /\ now' \in {now + 1} \cup IF ClockSteps THEN {now - 1} ELSE {}
  /\ now' \in Time
  /\ UNCHANGED <<client, toServer, toClient, serverVars, stat, counts>>

Next ==
  \/ \E c \in Client : \/ Start(c) \/ on_read(c) \/ on_read_error(c)
                       \/ client_on_perf(c) \/ handle_signal(c) \/ Lose(c)
  \/ server_on_read \/ server_read_error \/ server_on_perf \/ Tick

(***************************************************************************)
(* The event loops handle what has arrived; nobody must start or stop a    *)
(* client, and time need not pass.                                         *)
(***************************************************************************)
Fairness ==
  WF_vars(server_on_read) /\ \A c \in Client : WF_vars(on_read(c))

Spec == Init /\ [][Next]_vars /\ Fairness
-----------------------------------------------------------------------------
UnderWay(c) == {m \in toServer : m.from = c} \cup {m \in toClient : m.to = c}

(***************************************************************************)
(* Each reply sends one request, so that a client has exactly one under    *)
(* way, less those the network lost, plus one for each failed read: the    *)
(* batches of the server neither drop nor repeat a datagram.               *)
(***************************************************************************)
OneUnderWay ==
  \A c \in Client :
    client[c] # "idle" => Cardinality(UnderWay(c)) + lost[c] = 1 + errors[c]

(***************************************************************************)
(* A reply goes to the client whose request it carries, although the       *)
(* server's buffers keep the datagrams of earlier and longer batches.      *)
(***************************************************************************)
ReplyToSender == \A m \in toClient : m.to = m.body.owner

(***************************************************************************)
(* The round trips of a client fit into the time it has been running: if   *)
(* no read has failed, the latencies it has summed up are at most the time *)
(* from its first request, at 0 or later, to the one that is under way.    *)
(***************************************************************************)
LatencyFitsTime ==
  \A c \in Client : \A m \in UnderWay(c) :
    errors[c] = 0 => reported[c] + latency[c] <= m.body.ts

(***************************************************************************)
(* on_read leaves negative differences out, as timespec_diff returns 1     *)
(* "if result is negative": the sum is at most what that many round trips  *)
(* on this clock can take.                                                 *)
(***************************************************************************)
NegativeLeftOut ==
  \A c \in Client :
    errors[c] = 0 => latency[c] <= nb_packets[c] * MaxClock

(***************************************************************************)
(* The measurement goes on: while the server runs, a client that has lost  *)
(* nothing and is not stopped sends again and again, as far as the bound   *)
(* on requests goes.                                                       *)
(***************************************************************************)
KeepsMeasuring ==
  \A c \in Client :
    client[c] = "run" ~> \/ Total(sends) = MaxSends \/ client[c] = "stopped"
                         \/ lost[c] > 0 \/ server = "stopped"
=============================================================================
