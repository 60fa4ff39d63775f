---------------------------- MODULE UdpReceiver -----------------------------
(***************************************************************************)
(* how-to-receive-a-million-packets and fast_leveldb: a UDP receiver with  *)
(* one or more threads that read batches and count packets and bytes, and  *)
(* a main thread that samples the counters once a second and prints how    *)
(* much they have grown.  The receiver of fast_leveldb also opens the      *)
(* LevelDB /tmp/testdb for each thread.  net.c is the same in both.        *)
(*                                                                         *)
(* The counters are atomic one by one; a sample reads them one after the   *)
(* other while the threads go on.  uint64_t subtraction wraps, so a sample *)
(* below the last one would be printed as an enormous rate.                *)
(***************************************************************************)
EXTENDS Integers, Sequences, Functions, FiniteSetsExt

CONSTANTS thread_num,
          reuseport,     \* 0: one socket for all threads, 1: one for each
          MAX_MSG,       \* datagrams per recvmmsg
          Lengths,       \* the lengths of datagrams
          SocketBuffer,  \* datagrams a socket holds, more are dropped
          MaxArrivals,   \* bound on the datagrams that arrive
          Host,          \* the kinds of address on the command line
          OpensDb        \* TRUE for fast_leveldb

ASSUME ReceiverAssumption ==
  /\ thread_num \in Nat \ {0} /\ reuseport \in 0 .. 1 /\ MAX_MSG \in Nat \ {0}
  /\ Lengths \subseteq Nat /\ SocketBuffer \in Nat /\ MaxArrivals \in Nat
  /\ Host \subseteq {"ipv4", "ipv6", "other"} /\ OpensDb \in BOOLEAN

Thread == 1 .. thread_num

VARIABLES main,          \* where main is; "fatal" when it gave up starting,
                         \* "failed" when a thread ended the process
          listen_addr,   \* the address parse_addr has found
          bound,         \* sockets bound
          spawned,       \* threads started
          socket,        \* the datagrams in the buffer of each socket
          arrivals,
          at,            \* where each thread is
          r, bytes,      \* the batch of each thread
          pps, bps,      \* its counters
          t,             \* the thread main works on
          now_pps, now_bps, last_pps, last_bps,
          taken, takenBytes   \* what recvmmsg has returned in all

startup == <<listen_addr, bound, spawned>>
network == <<socket, arrivals, taken, takenBytes>>
threads == <<at, r, bytes, pps, bps>>
sums == <<now_pps, now_bps, last_pps, last_bps>>
receiverVars == <<main, startup, network, threads, t, sums>>

ThreadZero == [i \in Thread |-> 0]

ReceiverInit ==
  /\ main = "parse" /\ listen_addr = "none" /\ bound = 0 /\ spawned = 0
  /\ socket = [i \in Thread |-> <<>>]
  /\ arrivals = 0 /\ taken = 0 /\ takenBytes = 0
  /\ at = [i \in Thread |-> "recv"] /\ r = ThreadZero /\ bytes = ThreadZero
  /\ pps = ThreadZero /\ bps = ThreadZero
  /\ t = 1 /\ now_pps = 0 /\ now_bps = 0 /\ last_pps = 0 /\ last_bps = 0
-----------------------------------------------------------------------------
(* main, up to its loop *)

\* An address that is neither IPv4 nor IPv6 is fatal.
parse_addr(host) ==
  /\ main = "parse"
  /\ listen_addr' = host
  /\ main' = IF host = "other" THEN "fatal"
             ELSE IF reuseport = 0 THEN "bind" ELSE "init"
  /\ UNCHANGED <<bound, spawned, network, threads, t, sums>>

\* The socket is always PF_INET, which an IPv6 address cannot be bound to.
net_bind_udp ==
  /\ main = "bind"
  /\ \/ /\ listen_addr = "ipv4"
        /\ bound' = bound + 1
        /\ main' = IF reuseport = 0 THEN "init" ELSE "spawn"
     \/ /\ listen_addr = "ipv6"
        /\ main' = "fatal" /\ UNCHANGED bound
  /\ UNCHANGED <<listen_addr, spawned, network, threads, t, sums>>

\* leveldb_open takes the lock of the directory, which a second open of the
\* same process does not get either.
state_init ==
  /\ main = "init"
  /\ main' = IF OpensDb /\ t > 1 THEN "fatal"
             ELSE IF reuseport = 0 THEN "spawn" ELSE "bind"
  /\ UNCHANGED <<startup, network, threads, t, sums>>

thread_spawn ==
  /\ main = "spawn"
  /\ spawned' = spawned + 1
  /\ IF t < thread_num
       THEN main' = "init" /\ t' = t + 1
       ELSE main' = "select" /\ t' = 1
  /\ UNCHANGED <<listen_addr, bound, network, threads, sums>>
-----------------------------------------------------------------------------
(* The loop of main *)

\* A second has passed: a new sample starts from zero.
select ==
  /\ main = "select" /\ main' = "load_pps"
  /\ now_pps' = 0 /\ now_bps' = 0
  /\ UNCHANGED <<startup, network, threads, t, last_pps, last_bps>>

load_pps ==
  /\ main = "load_pps" /\ main' = "load_bps"
  /\ now_pps' = now_pps + pps[t]
  /\ UNCHANGED <<startup, network, threads, t, now_bps, last_pps, last_bps>>

load_bps ==
  /\ main = "load_bps"
  /\ now_bps' = now_bps + bps[t]
  /\ IF t < thread_num
       THEN main' = "load_pps" /\ t' = t + 1
       ELSE main' = "print" /\ t' = 1
  /\ UNCHANGED <<startup, network, threads, now_pps, last_pps, last_bps>>

print_forgets ==
  /\ main = "print" /\ main' = "select"
  /\ UNCHANGED <<startup, network, threads, t, sums>>

print ==
  /\ main = "print" /\ main' = "select"
  /\ last_pps' = now_pps /\ last_bps' = now_bps
  /\ UNCHANGED <<startup, network, threads, t, now_pps, now_bps>>

Main ==
  \/ \E host \in Host : parse_addr(host)
  \/ net_bind_udp \/ state_init \/ thread_spawn
  \/ select \/ load_pps \/ load_bps \/ print
-----------------------------------------------------------------------------
(* The threads.  They and the network go on until the process ends. *)

Alive == main \notin {"fatal", "failed"}

fd(i) == IF reuseport = 0 THEN 1 ELSE i
Sum(s) == SumFunction(s)

\* recvmmsg waits for one datagram and takes what else is there.
recvmmsg(i) ==
  LET n == Min({MAX_MSG, Len(socket[fd(i)])})
      batch == SubSeq(socket[fd(i)], 1, n)
  IN /\ i <= spawned /\ Alive /\ at[i] = "recv" /\ n > 0
     /\ socket' = [socket EXCEPT ![fd(i)] = SubSeq(@, n + 1, Len(@))]
     /\ r' = [r EXCEPT ![i] = n]
     /\ bytes' = [bytes EXCEPT ![i] = Sum(batch)]
     /\ taken' = taken + n /\ takenBytes' = takenBytes + Sum(batch)
     /\ at' = [at EXCEPT ![i] = "add_pps"]
     /\ UNCHANGED <<main, startup, arrivals, pps, bps, t, sums>>

add_pps_stores(i) ==
  /\ Alive /\ at[i] = "add_pps"
  /\ pps' = [pps EXCEPT ![i] = r[i]]
  /\ at' = [at EXCEPT ![i] = "add_bps"]
  /\ UNCHANGED <<main, startup, network, r, bytes, bps, t, sums>>

add_pps(i) ==
  /\ Alive /\ at[i] = "add_pps"
  /\ pps' = [pps EXCEPT ![i] = @ + r[i]]
  /\ at' = [at EXCEPT ![i] = "add_bps"]
  /\ UNCHANGED <<main, startup, network, r, bytes, bps, t, sums>>

add_bps(i) ==
  /\ Alive /\ at[i] = "add_bps"
  /\ bps' = [bps EXCEPT ![i] = @ + bytes[i]]
  /\ at' = [at EXCEPT ![i] = "recv"]
  /\ UNCHANGED <<main, startup, network, r, bytes, pps, t, sums>>

thread_loop(i) == recvmmsg(i) \/ add_pps(i) \/ add_bps(i)

\* An error other than EAGAIN and EINTR, which are tried again, is fatal.
recvmmsg_error(i) ==
  /\ i <= spawned /\ Alive /\ at[i] = "recv"
  /\ main' = "failed"
  /\ UNCHANGED <<startup, network, threads, t, sums>>

\* A datagram reaches one of the bound sockets; a full one drops it.
Arrive ==
  /\ Alive /\ arrivals < MaxArrivals
  /\ arrivals' = arrivals + 1
  /\ \E s \in 1 .. bound, len \in Lengths :
       socket' = IF Len(socket[s]) < SocketBuffer
                   THEN [socket EXCEPT ![s] = Append(@, len)] ELSE socket
  /\ UNCHANGED <<main, startup, threads, t, sums, taken, takenBytes>>

ReceiverNext ==
  \/ Main \/ Arrive
  \/ \E i \in Thread : thread_loop(i) \/ recvmmsg_error(i)

\* The threads are scheduled and seconds pass; nobody has to send.
ReceiverSpec ==
  /\ ReceiverInit /\ [][ReceiverNext]_receiverVars
  /\ WF_receiverVars(Main) /\ \A i \in Thread : WF_receiverVars(thread_loop(i))
-----------------------------------------------------------------------------
Uncounted == [i \in Thread |-> IF at[i] = "add_pps" THEN r[i] ELSE 0]
UncountedBytes == [i \in Thread |-> IF at[i] = "recv" THEN 0 ELSE bytes[i]]

(***************************************************************************)
(* The rates are real.  No packet is counted twice or forgotten: what      *)
(* recvmmsg returned is in the counters of the threads or in a batch still *)
(* to be added.  And although main loads the counters one by one while the *)
(* threads add to them, a sample is never below the last one, which would  *)
(* print as an enormous unsigned rate, and never more than was received.   *)
(***************************************************************************)
RatesAreReal ==
  /\ Sum(pps) + Sum(Uncounted) = taken
  /\ Sum(bps) + Sum(UncountedBytes) = takenBytes
  /\ main = "print" => /\ last_pps <= now_pps /\ now_pps <= taken
                       /\ last_bps <= now_bps /\ now_bps <= takenBytes

(***************************************************************************)
(* Every packet received gets into a printed rate, unless a thread ends    *)
(* the process.                                                            *)
(***************************************************************************)
AllReported ==
  \A n \in 1 .. MaxArrivals : taken >= n ~> (last_pps >= n \/ main = "failed")
=============================================================================
