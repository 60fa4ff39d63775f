------------------------------ MODULE TcpEcho -------------------------------
(***************************************************************************)
(* client_server/tcp: a libevent echo server and the clients that measure  *)
(* round trips with it.  A client has one request under way, or so it      *)
(* intends: each call of its read callback sends the next request.         *)
(*                                                                         *)
(* TCP and libevent's buffers (external) keep the order of the bytes, so a *)
(* connection is its offsets in the stream of one client: what the client  *)
(* has written (sent), the server has read (taken) and put in its output   *)
(* (echoed), the client has read (got) and its callback has removed from   *)
(* the input buffer (used).  The unit is a part of a request, ReqUnits of  *)
(* them make one, and TCP may cut the stream anywhere between units.       *)
(* A read callback runs when bytes have arrived, once, however many have:  *)
(* what it leaves in the buffer waits for the next arrival.                *)
(*                                                                         *)
(* struct_serialization has the same two programs with other buffers: its  *)
(* callbacks remove at most sizeof(buffer), see the *Chunk constants.      *)
(***************************************************************************)
EXTENDS Integers

CONSTANTS Client,
          ReqUnits,      \* the units of one request
          ClientChunk,   \* how many units readcb removes at most
          ServerChunk,   \* how many units echo_read_cb moves at most
          MaxSent,       \* bound on the units a client writes
          MaxSeconds     \* bound on the ticks of the statistics timer

ASSUME ConstantsAssumption ==
  /\ ReqUnits \in Nat \ {0} /\ ClientChunk \in Nat \ {0}
  /\ ServerChunk \in Nat \ {0}
  /\ MaxSent \in Nat /\ MaxSeconds \in Nat /\ ReqUnits <= MaxSent

VARIABLES server,        \* "up", "exiting" after loopexit, "down"
          client,        \* the state of each client's process
          bev,           \* the server's bufferevent of each connection
          sent, taken, echoed, got, used,
          pps, ts,       \* struct stat
          printed        \* the sum of the rates on_stats has printed

offsets == <<sent, taken, echoed, got, used>>
stat == <<pps, ts, printed>>
vars == <<server, client, bev, offsets, stat>>

Minimum(a, b) == IF a < b THEN a ELSE b
Offset == [Client -> 0 .. MaxSent]

TypeOK ==
  /\ server \in {"up", "exiting", "down"}
  /\ client \in [Client -> {"idle", "connecting", "open", "exited"}]
  /\ bev \in [Client -> {"none", "pending", "open", "freed"}]
  /\ sent \in Offset /\ taken \in Offset /\ echoed \in Offset
  /\ got \in Offset /\ used \in Offset
  /\ pps \in Nat /\ ts \in 0 .. MaxSeconds /\ printed \in Nat

Init ==
  /\ server = "up"
  /\ client = [c \in Client |-> "idle"]
  /\ bev = [c \in Client |-> "none"]
  /\ sent = [c \in Client |-> 0] /\ taken = sent /\ echoed = sent
  /\ got = sent /\ used = sent
  /\ pps = 0 /\ ts = 0 /\ printed = 0

\* How many of the units up to `upto' one arrival may bring in after `from'.
Arrivals(from, upto) == 1 .. upto - from
-----------------------------------------------------------------------------
(* The client *)

send_request(c) == sent' = [sent EXCEPT ![c] = @ + ReqUnits]

\* main: the first request is in the output buffer before the connection is.
StartSilent(c) ==
  /\ client[c] = "idle"
  /\ client' = [client EXCEPT ![c] = "connecting"]
  /\ UNCHANGED <<server, bev, offsets, stat>>

Start(c) ==
  /\ client[c] = "idle"
  /\ client' = [client EXCEPT ![c] = "connecting"]
  /\ send_request(c)
  /\ UNCHANGED <<server, bev, taken, echoed, got, used, stat>>

\* The kernel completes the connection; the listener has not seen it yet.
Connect(c) ==
  /\ client[c] = "connecting" /\ server # "down"
  /\ client' = [client EXCEPT ![c] = "open"]
  /\ bev' = [bev EXCEPT ![c] = "pending"]
  /\ UNCHANGED <<server, offsets, stat>>

\* Two forms readcb does not have: a request only after a whole answer, and
\* a whole answer taken for granted.
readcb_whole(c, n) ==
  LET removed == Minimum(ClientChunk, got[c] + n - used[c])
  IN /\ got' = [got EXCEPT ![c] = @ + n]
     /\ used' = [used EXCEPT ![c] = @ + removed]
     /\ IF removed < ReqUnits THEN UNCHANGED sent ELSE send_request(c)

readcb_assumes_whole(c, n) ==
  /\ got' = [got EXCEPT ![c] = @ + n]
  /\ used' = [used EXCEPT ![c] = @ + ClientChunk]
  /\ send_request(c)

\* Any answer removed, even a part of one, is followed by a request.
readcb(c, n) ==
  LET removed == Minimum(ClientChunk, got[c] + n - used[c])
  IN /\ got' = [got EXCEPT ![c] = @ + n]
     /\ used' = [used EXCEPT ![c] = @ + removed]
     /\ send_request(c)

\* n units arrive at the client and its callback runs.
ClientRead(c) ==
  /\ client[c] = "open" /\ bev[c] = "open"
  /\ sent[c] + ReqUnits <= MaxSent
  /\ \E n \in Arrivals(got[c], echoed[c]) : readcb(c, n)
  /\ UNCHANGED <<server, client, bev, taken, echoed, stat>>

\* eventcb: refused, reset or closed by the server.
eventcb_open_only(c) ==
  /\ client[c] = "open" /\ server = "down"
  /\ client' = [client EXCEPT ![c] = "exited"]
  /\ UNCHANGED <<server, bev, offsets, stat>>

eventcb(c) ==
  /\ client[c] \in {"connecting", "open"} /\ server = "down"
  /\ client' = [client EXCEPT ![c] = "exited"]
  /\ UNCHANGED <<server, bev, offsets, stat>>

\* SIGTERM breaks the loop; SIGINT, which is not handled, ends the process.
handle_signal(c) ==
  /\ client[c] \in {"connecting", "open"}
  /\ client' = [client EXCEPT ![c] = "exited"]
  /\ UNCHANGED <<server, bev, offsets, stat>>
-----------------------------------------------------------------------------
(* The server.  Its callbacks run one at a time. *)

Running == server \in {"up", "exiting"}

accept_conn_cb(c) ==
  /\ Running /\ bev[c] = "pending"
  /\ bev' = [bev EXCEPT ![c] = "open"]
  /\ UNCHANGED <<server, client, offsets, stat>>

\* n units arrive and the callback moves what is in the input, or as much of
\* it as its buffer holds, to the output.
echo_read_cb(c, n) ==
  /\ taken' = [taken EXCEPT ![c] = @ + n]
  /\ echoed' = [echoed EXCEPT ![c] =
                  @ + Minimum(ServerChunk, taken[c] + n - @)]
  /\ pps' = pps + 1

ServerRead(c) ==
  /\ Running /\ bev[c] = "open"
  /\ \E n \in Arrivals(taken[c], sent[c]) : echo_read_cb(c, n)
  /\ UNCHANGED <<server, client, bev, sent, got, used, ts, printed>>

\* The end of the stream, or a reset; what was in the buffers is dropped.
echo_event_cb(c) ==
  /\ Running /\ bev[c] = "open" /\ client[c] = "exited"
  /\ bev' = [bev EXCEPT ![c] = "freed"]
  /\ UNCHANGED <<server, client, offsets, stat>>

on_stats_late_reset ==
  /\ Running /\ ts < MaxSeconds
  /\ printed' = printed + pps
  /\ ts' = ts + 1
  /\ UNCHANGED <<server, client, bev, offsets, pps>>

on_stats ==
  /\ Running /\ ts < MaxSeconds
  /\ printed' = printed + pps
  /\ pps' = 0 /\ ts' = ts + 1
  /\ UNCHANGED <<server, client, bev, offsets>>

\* handle_SIGTERM, handle_SIGINT and accept_error_cb ask the loop to end once
\* the callbacks of this round have run.
loopexit ==
  /\ server = "up" /\ server' = "exiting"
  /\ UNCHANGED <<client, bev, offsets, stat>>

\* event_base_dispatch returns, main frees and the process ends.
ServerExit ==
  /\ server = "exiting" /\ server' = "down"
  /\ UNCHANGED <<client, bev, offsets, stat>>
-----------------------------------------------------------------------------
ServerStep(c) == accept_conn_cb(c) \/ ServerRead(c) \/ echo_event_cb(c)

ClientStep(c) ==
  Start(c) \/ Connect(c) \/ ClientRead(c) \/ eventcb(c) \/ handle_signal(c)

Next ==
  \/ \E c \in Client : ClientStep(c) \/ ServerStep(c)
  \/ on_stats \/ loopexit \/ ServerExit

(***************************************************************************)
(* A running process handles its events; nobody has to start a client or   *)
(* to send a signal.                                                       *)
(***************************************************************************)
Fairness ==
  /\ WF_vars(ServerExit)
  /\ \A c \in Client :
       /\ WF_vars(Connect(c)) /\ WF_vars(ClientRead(c)) /\ WF_vars(eventcb(c))
       /\ WF_vars(accept_conn_cb(c)) /\ WF_vars(ServerRead(c))
       /\ WF_vars(echo_event_cb(c))

Spec == Init /\ [][Next]_vars /\ Fairness
-----------------------------------------------------------------------------
(***************************************************************************)
(* The offsets keep the order of the stream: nobody reads what was not     *)
(* written, and the client never removes more than it has received.        *)
(***************************************************************************)
StreamOrder ==
  \A c \in Client : /\ used[c] <= got[c] /\ got[c] <= echoed[c]
                    /\ echoed[c] <= taken[c] /\ taken[c] <= sent[c]

(***************************************************************************)
(* The measurement never stalls: between two callbacks something of a      *)
(* started client's stream is still on its way to one of the two read      *)
(* callbacks, although each may leave units in its input buffer.           *)
(***************************************************************************)
NeverStalls ==
  \A c \in Client :
    client[c] # "idle" => taken[c] < sent[c] \/ got[c] < echoed[c]

(***************************************************************************)
(* A client that stays connected to a running server gets its first        *)
(* answer.                                                                 *)
(***************************************************************************)
FirstAnswer ==
  \A c \in Client :
    client[c] = "open" ~> used[c] > 0 \/ client[c] = "exited"

(***************************************************************************)
(* When the server has gone every client that was using it ends.           *)
(***************************************************************************)
ShutdownReachesClients ==
  \A c \in Client :
    server = "down" /\ client[c] \in {"connecting", "open"}
      ~> client[c] = "exited"
=============================================================================
