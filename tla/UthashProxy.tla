---------------------------- MODULE UthashProxy -----------------------------
(***************************************************************************)
(* client_server/uthash: the echo server of TcpEcho with a table of the    *)
(* requests under way (a uthash table, external: a set of entries found by *)
(* their id).  The read callback enters the request, looks it up again and *)
(* answers on the bufferevent it finds there.  The clients are the same.   *)
(* struct proxy_server's message_per_second and at_second are pps and ts.  *)
(***************************************************************************)
EXTENDS TcpEcho

VARIABLES request_table, current_request_id

table == <<request_table, current_request_id>>
proxyVars == <<vars, table>>

ProxyTypeOK ==
  /\ TypeOK
  /\ request_table \subseteq [request_id : Nat, bev : Client]
  /\ current_request_id \in Nat

ProxyInit == Init /\ request_table = {} /\ current_request_id = 0

\* evbuffer_add_buffer on entry s: all its input goes to its output.
AnswerOn(s) == echoed' = [echoed EXCEPT ![s.bev] = taken'[s.bev]]

respond_cb_keep(entries, request_id) ==
  IF \E s \in entries : s.request_id = request_id
    THEN LET s == CHOOSE e \in entries : e.request_id = request_id
         IN AnswerOn(s) /\ request_table' = entries
    ELSE UNCHANGED echoed /\ request_table' = entries

\* HASH_FIND_INT, answer, HASH_DEL; an id that is not there is ignored.
respond_cb(entries, request_id) ==
  IF \E s \in entries : s.request_id = request_id
    THEN LET s == CHOOSE e \in entries : e.request_id = request_id
         IN AnswerOn(s) /\ request_table' = entries \ {s}
    ELSE UNCHANGED echoed /\ request_table' = entries

\* The request id is taken before the counter moves.
proxy_read_stale_id(c, n) ==
  LET s == [request_id |-> current_request_id, bev |-> c]
  IN /\ taken' = [taken EXCEPT ![c] = @ + n]
     /\ respond_cb(request_table \cup {s}, current_request_id + 1)
     /\ pps' = pps + 1
     /\ current_request_id' = current_request_id + 1

proxy_read_cb(c, n) ==
  LET s == [request_id |-> current_request_id, bev |-> c]
  IN /\ taken' = [taken EXCEPT ![c] = @ + n]
     /\ respond_cb(request_table \cup {s}, current_request_id)
     /\ pps' = pps + 1
     /\ current_request_id' = current_request_id + 1

ProxyRead(c) ==
  /\ Running /\ bev[c] = "open"
  /\ \E n \in Arrivals(taken[c], sent[c]) : proxy_read_cb(c, n)
  /\ UNCHANGED <<server, client, bev, sent, got, used, ts, printed>>

\* After the loop main empties the table (proxy_free).
ProxyExit == ServerExit /\ request_table' = {} /\ UNCHANGED current_request_id

ProxyNext ==
  \/ \E c \in Client : ProxyRead(c)
  \/ ProxyExit
  \/ /\ \/ \E c \in Client :
             ClientStep(c) \/ accept_conn_cb(c) \/ echo_event_cb(c)
        \/ on_stats \/ loopexit
     /\ UNCHANGED table

\* The fairness of the echo server, for the same events.
ProxyFairness ==
  /\ WF_proxyVars(ProxyExit)
  /\ \A c \in Client :
       /\ WF_proxyVars(ProxyRead(c))
       /\ WF_proxyVars(Connect(c) /\ UNCHANGED table)
       /\ WF_proxyVars(ClientRead(c) /\ UNCHANGED table)
       /\ WF_proxyVars(eventcb(c) /\ UNCHANGED table)
       /\ WF_proxyVars(accept_conn_cb(c) /\ UNCHANGED table)
       /\ WF_proxyVars(echo_event_cb(c) /\ UNCHANGED table)

ProxySpec == ProxyInit /\ [][ProxyNext]_proxyVars /\ ProxyFairness
-----------------------------------------------------------------------------
(***************************************************************************)
(* No entry of the table outlives its connection: respond_cb never finds a *)
(* bufferevent that echo_event_cb has freed.                               *)
(***************************************************************************)
EntriesAreOpen == \A s \in request_table : bev[s.bev] = "open"

(***************************************************************************)
(* The rates that on_stats printed and the count since the last tick add   *)
(* up to the requests that were given an id.                               *)
(***************************************************************************)
StatsExact == printed + pps = current_request_id

(***************************************************************************)
(* With its detour through the table the proxy takes the steps of the      *)
(* plain echo server of client_server/tcp, which moves all of its input to *)
(* its output.                                                             *)
(***************************************************************************)
ImplementsEcho == Init /\ [][Next]_vars
=============================================================================
