------------------------------- MODULE HttpProbe -------------------------------
(***************************************************************************)
(* The HTTP probes of src/bpf/http_parser.c on one node: the kprobe on    *)
(* tcp_sendmsg, and the kprobe / kretprobe pair on tcp_recvmsg, with the   *)
(* maps http_req_start (connection tuple -> request start) and            *)
(* active_recv (thread -> tuple, between a recvmsg's entry and its        *)
(* return).                                                                *)
(*                                                                         *)
(* The environment is HTTP/1 traffic on TCP connections: on each          *)
(* connection the client sends a request, the server receives it and      *)
(* sends a response, and the client receives that.  Each connection has   *)
(* a client and a server socket, either of which may be on this node      *)
(* (ClientLocal, ServerLocal); the probes see only local sockets.  A      *)
(* socket's reader thread enters recvmsg and blocks until its data        *)
(* arrives.  Endpoints are the sockets themselves: a tuple is             *)
(* <<source, destination>>.  Timestamps are replaced by the request they  *)
(* stamp, <<connection, exchange number>>; the payload by whether it       *)
(* starts with an HTTP method.                                             *)
(***************************************************************************)
EXTENDS Naturals, FiniteSets, TLC

CONSTANTS
    Conns,         \* TCP connections
    ClientLocal,   \* connections whose client socket is on this node
    ServerLocal,   \* connections whose server socket is on this node
    MaxExchanges   \* bound: request/response exchanges per connection

ASSUME ClientLocal \subseteq Conns /\ ServerLocal \subseteq Conns
       /\ MaxExchanges \in Nat

Sockets == Conns \X {"cli", "srv"}
Local == (ClientLocal \X {"cli"}) \cup (ServerLocal \X {"srv"})
Peer(s) == <<s[1], IF s[2] = "cli" THEN "srv" ELSE "cli">>

VARIABLES
    phase,       \* per connection: "idle", "req" (sent), "got", "resp" (sent)
    done,        \* per connection: exchanges the client completed
    inRecv,      \* sockets whose reader thread is inside tcp_recvmsg
    reqStart,    \* http_req_start: tuple -> request
    activeRecv,  \* active_recv: socket (its thread) -> tuple
    emitted      \* records written to the http_events perf buffer

vars == <<phase, done, inRecv, reqStart, activeRecv, emitted>>

Init ==
    /\ phase = [c \in Conns |-> "idle"]
    /\ done = [c \in Conns |-> 0]
    /\ inRecv = {}
    /\ reqStart = [k \in {} |-> 0]
    /\ activeRecv = [s \in {} |-> 0]
    /\ emitted = {}

-----------------------------------------------------------------------------

\* make_key(skc_rcv_saddr, skc_daddr, skc_num, dport): local then remote.
SendKey(s) == <<s, Peer(s)>>

\* trace_tcp_recvmsg_enter: make_key(dst_ip, src_ip, dst_port, src_port),
\* the tuple with local and remote swapped.
RecvKey(s) == <<Peer(s), s>>

\* Drop k from the domain of a map.
Without(m, k) == [x \in DOMAIN m \ {k} |-> m[x]]

\* trace_tcp_sendmsg on socket s: a payload that does not start with an
\* HTTP method (detect_method = 0) returns; a request stores its start
\* under the tuple (BPF_ANY) and emits the partial request event.
OnSendmsg(s, isRequest) ==
    IF s \in Local /\ isRequest
    THEN LET req == <<s[1], done[s[1]]>>
         IN  /\ reqStart' = SendKey(s) :> req @@ reqStart
             /\ emitted' = emitted \cup
                    {[kind |-> "req", key |-> SendKey(s), req |-> req, by |-> s]}
    ELSE UNCHANGED <<reqStart, emitted>>

\* trace_tcp_recvmsg_enter on socket s: remember the swapped tuple for the
\* thread.
OnRecvEnter(s) ==
    IF s \in Local
    THEN activeRecv' = s :> RecvKey(s) @@ activeRecv
    ELSE UNCHANGED activeRecv

\* trace_tcp_recvmsg_exit on socket s: take the thread's tuple; with a
\* stored start under it, emit the response event with its latency and
\* delete the start.
OnRecvExit(s) ==
    IF s \in DOMAIN activeRecv
    THEN LET k == activeRecv[s]
         IN  /\ activeRecv' = Without(activeRecv, s)
             /\ IF k \in DOMAIN reqStart
                THEN /\ emitted' = emitted \cup
                           {[kind |-> "resp", key |-> k, req |-> reqStart[k],
                             by |-> s]}
                     /\ reqStart' = Without(reqStart, k)
                ELSE UNCHANGED <<emitted, reqStart>>
    ELSE UNCHANGED <<activeRecv, emitted, reqStart>>

-----------------------------------------------------------------------------
(* The traffic, with the probes that fire on it                           *)

\* The client sends its request.
ClientSend(c) ==
    /\ phase[c] = "idle"
    /\ done[c] < MaxExchanges
    /\ phase' = [phase EXCEPT ![c] = "req"]
    /\ OnSendmsg(<<c, "cli">>, TRUE)
    /\ UNCHANGED <<done, inRecv, activeRecv>>

\* A reader thread calls recvmsg on s and blocks: the server waits for a
\* request, the client for the response to the one it sent.
RecvEnter(s) ==
    /\ s \notin inRecv
    /\ phase[s[1]] \in (IF s[2] = "srv" THEN {"idle", "req"} ELSE {"req", "got", "resp"})
    /\ inRecv' = inRecv \cup {s}
    /\ OnRecvEnter(s)
    /\ UNCHANGED <<phase, done, reqStart, emitted>>

\* The server's recvmsg returns the request.
ServerRecv(c) ==
    /\ <<c, "srv">> \in inRecv
    /\ phase[c] = "req"
    /\ phase' = [phase EXCEPT ![c] = "got"]
    /\ inRecv' = inRecv \ {<<c, "srv">>}
    /\ OnRecvExit(<<c, "srv">>)
    /\ UNCHANGED done

\* The server sends its response ("HTTP/1.1 200 ...": no method).
ServerSend(c) ==
    /\ phase[c] = "got"
    /\ phase' = [phase EXCEPT ![c] = "resp"]
    /\ OnSendmsg(<<c, "srv">>, FALSE)
    /\ UNCHANGED <<done, inRecv, activeRecv>>

\* The client's recvmsg returns the response: the exchange is complete.
ClientRecv(c) ==
    /\ <<c, "cli">> \in inRecv
    /\ phase[c] = "resp"
    /\ phase' = [phase EXCEPT ![c] = "idle"]
    /\ done' = [done EXCEPT ![c] = @ + 1]
    /\ inRecv' = inRecv \ {<<c, "cli">>}
    /\ OnRecvExit(<<c, "cli">>)

Next ==
    \/ \E c \in Conns : ClientSend(c) \/ ServerRecv(c) \/ ServerSend(c)
                         \/ ClientRecv(c)
    \/ \E s \in Sockets : RecvEnter(s)

Spec == Init /\ [][Next]_vars

-----------------------------------------------------------------------------

\* Spec section 4.1 (tcp_sendmsg with the tcp_recvmsg entry / return pair
\* gives HTTP request/response correlation) and the open question of
\* section 11 (join on the connection tuple): every exchange a client on
\* this node completed has a response event, emitted when the client's
\* recvmsg returned, that carries the latency of that very request.
ResponsesJoined ==
    \A c \in ClientLocal : \A i \in 0..(done[c] - 1) :
        \E e \in emitted :
            e.kind = "resp" /\ e.req = <<c, i>> /\ e.by = <<c, "cli">>

====
