------------------------------- MODULE MCLoader -------------------------------
(* The loader with its three objects and two perf readers.               *)
EXTENDS Loader

CONSTANTS conn, http, connObj, httpObj, dnsObj

\* connection_tracker.o, http_parser.o and dns_tracker.o, with the perf
\* maps of src/bpf/*.c (dns_events has no reader).  One attachMap program
\* each (of 2, 3 and 1): which links exist does not change what the
\* readers do.
MCObjReaders == [o \in Objects |->
                    IF o = connObj THEN {conn} ELSE IF o = httpObj THEN {http}
                    ELSE {}]
MCObjProgs == [o \in Objects |->
                  IF o = connObj THEN {"trace_inet_sock_set_state"}
                  ELSE IF o = httpObj THEN {"trace_tcp_sendmsg"}
                  ELSE {"trace_udp_sendmsg"}]

====
