----------------------------- MODULE MCEventLayout -----------------------------
(* One record of each kind the probes write: a closed TCP connection from  *)
(* 10.0.0.1:40000 to 10.0.0.2:80, the GET /a request event of             *)
(* trace_tcp_sendmsg and the response event of trace_tcp_recvmsg_exit      *)
(* (method 0, a latency, status 0: neither probe parses a status).        *)
EXTENDS EventLayout

\* 10.0.0.1 and 10.0.0.2 as the u32 copied from the socket's address bytes.
IP1 == 10 + 1 * 16777216
IP2 == 10 + 2 * 16777216

MCConnRecords ==
    {[timestamp_ns |-> 7, src_ip |-> IP1, dst_ip |-> IP2, src_port |-> 40000,
      dst_port |-> 80, bytes_sent |-> 100, bytes_recv |-> 200,
      duration_ns |-> 300, retransmits |-> 1, protocol |-> 6, pad |-> 0]}

PathA == <<47, 97>> \o Zeros(126)

MCHttpRecords ==
    {[timestamp_ns |-> 7, src_ip |-> IP1, dst_ip |-> IP2, src_port |-> 40000,
      dst_port |-> 80, method |-> 1, status_code |-> 0, latency_ns |-> 0,
      path |-> PathA, pad |-> 0],
     [timestamp_ns |-> 9, src_ip |-> IP2, dst_ip |-> IP1, src_port |-> 80,
      dst_port |-> 40000, method |-> 0, status_code |-> 0, latency_ns |-> 1000,
      path |-> Zeros(128), pad |-> 0]}

====
