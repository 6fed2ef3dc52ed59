------------------------------ MODULE EventLayout ------------------------------
(***************************************************************************)
(* The records the kernel probes write to the perf buffers and how the    *)
(* agent's reader goroutines decode them (src/internal/agent/ebpf/        *)
(* loader.go, readConnEvents / readHTTPEvents and the conversions).       *)
(*                                                                         *)
(* A probe fills a struct conn_event or struct http_event (declared in    *)
(* bpf/headers/common.h, whose text is quoted in src/explain.md) and      *)
(* passes sizeof(event) bytes to bpf_perf_event_output.  The reader gets  *)
(* the record's raw sample, skips it when it is shorter than              *)
(* unsafe.Sizeof of its Go mirror struct, reads every field at a fixed    *)
(* offset with binary.LittleEndian, and converts the struct to a model    *)
(* event.                                                                  *)
(*                                                                         *)
(* Bytes are naturals 0..255, a buffer is a sequence of bytes, and a      *)
(* struct is a record from field names to naturals (the path to its 128   *)
(* bytes).  Each probe step writes one record and the reader reads it.    *)
(***************************************************************************)
EXTENDS Naturals, Sequences, SequencesExt

CONSTANTS
    ConnRecords,   \* struct conn_event values trace_inet_sock_set_state writes
    HttpRecords    \* struct http_event values the HTTP probes write

-----------------------------------------------------------------------------
(* Struct layout                                                           *)

\* A member: its name, its size and its alignment in bytes (x86-64: the
\* size of a scalar, 1 for a byte array).
Member(n, s, a) == [name |-> n, size |-> s, align |-> a]

\* struct conn_event, and the Go ConnEvent that mirrors it member by member.
ConnMembers ==
    << Member("timestamp_ns", 8, 8), Member("src_ip", 4, 4),
       Member("dst_ip", 4, 4), Member("src_port", 2, 2),
       Member("dst_port", 2, 2), Member("bytes_sent", 8, 8),
       Member("bytes_recv", 8, 8), Member("duration_ns", 8, 8),
       Member("retransmits", 4, 4), Member("protocol", 1, 1),
       Member("pad", 3, 1) >>

\* struct http_event, and the Go HttpEvent.
HttpMembers ==
    << Member("timestamp_ns", 8, 8), Member("src_ip", 4, 4),
       Member("dst_ip", 4, 4), Member("src_port", 2, 2),
       Member("dst_port", 2, 2), Member("method", 1, 1),
       Member("status_code", 2, 2), Member("latency_ns", 8, 8),
       Member("path", 128, 1), Member("pad", 1, 1) >>

\* common.h declares conn_event __attribute__((packed)); http_event is not.
ConnPacked == TRUE
HttpPacked == FALSE

AlignUp(x, a) == ((x + a - 1) \div a) * a

\* The offsets of the members ms laid out from byte off: each one aligned
\* to its own alignment, or right after the previous one when packed.
RECURSIVE OffsetsFrom(_, _, _)
OffsetsFrom(ms, off, packed) ==
    IF ms = <<>> THEN <<>>
    ELSE LET o == IF packed THEN off ELSE AlignUp(off, Head(ms).align)
         IN  <<o>> \o OffsetsFrom(Tail(ms), o + Head(ms).size, packed)

Offsets(ms, packed) == OffsetsFrom(ms, 0, packed)

\* sizeof in C and unsafe.Sizeof in Go: the end of the last member, rounded
\* up to the largest alignment unless packed.
SizeOf(ms, packed) ==
    LET end  == Offsets(ms, packed)[Len(ms)] + ms[Len(ms)].size
        maxA == FoldSeq(LAMBDA m, acc : IF m.align > acc THEN m.align ELSE acc,
                        1, ms)
    IN  IF packed THEN end ELSE AlignUp(end, maxA)

-----------------------------------------------------------------------------
(* Bytes                                                                   *)

\* The n little-endian bytes of v: byte(v), byte(v >> 8), ...
RECURSIVE LE(_, _)
LE(v, n) == IF n = 0 THEN <<>> ELSE <<v % 256>> \o LE(v \div 256, n - 1)

\* binary.LittleEndian.UintN(s[off : off+n]), off counted from 0.
RECURSIVE ReadLE(_, _, _)
ReadLE(s, off, n) ==
    IF n = 0 THEN 0 ELSE s[off + 1] + 256 * ReadLE(s, off + 1, n - 1)

Zeros(n) == [i \in 1..n |-> 0]

\* The bytes of struct rec: "= {}" zeroes the padding, then each member is
\* stored at its offset.
Encode(ms, packed, rec) ==
    LET offs     == Offsets(ms, packed)
        at(i)    == {k \in 1..Len(ms) : offs[k] <= i /\ i < offs[k] + ms[k].size}
        bytes(k) == IF ms[k].name = "path" THEN rec.path
                    ELSE LE(rec[ms[k].name], ms[k].size)
    IN  [i \in 1..SizeOf(ms, packed) |->
            IF at(i - 1) = {} THEN 0
            ELSE LET k == CHOOSE k \in at(i - 1) : TRUE
                 IN  bytes(k)[i - offs[k]]]

\* The perf buffer (kernel perf_prepare_sample, read back by cilium/ebpf's
\* perf.Reader): the raw data is zero-padded so that it and its 4-byte size
\* header fill whole 8-byte words; RawSample holds data and padding.
RawSample(data) == data \o Zeros(AlignUp(Len(data) + 4, 8) - 4 - Len(data))

-----------------------------------------------------------------------------
(* The reader goroutines                                                   *)

\* expectedSize := int(unsafe.Sizeof(ConnEvent{})) / (HttpEvent{}).
ConnExpectedSize == SizeOf(ConnMembers, FALSE)
HttpExpectedSize == SizeOf(HttpMembers, FALSE)

\* readConnEvents: the fields at their fixed offsets.
ConnDecode(raw) ==
    [timestamp_ns |-> ReadLE(raw, 0, 8),  src_ip      |-> ReadLE(raw, 8, 4),
     dst_ip       |-> ReadLE(raw, 12, 4), src_port    |-> ReadLE(raw, 16, 2),
     dst_port     |-> ReadLE(raw, 18, 2), bytes_sent  |-> ReadLE(raw, 20, 8),
     bytes_recv   |-> ReadLE(raw, 28, 8), duration_ns |-> ReadLE(raw, 36, 8),
     retransmits  |-> ReadLE(raw, 44, 4), protocol    |-> raw[49]]

\* readHTTPEvents: likewise; the path is copied from raw[31:159].
HttpDecode(raw) ==
    [timestamp_ns |-> ReadLE(raw, 0, 8),  src_ip      |-> ReadLE(raw, 8, 4),
     dst_ip       |-> ReadLE(raw, 12, 4), src_port    |-> ReadLE(raw, 16, 2),
     dst_port     |-> ReadLE(raw, 18, 2), method      |-> raw[21],
     status_code  |-> ReadLE(raw, 21, 2), latency_ns  |-> ReadLE(raw, 23, 8),
     path         |-> SubSeq(raw, 32, 159)]

\* intToIPv4: the dotted quad byte(ip), byte(ip>>8), byte(ip>>16), byte(ip>>24).
IntToIPv4(ip) == LE(ip, 4)

\* connEventToModel; protocol 17 is UDP, anything else TCP.
ConnEventToModel(ce) ==
    [ts       |-> ce.timestamp_ns,
     src      |-> <<IntToIPv4(ce.src_ip), ce.src_port>>,
     dst      |-> <<IntToIPv4(ce.dst_ip), ce.dst_port>>,
     sent     |-> ce.bytes_sent, recv |-> ce.bytes_recv,
     duration |-> ce.duration_ns, retransmits |-> ce.retransmits,
     protocol |-> IF ce.protocol = 17 THEN "UDP" ELSE "TCP"]

\* httpMethods.
HttpMethods == <<"UNKNOWN", "GET", "POST", "PUT", "DELETE", "PATCH", "HEAD",
                 "OPTIONS">>

\* httpEventToModel's path: the bytes before the first NUL, or all of them.
PathOf(p) ==
    LET z == SelectInSeq(p, LAMBDA b : b = 0)
    IN  IF z = 0 THEN p ELSE SubSeq(p, 1, z - 1)

\* httpEventToModel; a method byte outside the map is "UNKNOWN".
HttpEventToModel(he) ==
    [ts      |-> he.timestamp_ns,
     src     |-> <<IntToIPv4(he.src_ip), he.src_port>>,
     dst     |-> <<IntToIPv4(he.dst_ip), he.dst_port>>,
     method  |-> IF he.method < Len(HttpMethods) THEN HttpMethods[he.method + 1]
                 ELSE "UNKNOWN",
     path    |-> PathOf(he.path), status |-> he.status_code,
     latency |-> he.latency_ns]

\* cmd/ebpf-test's loop: the line it prints for a conn sample, read at the
\* same offsets as readConnEvents (the duration printed in ms).
TestLine(raw) ==
    [src      |-> <<IntToIPv4(ReadLE(raw, 8, 4)), ReadLE(raw, 16, 2)>>,
     dst      |-> <<IntToIPv4(ReadLE(raw, 12, 4)), ReadLE(raw, 18, 2)>>,
     sent     |-> ReadLE(raw, 20, 8), recv |-> ReadLE(raw, 28, 8),
     duration |-> ReadLE(raw, 36, 8), retransmits |-> ReadLE(raw, 44, 4)]

-----------------------------------------------------------------------------

VARIABLES
    pc,         \* "idle", "sample" (the reader's turn), "read" (it has read)
    probe,      \* which perf buffer the last record went to: "conn", "http"
    reader,     \* the program that read it: "agent" or "ebpf-test"
    written,    \* the struct the probe filled in
    raw,        \* the raw sample the reader gets
    delivered   \* what the reader sent on l.events for it: <<>> when skipped

vars == <<pc, probe, reader, written, raw, delivered>>

Init ==
    /\ pc = "idle" /\ probe = "conn" /\ reader = "agent"
    /\ written = <<>> /\ raw = <<>>
    /\ delivered = <<>>

\* trace_inet_sock_set_state on TCP_CLOSE: fill the event, output
\* sizeof(event) bytes.
EmitConn(rec) ==
    /\ pc \in {"idle", "read"}
    /\ pc' = "sample" /\ probe' = "conn" /\ written' = rec
    /\ raw' = RawSample(Encode(ConnMembers, ConnPacked, rec))
    /\ delivered' = <<>> /\ UNCHANGED reader

\* trace_tcp_sendmsg (request) or trace_tcp_recvmsg_exit (response).
EmitHttp(rec) ==
    /\ pc \in {"idle", "read"}
    /\ pc' = "sample" /\ probe' = "http" /\ written' = rec
    /\ raw' = RawSample(Encode(HttpMembers, HttpPacked, rec))
    /\ delivered' = <<>> /\ UNCHANGED reader

\* One turn of readConnEvents after Read: the size check, then decode,
\* convert and send.
ReadConn ==
    /\ pc = "sample" /\ probe = "conn"
    /\ delivered' = IF Len(raw) < ConnExpectedSize THEN <<>>
                    ELSE <<ConnEventToModel(ConnDecode(raw))>>
    /\ pc' = "read" /\ reader' = "agent"
    /\ UNCHANGED <<probe, written, raw>>

\* One turn of readHTTPEvents after Read.
ReadHttp ==
    /\ pc = "sample" /\ probe = "http"
    /\ delivered' = IF Len(raw) < HttpExpectedSize THEN <<>>
                    ELSE <<HttpEventToModel(HttpDecode(raw))>>
    /\ pc' = "read" /\ reader' = "agent"
    /\ UNCHANGED <<probe, written, raw>>

\* One turn of cmd/ebpf-test's loop on the conn_events buffer, when the tool
\* runs instead of the agent: a sample shorter than 49 bytes is skipped,
\* any other is printed.
ReadConnTest ==
    /\ pc = "sample" /\ probe = "conn"
    /\ delivered' = IF Len(raw) < 49 THEN <<>> ELSE <<TestLine(raw)>>
    /\ pc' = "read" /\ reader' = "ebpf-test"
    /\ UNCHANGED <<probe, written, raw>>

Next ==
    \/ \E rec \in ConnRecords : EmitConn(rec)
    \/ \E rec \in HttpRecords : EmitHttp(rec)
    \/ ReadConn \/ ReadHttp \/ ReadConnTest

Spec == Init /\ [][Next]_vars

-----------------------------------------------------------------------------

\* What a record describes: its own fields, converted as the reader does.
Described ==
    CASE reader = "ebpf-test" ->
            LET m == ConnEventToModel(written)
            IN  [f \in {"src", "dst", "sent", "recv", "duration", "retransmits"}
                    |-> m[f]]
      [] probe = "conn" -> ConnEventToModel(written)
      [] OTHER -> HttpEventToModel(written)

\* Spec section 4.1 (Decoding: records match the structures of section 6,
\* are rejected only when shorter than the declared struct, and are parsed
\* at fixed offsets) and the ConnEvent / HttpEvent comments ("mirrors the C
\* struct", in the agent and in cmd/ebpf-test): every record a probe writes
\* reaches l.events, or the tool's output, as what it describes, every
\* field intact.
DecodedAsWritten == pc = "read" => delivered = <<Described>>

====
