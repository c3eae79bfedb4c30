------------------------------- MODULE Decoys -------------------------------
(***************************************************************************)
(* The decoy services beside SSH: the Modbus, S7 and DNP3 speakers of      *)
(* linux-fork/tools/ot_decoys.py and the MySQL and HTTP stubs of           *)
(* linux-fork/tools/fake_service.py, which serves all of them.             *)
(*                                                                         *)
(* A request is what the speakers look at: the function code, the length   *)
(* of the PDU, the count (of coils, registers, words) and the number of    *)
(* item descriptors announced.  A reply is its kind and the number of data *)
(* bytes; a field that does not fit its width makes struct.pack raise,     *)
(* which ends the connection.                                              *)
(***************************************************************************)
EXTENDS Naturals, Sequences, FiniteSetsExt, SequencesExt

CONSTANTS Link,        \* connections
          Service,     \* the services asked for on the command line
          Request,     \* the requests a peer may send
          MaxFrames    \* requests per connection

ASSUME RequestAssumption ==
    \A r \in Request : r.fn \in Nat /\ r.len \in Nat /\ r.count \in Nat /\ r.items \in Nat

OT == {"modbus", "s7", "dnp3"}
Handlers == OT \cup {"mysql", "http"}

VARIABLES
    host,      \* the process: "up", or "down" after a listener could not be started
    bound,     \* the services that listen
    link,      \* each connection: service, phase, what was asked and answered
    events,    \* the JSONL lines written about each connection
    diskFull   \* appending to the log fails

decoyVars == <<host, bound, link, events, diskFull>>

Byte == 255
Word == 65535
Reply(kind, size) == [kind |-> kind, size |-> size]
Fits(size, width, kind) == IF size > width THEN Reply("error", 0) ELSE Reply(kind, size)

\* _modbus_handle_pdu: byte counts are one byte wide
CoilBytes(n) == (n + 7) \div 8
ModbusReply(r) ==
    CASE r.len = 0                          -> Reply("exception", 0)
      [] r.fn \in {1, 2} /\ r.len >= 5      -> Fits(CoilBytes(r.count), Byte, "data")
      [] r.fn \in {3, 4} /\ r.len >= 5      -> Fits(2 * r.count, Byte, "data")
      [] r.fn \in {5, 6} /\ r.len >= 5      -> Reply("echo", r.len)
      [] r.fn = 16 /\ r.len >= 6            -> Reply("echo", 5)
      [] OTHER                              -> Reply("exception", 0)

\* _s7_dispatch_function: at most eight items, as many as are really there
S7Items(r) == Min({r.items, 8, (r.len - 15) \div 12})
\* _s7_build_read_var_response: four bytes and the words of every item, in
\* a frame whose length is two bytes wide
S7ReadVar(r) == Fits(S7Items(r) * (4 + 2 * r.count), Word - 21, "data")
S7Reply(r) ==
    CASE r.len < 14               -> Reply("malformed", 0)
      [] r.fn = 4 /\ r.len >= 22  -> S7ReadVar(r)
      [] OTHER                    -> Reply("ack", 0)

\* _dnp3_handle: always the same empty response
DnpReply(r) == Reply("response", 0)

Answer(p, r) == CASE p = "modbus" -> ModbusReply(r) [] p = "s7" -> S7Reply(r) [] OTHER -> DnpReply(r)

Peer(service, phase) == [service |-> service, phase |-> phase, asked |-> <<>>, got |-> <<>>]
Down == Peer("none", "free")
DecoyInit ==
    /\ host = "up" /\ bound = {}
    /\ link = [c \in Link |-> Down] /\ events = [c \in Link |-> <<>>]
    /\ diskFull = FALSE

\* _ioc_log swallows a failed write; EventLog.write raises
IocLog(c, new) == events' = IF diskFull THEN events ELSE [events EXCEPT ![c] = @ \o new]
\* what was asked, flags and item lists of a line are left out
Line(what) == [what |-> what]

-----------------------------------------------------------------------------
\* serve_one: an unsupported protocol is skipped, which every OT protocol is for an
\* image without ot_decoys.py; nothing says that all that can listen ever do
Listen(s) ==
    /\ host = "up" /\ s \in (Service \cap Handlers) \ bound
    /\ bound' = bound \cup {s}
    /\ UNCHANGED <<host, link, events, diskFull>>
\* the port is taken: gather raises, and asyncio.run cancels the other tasks,
\* the handlers included, whose finally clauses run
Busy(c) == link[c].phase \in {"handshake", "open"}
ListenFails(s) ==
    /\ host = "up" /\ s \in (Service \cap Handlers) \ bound
    /\ host' = "down" /\ bound' = {}
    /\ link' = [c \in Link |-> IF Busy(c) THEN [link[c] EXCEPT !.phase = "closed"] ELSE link[c]]
    /\ events' = [c \in Link |->
                    IF Busy(c) /\ link[c].service # "http" /\ ~diskFull
                    THEN Append(events[c], Line("disconnect")) ELSE events[c]]
    /\ UNCHANGED diskFull

\* a peer connects; HTTP says nothing of it in the log, MySQL raises when it cannot
Connect(c, s) ==
    /\ s \in bound /\ link[c] = Down
    /\ link' = [link EXCEPT ![c] = Peer(s, CASE s = "s7" -> "handshake"
                                              [] s = "mysql" /\ diskFull -> "closed"
                                              [] OTHER -> "open")]
    /\ IF s = "http" THEN UNCHANGED events ELSE IocLog(c, <<Line("connect")>>)
    /\ UNCHANGED <<host, bound, diskFull>>

\* the finally clause of the three OT handlers
Finish_ForgetsLine(c, new) == link' = [link EXCEPT ![c].phase = "closed"] /\ IocLog(c, new)
Finish(c, new) ==
    /\ link' = [link EXCEPT ![c].phase = "closed"]
    /\ IocLog(c, Append(new, Line("disconnect")))

\* _s7_handle before its loop: the first frame is answered when it is a COTP
\* connection request and passed over when it is anything else
Handshake(c, cr) ==
    /\ link[c].phase = "handshake"
    /\ link' = [link EXCEPT ![c].phase = "open"]
    /\ IF cr THEN IocLog(c, <<Line("cotp")>>) ELSE UNCHANGED events
    /\ UNCHANGED <<host, bound, diskFull>>

\* one turn of an OT handler's loop: read, log, answer
Serve(c, r) ==
    LET l == link[c]
        a == Answer(l.service, r)
        logged == ~(l.service = "modbus" /\ r.len = 0) /\ a.kind # "malformed"
        line == IF logged THEN <<Line("request")>> ELSE <<>>
    IN  /\ l.phase = "open" /\ l.service \in OT /\ Len(l.asked) < MaxFrames
        /\ IF a.kind \in {"error", "malformed"}
           THEN Finish(c, line)
           ELSE /\ link' = [link EXCEPT ![c].asked = Append(@, r), ![c].got = Append(@, a)]
                /\ IocLog(c, line)
        /\ UNCHANGED <<host, bound, diskFull>>

\* the peer closes, resets, or sends bytes that are not a frame
Hangup(c) ==
    /\ Busy(c) /\ link[c].service \in OT
    /\ Finish(c, <<>>)
    /\ UNCHANGED <<host, bound, diskFull>>

\* mysql_handler: one read, five seconds at most, then denied and closed
MysqlTurn(c, sent) ==
    /\ link[c].phase = "open" /\ link[c].service = "mysql"
    /\ link' = [link EXCEPT ![c].phase = "closed"]
    /\ IocLog(c, (IF sent THEN <<Line("auth_attempt")>> ELSE <<>>) \o <<Line("disconnect")>>)
    /\ UNCHANGED <<host, bound, diskFull>>

\* http_handler: the whole request in time, or closed without a line
HttpTurn(c, sent) ==
    /\ link[c].phase = "open" /\ link[c].service = "http"
    /\ link' = [link EXCEPT ![c].phase = "closed"]
    /\ IF sent THEN IocLog(c, <<Line("request")>>) ELSE UNCHANGED events
    /\ UNCHANGED <<host, bound, diskFull>>

DiskFills == ~diskFull /\ diskFull' = TRUE /\ UNCHANGED <<host, bound, link, events>>

DecoyNext ==
    \/ \E s \in Service : Listen(s) \/ ListenFails(s)
    \/ DiskFills
    \/ \E c \in Link :
          \/ \E s \in bound : Connect(c, s)
          \/ \E b \in BOOLEAN : Handshake(c, b) \/ MysqlTurn(c, b) \/ HttpTurn(c, b)
          \/ \E r \in Request : Serve(c, r)
          \/ Hangup(c)
-----------------------------------------------------------------------------
(***************************************************************************)
(* The protocols' own limits: 2000 coils, 125 registers, and an S7 frame.  *)
(***************************************************************************)
LegalModbus(r) == r.len >= 5 /\ ((r.fn \in {1, 2} /\ r.count \in 1..2000)
                                  \/ (r.fn \in {3, 4} /\ r.count \in 1..125))
WantBits(r) == IF r.fn \in {1, 2} THEN r.count ELSE 16 * r.count

\* A Modbus read within the protocol's limits is answered, with room for every
\* bit asked for and less than a byte to spare (_modbus_handle_pdu).
LegalReadsAnswered ==
    \A c \in Link : link[c].service = "modbus" => \A i \in DOMAIN link[c].asked :
        LET r == link[c].asked[i] IN LegalModbus(r) =>
            /\ link[c].got[i].kind = "data"
            /\ 8 * link[c].got[i].size \in WantBits(r)..(WantBits(r) + 7)

\* A log that opens with the connection and has a line for every request that is not empty.
RequestLines(ev) == {i \in DOMAIN ev : ev[i].what = "request"}
Weighty(asked) == {i \in DOMAIN asked : asked[i].len > 0}
Begun(ev, asked) ==
    /\ ev # <<>> /\ ev[1].what = "connect"
    /\ Cardinality(RequestLines(ev)) >= Cardinality(Weighty(asked))

\* The log tells the whole story of an OT connection: while the disk takes
\* writes, a connection that is over has its connect line first, its
\* disconnect line last, and a line for every request answered in between, also
\* when the answer could not be packed and when a listener that cannot start takes
\* the whole process down (_modbus_handle, _s7_handle, _dnp3_handle, amain).
StoryIsWhole ==
    ~diskFull => \A c \in Link : link[c].service \in OT /\ link[c].phase = "closed" =>
        Begun(events[c], link[c].asked) /\ Last(events[c]).what = "disconnect"

\* A decoy keeps its face: legal reads are answered in full, and the log tells
\* the whole story.
DecoysKeepFace == LegalReadsAnswered /\ StoryIsWhole
=============================================================================
