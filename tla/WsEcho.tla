------------------------------- MODULE WsEcho -------------------------------
(***************************************************************************)
(* The WebSocket echo server (examples/ws_echo/ws_echo.c): one listener    *)
(* fiber that accepts, and one fiber for each connection, which reads the  *)
(* upgrade request, then frames, reassembles messages and echoes them.     *)
(*                                                                         *)
(* The byte stream is a sequence of cells: a byte whose value matters, or  *)
(* a field read in one call (an extended length, a mask key).  A read      *)
(* returns any part of what the peer sent and the call asked for, so that  *)
(* every way the stream can be cut into segments happens.  The lengths     *)
(* where the protocol changes form are constants, in the order they have   *)
(* in the code.  Reads and writes are cfiber_ev_read and cfiber_ev_write   *)
(* (module Transport): what they return, not how they wait.                *)
(***************************************************************************)
EXTENDS Integers, SequencesExt

CONSTANTS
    Conns,       \* descriptors that accept may return
    Listener,    \* the listening descriptor
    Scripts,     \* what a client may send: a request, then frames
    SmallMax,    \* 125, the longest length in the second byte
    MediumMax,   \* 0xFFFF, the longest 16-bit length
    MaxPayload,  \* MAX_PAYLOAD
    TopBit,      \* 2^63
    MaxRequest,  \* MAX_REQUEST
    MaxConns     \* values of ws_serve's max_conns

ASSUME ConstantsAssumption ==
    /\ Listener \notin Conns
    /\ {SmallMax, MediumMax, MaxPayload, TopBit, MaxRequest} \subseteq Nat
    /\ 0 < SmallMax /\ SmallMax < MediumMax
    /\ MediumMax < MaxPayload /\ MaxPayload < TopBit
    /\ MaxRequest > 1 /\ MaxConns \subseteq Nat

VARIABLES
    conn,        \* conn_t and the locals of conn_fiber, one record per descriptor
    fds,         \* open descriptors
    lpc, served, max_conns,  \* listen_fiber
    accepted,    \* its local c
    args         \* the listen_args_t block is allocated

listenVars == <<lpc, served, max_conns, accepted, args>>
vars == <<conn, fds, listenVars>>

-----------------------------------------------------------------------------
Ops == {"CONT", "TEXT", "BIN", "CLOSE", "PING", "PONG"}
Control == {"CLOSE", "PING", "PONG"}
Blocks == {"conn", "payload", "msg"}
CLOSE_PROTOCOL == 1002
CLOSE_TOO_BIG == 1009
N16 == SmallMax + 1          \* 126: a 16-bit length follows
N64 == SmallMax + 2          \* 127: a 64-bit length follows

Cell(kind, value) == [k |-> kind, v |-> value]
Bits(s) == [i \in DOMAIN s |-> Cell("byte", s[i])]
Xor(s, key) == [i \in DOMAIN s |-> (s[i] + key) % 2]

(* A client frame on the wire: two bytes, the extended length, the mask     *)
(* key, and the payload, masked.                                            *)
FrameBytes(f) ==
    <<Cell("b0", [fin |-> f.fin, op |-> f.op, rsv |-> f.rsv]),
      Cell("b1", [masked |-> f.masked, n |-> IF f.form = 7 THEN f.len
                                             ELSE IF f.form = 16 THEN N16 ELSE N64])>>
    \o (IF f.form = 7 THEN <<>> ELSE <<Cell("ext", f.len)>>)
    \o (IF f.masked THEN <<Cell("key", f.key)>> ELSE <<>>)
    \o Bits(IF f.masked THEN Xor(f.data, f.key) ELSE f.data)

Wire(script) ==
    script.request \o FlattenSeq([i \in DOMAIN script.frames |-> FrameBytes(script.frames[i])])

(* find_header_end: the first CRLFCRLF, here two cells, or 0 *)
HeaderEnd(buf) ==
    LET ends == {i \in 2 .. Len(buf) : buf[i - 1].k = "crlf1" /\ buf[i].k = "crlf2"} IN
    IF ends = {} THEN 0 ELSE Min(ends)

-----------------------------------------------------------------------------
(* What a client that sends script is owed: the reference for the code.     *)

Shortest(len) == IF len <= SmallMax THEN 7 ELSE IF len <= MediumMax THEN 16 ELSE 64

(* An answer as the bytes of one unmasked frame *)
Answer(op, body) ==
    <<Cell("frame", [op |-> op, form |-> Shortest(Len(body)), n |-> Len(body)])>> \o body

Legal(f) ==
    /\ ~ f.rsv /\ f.masked /\ f.op \in Ops
    /\ f.form = Shortest(f.len) /\ f.len < TopBit
    /\ f.op \in Control => f.fin /\ f.len <= SmallMax

IsData(f) == f.op \notin Control

(* Frame j belongs to the message that frame i begins or continues. *)
InMessage(fs, i, j) ==
    IsData(fs[j]) /\ \A l \in j + 1 .. i : IsData(fs[l]) => fs[l].op = "CONT"

(* That message up to frame i, and what it began as *)
Body(fs, i) ==
    FlattenSeq([j \in 1 .. i |-> IF InMessage(fs, i, j) THEN fs[j].data ELSE <<>>])
Kind(fs, i) == fs[CHOOSE j \in 1 .. i : InMessage(fs, i, j) /\ fs[j].op # "CONT"].op

(* Frame i finds a message unfinished. *)
Open(fs, i) ==
    \E j \in 1 .. i - 1 : /\ IsData(fs[j]) /\ ~ fs[j].fin
                          /\ \A l \in j + 1 .. i - 1 : ~ IsData(fs[l])

(* The close code frame i deserves, or 0 *)
Code(fs, i) ==
    IF ~ Legal(fs[i]) THEN CLOSE_PROTOCOL
    ELSE IF fs[i].len > MaxPayload THEN CLOSE_TOO_BIG
    ELSE IF ~ IsData(fs[i]) THEN 0
    ELSE IF Open(fs, i) # (fs[i].op = "CONT") THEN CLOSE_PROTOCOL
    ELSE IF Len(Body(fs, i)) > MaxPayload THEN CLOSE_TOO_BIG ELSE 0

Reply(fs, i) ==
    IF Code(fs, i) # 0 THEN Answer("CLOSE", <<Cell("code", Code(fs, i))>>)
    ELSE IF IsData(fs[i]) /\ fs[i].fin THEN Answer(Kind(fs, i), Bits(Body(fs, i)))
    ELSE IF fs[i].op = "PING" THEN Answer("PONG", Bits(fs[i].data))
    ELSE IF fs[i].op = "CLOSE" THEN Answer("CLOSE", Bits(fs[i].data))
    ELSE <<>>

(* The first frame that ends the connection is the last one answered. *)
Ends(fs, i) == Code(fs, i) # 0 \/ fs[i].op = "CLOSE"
Replies(fs) ==
    [i \in DOMAIN fs |-> IF \E j \in 1 .. i - 1 : Ends(fs, j) THEN <<>> ELSE Reply(fs, i)]

Owed(script) ==
    LET wire == Wire(script)
        room == MaxRequest - 1
        head == HeaderEnd(SubSeq(wire, 1, Min({room, Len(wire)})))
    IN IF head = 0 THEN IF Len(wire) < room THEN <<>> ELSE <<Cell("http", 431)>>
       ELSE IF script.request[1].k # "upgrade" THEN <<Cell("http", 400)>>
       ELSE <<Cell("http", 101)>> \o FlattenSeq(Replies(script.frames))

(* A client sends a request and then frames.  The request may have no end,  *)
(* a frame may be malformed, but it has the fields its own first bytes say  *)
(* it has, and the payload unless that is longer than the server reads.     *)
Frames ==
    [op : STRING, fin : BOOLEAN, rsv : BOOLEAN, masked : BOOLEAN, form : {7, 16, 64},
     len : Nat, key : Nat, data : Seq({0, 1})]

ASSUME ScriptsAssumption ==
    \A script \in Scripts :
        /\ script.request \in Seq([k : STRING, v : {0}])
        /\ HeaderEnd(Wire(script)) \in {0, Len(script.request)}
        /\ script.frames \in Seq(Frames)
        /\ \A i \in DOMAIN script.frames :
              LET f == script.frames[i] IN
              /\ f.form = 7 => f.len <= SmallMax
              /\ f.form = 16 => f.len <= MediumMax
              /\ f.len <= MaxPayload => Len(f.data) = f.len

-----------------------------------------------------------------------------
Idle == [pc |-> "none", in |-> <<>>, peer |-> "up", cut |-> FALSE, carry |-> <<>>,
         buf |-> <<>>, hdr |-> [fin |-> FALSE, op |-> "CONT", len |-> 0], key |-> 0,
         msg |-> <<>>, msg_op |-> "none", tx |-> <<>>, next |-> "none",
         out |-> <<>>, due |-> <<>>, heap |-> {}]

Init ==
    /\ conn = [c \in Conns |-> Idle]
    /\ fds = {}
    /\ lpc = "none" /\ served = 0 /\ max_conns = 0
    /\ accepted = Listener /\ args = FALSE

Become(c, k) == conn' = [conn EXCEPT ![c] = k] /\ UNCHANGED <<fds, listenVars>>

(* The connection goes on to read its next field *)
Goto(k, stage) == [k EXCEPT !.pc = stage, !.buf = <<>>]

(* ... or to write, one call after the other, and then to next *)
Writing(k, writes, next) ==
    [k EXCEPT !.pc = "tx", !.buf = <<>>, !.tx = writes, !.next = next]

Form(len) == IF len < N16 THEN 7 ELSE IF len <= MediumMax THEN 16 ELSE 64

(* send_frame: the header, then the payload if there is one *)
SendFrame(k, op, body, next) ==
    LET header == Cell("frame", [op |-> op, form |-> Form(Len(body)), n |-> Len(body)]) IN
    Writing(k, IF body = <<>> THEN <<<<header>>>> ELSE <<<<header>>, body>>, next)

SendClose(k, code) == SendFrame(k, "CLOSE", <<Cell("code", code)>>, "done")

-----------------------------------------------------------------------------
(* recv_frame, and the frames of conn_fiber's loop *)

(* Mutant: the fragments of a message are limited one by one. *)
TooLongAlone(sofar, body) == Len(body) > MaxPayload

TooLong(sofar, body) == Len(body) > MaxPayload - Len(sofar)

(* on_data_frame *)
OnDataFrame(k, body) ==
    LET starts == k.hdr.op # "CONT"
        op == IF starts THEN k.hdr.op ELSE k.msg_op
        sofar == IF starts THEN <<>> ELSE k.msg
        msg == sofar \o body
    IN IF starts = (k.msg_op # "none") THEN SendClose(k, CLOSE_PROTOCOL)
       ELSE IF starts /\ k.hdr.fin THEN SendFrame(k, op, body, "head")
       ELSE IF TooLong(sofar, body) THEN SendClose(k, CLOSE_TOO_BIG)
       ELSE IF k.hdr.fin
            THEN SendFrame([k EXCEPT !.msg = msg, !.msg_op = "none"], op, msg, "head")
            ELSE Goto([k EXCEPT !.msg = msg, !.msg_op = op], "head")

(* Mutant: a ping between two fragments ends the message. *)
PongForgets(k, body) == SendFrame([k EXCEPT !.msg_op = "none"], "PONG", body, "head")

Pong(k, body) == SendFrame(k, "PONG", body, "head")

OnFrame(k, body) ==
    CASE k.hdr.op = "CLOSE" -> SendFrame(k, "CLOSE", body, "done")
      [] k.hdr.op = "PING"  -> Pong(k, body)
      [] k.hdr.op = "PONG"  -> Goto(k, "head")
      [] OTHER              -> OnDataFrame(k, body)

(* The length is known *)
Sized(k) ==
    IF k.hdr.op \in Control /\ (~ k.hdr.fin \/ k.hdr.len > SmallMax)
    THEN SendClose(k, CLOSE_PROTOCOL)
    ELSE IF k.hdr.len > MaxPayload THEN SendClose(k, CLOSE_TOO_BIG)
    ELSE Goto(k, "mask")

RecvHead(k) ==
    LET b0 == k.buf[1].v
        b1 == k.buf[2].v
        h == [k EXCEPT !.hdr = [fin |-> b0.fin, op |-> b0.op, len |-> b1.n]]
    IN IF b0.rsv \/ b0.op \notin Ops \/ ~ b1.masked THEN SendClose(h, CLOSE_PROTOCOL)
       ELSE IF b1.n \in {N16, N64} THEN Goto(h, "ext")
       ELSE Sized(h)

RecvExt(k) ==
    LET n == k.buf[1].v IN
    IF \/ k.hdr.len = N16 /\ n < N16
       \/ k.hdr.len = N64 /\ (n <= MediumMax \/ n >= TopBit)
    THEN SendClose(k, CLOSE_PROTOCOL)
    ELSE Sized([k EXCEPT !.hdr.len = n])

RecvMask(k) == Goto([k EXCEPT !.key = k.buf[1].v], "payload")

RecvPayload(k) == OnFrame(k, Bits(Xor([i \in DOMAIN k.buf |-> k.buf[i].v], k.key)))

(* What came in one read with the end of the request *)
Behind(buf, head) == SubSeq(buf, head + 1, Len(buf))

(* do_handshake, once the request has ended or filled the buffer *)
Handshake(k) ==
    LET head == HeaderEnd(k.buf)
        rest == [k EXCEPT !.carry = Behind(k.buf, head)]
    IN IF head = 0 THEN Writing(k, <<<<Cell("http", 431)>>>>, "done")
       ELSE IF k.buf[1].k # "upgrade" THEN Writing(rest, <<<<Cell("http", 400)>>>>, "done")
       ELSE Writing(rest, <<<<Cell("http", 101)>>>>, "head")

(* How much the code reads before it looks at a field *)
Wants(k) ==
    CASE k.pc = "request"       -> MaxRequest - 1
      [] k.pc = "head"          -> 2
      [] k.pc \in {"ext", "mask"} -> 1
      [] k.pc = "payload"       -> k.hdr.len
      [] OTHER                  -> 0

Reads == {"request", "head", "ext", "mask", "payload"}

Starved(k) ==
    /\ k.pc \in Reads
    /\ Len(k.buf) < Wants(k)
    /\ k.pc = "request" => HeaderEnd(k.buf) = 0

(* conn_read_exact takes what is carried first ... *)
ReadCarried(c) ==
    LET k == conn[c]
        take == Min({Len(k.carry), Wants(k) - Len(k.buf)}) IN
    /\ Starved(k) /\ k.carry # <<>>
    /\ Become(c, [k EXCEPT !.buf = @ \o SubSeq(k.carry, 1, take),
                           !.carry = SubSeq(@, take + 1, Len(@))])

(* ... and then reads *)
Read(c) ==
    LET k == conn[c] IN
    /\ Starved(k) /\ k.carry = <<>> /\ k.peer # "reset"
    /\ \E n \in 1 .. Min({Len(k.in), Wants(k) - Len(k.buf)}) :
          Become(c, [k EXCEPT !.buf = @ \o SubSeq(k.in, 1, n),
                              !.in = SubSeq(@, n + 1, Len(@))])

(* Mutant: a read of 0 bytes is tried again. *)
ReadFailsOnly(k) == k.peer = "reset"

(* read returns 0 or -1 *)
ReadOver(k) == k.peer = "reset" \/ (k.peer = "eof" /\ k.in = <<>>)

(* The connection is over, whatever was being read. *)
ReadEnds(c) ==
    LET k == conn[c] IN
    /\ Starved(k) /\ k.carry = <<>>
    /\ ReadOver(k)
    /\ Become(c, Goto(k, "done"))

Field(c, stage) == conn[c].pc = stage /\ ~ Starved(conn[c])

HandleRequest(c) == Field(c, "request") /\ Become(c, Handshake(conn[c]))
HandleHead(c) == Field(c, "head") /\ Become(c, RecvHead(conn[c]))
HandleExt(c) == Field(c, "ext") /\ Become(c, RecvExt(conn[c]))
HandleMask(c) == Field(c, "mask") /\ Become(c, RecvMask(conn[c]))
HandlePayload(c) == Field(c, "payload") /\ Become(c, RecvPayload(conn[c]))

(* One cfiber_ev_write *)
Write(c) ==
    LET k == conn[c] IN
    /\ k.pc = "tx" /\ k.peer # "reset"
    /\ Become(c, [k EXCEPT !.out = @ \o Head(k.tx), !.tx = Tail(@),
                           !.pc = IF Len(k.tx) = 1 THEN k.next ELSE "tx"])

(* ... which fails after some bytes: every caller leaves *)
WriteFails(c) ==
    LET k == conn[c] IN
    /\ k.pc = "tx" /\ k.peer = "reset"
    /\ \E n \in 0 .. Len(Head(k.tx)) - 1 :
          Become(c, [k EXCEPT !.out = @ \o SubSeq(Head(k.tx), 1, n), !.tx = <<>>,
                              !.pc = "done"])

(* ... or whose EPIPE comes with a SIGPIPE: cfiber_ev_write uses write, and *)
(* nothing in the server ignores the signal, which ends the whole process.  *)
(* EPIPE or an error without a signal is the system's choice.               *)
WriteKills(c) ==
    /\ conn[c].pc = "tx" /\ conn[c].peer = "reset"
    /\ conn' = [d \in Conns |-> Idle] /\ fds' = {}
    /\ lpc' = "killed" /\ accepted' = Listener /\ args' = FALSE
    /\ UNCHANGED <<served, max_conns>>

(* conn_fiber begins: one to three allocations, any of which fails *)
Start(c) ==
    /\ conn[c].pc = "start"
    /\ \E got \in {{}, {"conn"}, {"conn", "payload"}, {"conn", "msg"}, Blocks} :
          \/ /\ got = {}
             /\ conn' = [conn EXCEPT ![c] = Idle]
             /\ fds' = fds \ {c}
          \/ /\ got # {}
             /\ conn' = [conn EXCEPT ![c].heap = got,
                                     ![c].pc = IF got = Blocks THEN "request" ELSE "done"]
             /\ UNCHANGED fds
    /\ UNCHANGED listenVars

(* Mutant: a connection that is refused keeps its buffers. *)
FreedUnlessRefused(k) == IF k.out = <<>> THEN {"conn"} ELSE Blocks

Freed(k) == Blocks

(* done: free and close *)
Done(c) ==
    /\ conn[c].pc = "done"
    /\ conn' = [conn EXCEPT ![c] = [Idle EXCEPT !.heap = conn[c].heap \ Freed(conn[c])]]
    /\ fds' = fds \ {c}
    /\ UNCHANGED listenVars

(* The steps that do not wait for the client to read *)
Proceeds(c) ==
    \/ Start(c) \/ Done(c)
    \/ ReadCarried(c) \/ Read(c) \/ ReadEnds(c) \/ WriteFails(c)
    \/ HandleRequest(c) \/ HandleHead(c) \/ HandleExt(c) \/ HandleMask(c) \/ HandlePayload(c)

ConnFiber(c) == Proceeds(c) \/ Write(c)

-----------------------------------------------------------------------------
(* ws_serve: socket; bind, listen and getsockname; the arguments; the fiber *)
Serve ==
    /\ \/ lpc = "none"   /\ lpc' = "bind"  /\ UNCHANGED <<max_conns, args>>
       \/ lpc = "bind"   /\ lpc' = "args"  /\ UNCHANGED <<max_conns, args>>
       \/ lpc = "args"   /\ lpc' = "fiber" /\ args' = TRUE /\ max_conns' \in MaxConns
       \/ lpc = "fiber"  /\ lpc' = "start" /\ UNCHANGED <<max_conns, args>>
    /\ fds' = fds \cup {Listener}
    /\ UNCHANGED <<conn, served, accepted>>

(* What it has taken when a step fails, it gives back. *)
ServeFails ==
    /\ lpc \in {"bind", "args", "fiber"}
    /\ lpc' = "none" /\ args' = FALSE
    /\ fds' = fds \ {Listener}
    /\ UNCHANGED <<conn, served, max_conns, accepted>>

(* listen_fiber copies and frees its arguments *)
ListenStart ==
    /\ lpc = "start"
    /\ lpc' = "accept" /\ args' = FALSE
    /\ UNCHANGED <<conn, fds, served, max_conns, accepted>>

Accept(c) ==
    /\ lpc = "accept"
    /\ c \notin fds
    /\ fds' = fds \cup {c} /\ accepted' = c
    /\ lpc' = "spawn"
    /\ UNCHANGED <<conn, served, max_conns, args>>

(* Out of descriptors: sleep, then try again.  ECONNABORTED tries at once   *)
(* and changes nothing; any other error ends the listener.                  *)
AcceptFails ==
    /\ \/ lpc = "accept" /\ lpc' \in {"sleep", "close"}
       \/ lpc = "sleep" /\ lpc' = "accept"
    /\ UNCHANGED <<conn, fds, served, max_conns, accepted, args>>

Spawn(script) ==
    /\ lpc = "spawn"
    /\ conn' = [conn EXCEPT ![accepted] = [Idle EXCEPT !.pc = "start", !.in = Wire(script),
                                                       !.due = Owed(script)]]
    /\ accepted' = Listener
    /\ LET n == IF max_conns > 0 THEN served + 1 ELSE served IN
       /\ served' = n
       /\ lpc' = IF max_conns > 0 /\ n >= max_conns THEN "close" ELSE "accept"
    /\ UNCHANGED <<fds, max_conns, args>>

(* No fiber for it: the connection is closed and not counted. *)
SpawnFails ==
    /\ lpc = "spawn"
    /\ fds' = fds \ {accepted} /\ accepted' = Listener
    /\ lpc' = "accept"
    /\ UNCHANGED <<conn, served, max_conns, args>>

ListenClose ==
    /\ lpc = "close"
    /\ fds' = fds \ {Listener}
    /\ lpc' = "gone"
    /\ UNCHANGED <<conn, served, max_conns, accepted, args>>

ListenFiber == ListenStart \/ AcceptFails \/ SpawnFails \/ ListenClose
               \/ (\E c \in Conns : Accept(c)) \/ (\E s \in Scripts : Spawn(s))

-----------------------------------------------------------------------------
(* The client stops sending, with or without having sent everything; the    *)
(* part it did not send is the part not yet read.                           *)
PeerCloses(c) ==
    /\ conn[c].pc # "none" /\ conn[c].peer = "up"
    /\ \E rest \in {<<>>, conn[c].in} :
          Become(c, [conn[c] EXCEPT !.peer = "eof", !.in = rest, !.cut = rest # conn[c].in])

(* The connection is lost: reads and writes fail from now on. *)
PeerResets(c) ==
    /\ conn[c].pc # "none" /\ conn[c].peer # "reset"
    /\ Become(c, [conn[c] EXCEPT !.peer = "reset", !.in = <<>>])

Next ==
    \/ Serve \/ ServeFails \/ ListenFiber
    \/ \E c \in Conns : ConnFiber(c) \/ WriteKills(c) \/ PeerCloses(c) \/ PeerResets(c)

(* The reactor runs a fiber whose descriptor is ready (ReadinessIsNoticed   *)
(* and ReadyRuns of module Reactor).  A client need not send, nor read what *)
(* it is sent: a write that waits for it waits without a timeout.           *)
Spec == Init /\ [][Next]_vars /\ \A c \in Conns : WF_vars(Proceeds(c))

-----------------------------------------------------------------------------
(* Properties *)

(* However the stream is cut into segments, wherever frames begin relative  *)
(* to the end of the request, and whatever the client sends: the server     *)
(* writes exactly what the reference owes, in order and nothing else, and   *)
(* when it waits for more or leaves, nothing it has read whole is           *)
(* unanswered (conn_fiber, recv_frame, on_data_frame, do_handshake).        *)
EchoesTheStream ==
    \A c \in Conns :
        LET k == conn[c]
            settled == \/ k.pc = "done"
                       \/ k.pc = "head" /\ k.buf = <<>> /\ k.carry = <<>> /\ k.in = <<>>
        IN /\ IsPrefix(k.out, k.due)
           /\ (settled /\ k.peer # "reset" /\ ~ k.cut /\ k.heap = Blocks) => k.out = k.due

(* No buffer is written past its end: carry and its terminator, the payload *)
(* and the reassembled message (memcpy at ws_echo.c:430).                   *)
BuffersHold ==
    \A c \in Conns :
        LET k == conn[c] IN
        /\ Len(k.buf) <= IF k.pc = "request" THEN MaxRequest - 1 ELSE MaxPayload
        /\ Len(k.carry) < MaxRequest
        /\ Len(k.msg) <= MaxPayload

(* Whatever fails, at whatever point: a descriptor is open exactly while a  *)
(* fiber is there to close it, and so is the memory.                        *)
NothingLeaks ==
    /\ \A c \in Conns :
          /\ c \in fds <=> (conn[c].pc # "none" \/ accepted = c)
          /\ conn[c].pc = "none" => conn[c].heap = {}
    /\ Listener \in fds <=> lpc \notin {"none", "gone", "killed"}
    /\ args => lpc \in {"fiber", "start"}

(* A client that has gone does not keep its fiber: a connection that is     *)
(* lost ends (alone, or with the server: WriteKills), and one whose client  *)
(* has stopped sending ends if that client goes on reading what it is sent; *)
(* one that does neither keeps its fiber in write_impl.                     *)
ConnectionsEnd ==
    \A c \in Conns :
        LET There == conn[c].pc # "none" IN
        /\ (There /\ conn[c].peer = "reset") ~> ~ There
        /\ WF_vars(Write(c)) => ((There /\ conn[c].peer # "up") ~> ~ There)
=============================================================================
