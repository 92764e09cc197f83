--------------------------- MODULE YamuxConnection ---------------------------
(***************************************************************************)
(* The yamux Connection of src/yamux/src/connection.rs and its graceful    *)
(* close driver src/yamux/src/connection/closing.rs.                       *)
(*                                                                         *)
(* Every node of Nodes is one end of a reliable ordered transport.  The    *)
(* nodes in Engines run this code; a node outside Engines is an adversary  *)
(* that sends any frame of AdversaryFrames.  An engine is the facade       *)
(* (Active, Closing, Cleanup, Closed), the Active poll loop with its       *)
(* stream table, pending_frames and command channel, and the stream        *)
(* handles that share one record per stream with it.                      *)
(*                                                                         *)
(* Byte counts are abstract units: a frame body of length 2 is 2 units.    *)
(* Stream handles and the Cleanup driver live in files outside src/        *)
(* (stream.rs, cleanup.rs); they are modelled from spec.md sections 4.6,   *)
(* 4.8 and 3.                                                              *)
(***************************************************************************)
EXTENDS Integers, Sequences, FiniteSets, SequencesExt

CONSTANTS
  Nodes,               \* the two ends of the transport
  Engines,             \* the ends that run this code
  Mode,                \* Mode[p] \in {"Client", "Server"}
  DEFAULT_CREDIT,      \* initial credit of a stream, in byte units
  ReceiveWindow,       \* config.receive_window
  MaxBufferSize,       \* config.max_buffer_size
  MaxNumStreams,       \* config.max_num_streams
  WindowUpdateMode,    \* config.window_update_mode of each engine
  SplitSendSize,       \* config.split_send_size
  MAX_COMMAND_BACKLOG, \* capacity of the stream command channel
  SocketCapacity,      \* frames the transport holds in one direction
  IdBits,              \* width of a stream id (32 in the code)
  MaxWritten,          \* bound: MaxWritten[p] bytes written on a stream of p
  AdversaryFrames,     \* the frames an adversary node may send
  MaxInjected,         \* bound: frames an adversary node sends
  TransportFaults,     \* whether reads and writes of the socket may fail
  CreditBits,          \* width of a stream's send credit (32 in the code)
  Closers              \* the engines whose user calls poll_close

Adversaries == Nodes \ Engines

\* enum Mode: how the connection is used.
Modes == {"Client", "Server"}

ASSUME
  /\ Cardinality(Nodes) = 2 /\ Engines # {} /\ Engines \subseteq Nodes
  /\ Mode \in [Engines -> Modes]
  /\ ReceiveWindow >= DEFAULT_CREDIT /\ DEFAULT_CREDIT > 0
  /\ WindowUpdateMode \in [Engines -> {"OnReceive", "OnRead"}]
  /\ MaxNumStreams >= 1 /\ SplitSendSize >= 1 /\ MAX_COMMAND_BACKLOG >= 1
  /\ SocketCapacity >= 1 /\ IdBits >= 2 /\ MaxBufferSize >= 1
  /\ TransportFaults \in BOOLEAN /\ MaxWritten \in [Engines -> Nat]
  /\ CreditBits >= 1 /\ 2^CreditBits > ReceiveWindow /\ Closers \subseteq Engines

Other(n) == CHOOSE m \in Nodes : m # n

CONNECTION_ID == 0
Ids == 1 .. (2^IdBits - 1)             \* StreamId values other than 0

States == {"Open", "SendClosed", "RecvClosed", "Closed"}
Flags == {"SYN", "ACK", "FIN", "RST"}
Tags == {"Data", "WindowUpdate", "Ping", "GoAway"}

\* Frame headers; len is the body length, the credit, the nonce or the
\* GoAway error code (0 Normal, 1 ProtocolError, 2 InternalError).
Frame(tag, flags, id, len) == [tag |-> tag, flags |-> flags, id |-> id, len |-> len]
close_stream(id, ack) == Frame("Data", {"FIN"} \cup IF ack THEN {"ACK"} ELSE {}, id, 0)
ResetFrame(id) == Frame("Data", {"RST"}, id, 0)
FinFrame(id) == Frame("Data", {"FIN"}, id, 0)
window_update(id, credit, flags) == Frame("WindowUpdate", flags, id, credit)
term == Frame("GoAway", {}, CONNECTION_ID, 0)
protocol_error == Frame("GoAway", {}, CONNECTION_ID, 1)
internal_error == Frame("GoAway", {}, CONNECTION_ID, 2)

\* StreamCommand: SendFrame(frame) or CloseStream { id, ack }
SendFrame(f) == [cmd |-> "SendFrame", frame |-> f]
CloseStream(id, ack) == [cmd |-> "CloseStream", id |-> id, ack |-> ack]

Sat(a, b) == IF a > b THEN a - b ELSE 0       \* u32::saturating_sub
Lt(a, b) == a < b

\* shared.credit += credit: an unchecked u32 add, which wraps in a release
\* build (overflow checks off).
AddCredit(a, b) == (a + b) % (2^CreditBits)

-----------------------------------------------------------------------------
(* The shared state of one stream (stream.rs, spec section 3).             *)

\* Stream::new(id, .., window, credit, ..)
NewStream(window, credit) ==
  [state |-> "Open", window |-> window, credit |-> credit, buffer |-> 0,
   flag |-> "None", reader |-> FALSE, writer |-> FALSE]

NoStream == [NewStream(0, 0) EXCEPT !.state = "Closed"]

\* Shared::update_state: states only move towards Closed.
update_state(cur, next) ==
  IF cur = "Open" THEN next
  ELSE IF cur = "Closed" \/ next \in {"Open", cur} THEN cur
  ELSE "Closed"

CanRead(state) == state \in {"Open", "SendClosed"}
CanWrite(state) == state \in {"Open", "RecvClosed"}

\* Shared::next_window_update: the credit to grant, if half a window or more.
next_window_update(mode, s) ==
  LET received == Sat(ReceiveWindow, s.window)
      credit == IF mode = "OnReceive" THEN received
                ELSE Sat(received, s.buffer)
  IN IF CanRead(s.state) /\ credit >= ReceiveWindow \div 2 THEN {credit} ELSE {}

\* Mutant of Granted: the credit is sent but the window is not raised.
Granted_forgot(s, c) == s

\* shared.window += credit, once the window update for credit is made.
Granted(s, c) == [s EXCEPT !.window = @ + c]

\* Close the stream and wake its reader and writer.
CloseAndWake(s) ==
  [s EXCEPT !.state = update_state(@, "Closed"), !.reader = FALSE, !.writer = FALSE]

\* The flag a handle adds to its next outbound frame (Stream::add_flag).
FlagSet(flag) == CASE flag = "Syn" -> {"SYN"} [] flag = "Ack" -> {"ACK"} [] OTHER -> {}

-----------------------------------------------------------------------------
VARIABLES
  conn,       \* Connection::inner: "Active", "Closing", "Cleanup", "Closed" or "Poisoned"
  closing,    \* closing::State of the Closing driver
  error,      \* the ConnectionError Active was turned into Cleanup with
  streams,    \* Active::streams, the ids in the stream table
  st,         \* st[p][id]: the Shared record of stream id
  handle,     \* "none", "live" or "dropped": the handle given to the user
  nextId,     \* Active::next_id
  cmdQ,       \* the StreamCommand channel
  cmdClosed,  \* the channel's receiver is closed or dropped
  pending,    \* Active::pending_frames
  wire,       \* wire[n]: frames in the transport towards node n
  shut,       \* shut[n]: node n has closed its sending direction
  origin,     \* history: "local" or "remote" opener of a stream
  written,    \* history: bytes a handle has written on a stream
  injected,   \* history: frames an adversary has sent
  sentCode,   \* history: GoAway codes an engine has written
  sentClose,  \* history: ids an engine has written a FIN or RST for
  synSent     \* history: ids an engine has written a SYN for

engine == <<conn, closing, error, streams, st, handle, nextId, cmdQ, cmdClosed, pending>>
hist == <<origin, written, injected, sentCode, sentClose, synSent>>
vars == <<engine, wire, shut, hist>>

ClosingStates == {"None", "ClosingStreamReceiver", "DrainingStreamReceiver",
                  "SendingTermFrame", "FlushingPendingFrames", "ClosingSocket"}
Errors == {"None", "Closed", "Io", "TooManyStreams", "NoMoreStreamIds"}

Init ==
  /\ conn = [p \in Engines |-> "Active"]
  /\ closing = [p \in Engines |-> "None"]
  /\ error = [p \in Engines |-> "None"]
  /\ streams = [p \in Engines |-> {}]
  /\ st = [p \in Engines |-> [id \in Ids |-> NoStream]]
  /\ handle = [p \in Engines |-> [id \in Ids |-> "none"]]
  /\ nextId = [p \in Engines |-> IF Mode[p] = "Client" THEN 1 ELSE 2]
  /\ cmdQ = [p \in Engines |-> <<>>]
  /\ cmdClosed = [p \in Engines |-> FALSE]
  /\ pending = [p \in Engines |-> <<>>]
  /\ wire = [n \in Nodes |-> <<>>]
  /\ shut = [n \in Nodes |-> FALSE]
  /\ origin = [p \in Engines |-> [id \in Ids |-> "none"]]
  /\ written = [p \in Engines |-> [id \in Ids |-> 0]]
  /\ injected = 0
  /\ sentCode = [p \in Engines |-> {}]
  /\ sentClose = [p \in Engines |-> {}]
  /\ synSent = [p \in Engines |-> {}]

-----------------------------------------------------------------------------
(* Helpers of the Active poll loop.                                        *)

\* Writing frame f to the socket of engine p, with the history it leaves.
Send(p, f) ==
  /\ wire' = [wire EXCEPT ![Other(p)] = Append(@, f)]
  /\ sentCode' = [sentCode EXCEPT ![p] = IF f.tag = "GoAway" THEN @ \cup {f.len} ELSE @]
  /\ sentClose' = [sentClose EXCEPT ![p] =
                     IF f.tag = "Data" /\ f.flags \cap {"FIN", "RST"} # {}
                     THEN @ \cup {f.id} ELSE @]
  /\ synSent' = [synSent EXCEPT ![p] = IF "SYN" \in f.flags THEN @ \cup {f.id} ELSE @]

SocketReady(p) == Len(wire[Other(p)]) < SocketCapacity

\* The engine's table, shared records and pending frames as one value, with
\* the window update mode of its config.
View(p) == [st |-> st[p], streams |-> streams[p], pending |-> pending[p],
            mode |-> WindowUpdateMode[p]]

SetView(p, v) ==
  /\ st' = [st EXCEPT ![p] = v.st]
  /\ streams' = [streams EXCEPT ![p] = v.streams]
  /\ pending' = [pending EXCEPT ![p] = v.pending]

\* Active::garbage_collect: every stream whose handle is dropped is closed,
\* woken and removed, after queueing the frame its former state calls for.
GcFrame(mode, s, id) ==
  CASE s.state = "Open" -> <<ResetFrame(id)>>
    [] s.state = "RecvClosed" -> <<FinFrame(id)>>
    [] s.state = "SendClosed" /\ mode = "OnRead" /\ s.window = 0
         -> <<ResetFrame(id)>>
    [] OTHER -> <<>>

garbage_collect(p) ==
  LET dropped == {id \in streams[p] : handle[p][id] = "dropped"}
      order == SetToSortSeq(dropped, Lt)
  IN [st |-> [id \in Ids |-> IF id \in dropped THEN CloseAndWake(st[p][id])
                                               ELSE st[p][id]],
      streams |-> streams[p] \ dropped,
      pending |-> pending[p] \o
                  FlattenSeq([i \in 1 .. Len(order) |->
                                GcFrame(WindowUpdateMode[p], st[p][order[i]], order[i])]),
      mode |-> WindowUpdateMode[p]]

\* Mutant of drop_all_streams: the streams are closed, their wakers kept.
drop_all_streams_nowake(S, t) ==
  [id \in Ids |-> IF id \in t THEN [S[id] EXCEPT !.state = update_state(@, "Closed")] ELSE S[id]]

\* Active::drop_all_streams applied to table t of shared records S.
drop_all_streams(S, t) == [id \in Ids |-> IF id \in t THEN CloseAndWake(S[id]) ELSE S[id]]

\* Active::cleanup: from view v, close every stream and hand the command
\* receiver to the Cleanup driver; the socket and pending frames are dropped.
cleanup(p, v, e) ==
  /\ conn' = [conn EXCEPT ![p] = "Cleanup"]
  /\ error' = [error EXCEPT ![p] = e]
  /\ SetView(p, [st |-> drop_all_streams(v.st, v.streams), streams |-> {}, pending |-> <<>>])
  /\ cmdClosed' = [cmdClosed EXCEPT ![p] = TRUE]
  /\ shut' = [shut EXCEPT ![p] = TRUE]


\* Active::is_valid_remote_id for Data and WindowUpdate frames.
is_valid_remote_id(p, id) ==
  IF Mode[p] = "Client" THEN id % 2 = 0 ELSE id % 2 = 1

-----------------------------------------------------------------------------
(* Frame dispatch.  Each handler maps view v to a result: the new shared   *)
(* records and table, the frames to push to pending_frames (out) and the   *)
(* set of ids of newly opened inbound streams (new).                       *)

Result(S, t, out, new) == [st |-> S, streams |-> t, out |-> out, new |-> new]
Fail(v, f) == Result(v.st, v.streams, <<f>>, {})

\* Mutant of OnReset: the stream is closed but its wakers are not taken.
OnReset_nowake(v, id) ==
  Result(IF id \in v.streams THEN [v.st EXCEPT ![id].state = update_state(@, "Closed")]
         ELSE v.st, v.streams, <<>>, {})

\* The RST branch of on_data and on_window_update.
OnReset(v, id) ==
  Result(IF id \in v.streams THEN [v.st EXCEPT ![id] = CloseAndWake(@)] ELSE v.st,
         v.streams, <<>>, {})

\* Mutant of IfFin: the FIN sets RecvClosed without Shared::update_state.
IfFin_overwrite(f, s) == IF "FIN" \in f.flags THEN [s EXCEPT !.state = "RecvClosed"] ELSE s

\* A FIN half-closes the receiving side (is_finish in on_data, on_window_update).
IfFin(f, s) == IF "FIN" \in f.flags THEN [s EXCEPT !.state = update_state(@, "RecvClosed")] ELSE s

\* A Data or WindowUpdate frame for an id not in the table: the stream may
\* have been dropped and collected while the remote still sends, so the
\* frame is ignored without a reset (issue #110).
UnknownStream(v, id) == Result(v.st, v.streams, <<>>, {})

\* Active::on_data
on_data(p, v, f) ==
  LET id == f.id IN
  IF "RST" \in f.flags THEN OnReset(v, id)
  ELSE IF "SYN" \in f.flags THEN
    IF ~is_valid_remote_id(p, id) \/ f.len > DEFAULT_CREDIT \/ id \in v.streams
    THEN Fail(v, protocol_error)
    ELSE IF Cardinality(v.streams) = MaxNumStreams THEN Fail(v, internal_error)
    ELSE LET s1 == [IfFin(f, NewStream(DEFAULT_CREDIT, DEFAULT_CREDIT))
                      EXCEPT !.window = Sat(@, f.len), !.buffer = f.len]
             wu == IF v.mode = "OnReceive" THEN next_window_update(v.mode, s1) ELSE {}
             s2 == IF wu = {} THEN [s1 EXCEPT !.flag = "Ack"]
                   ELSE Granted(s1, CHOOSE c \in wu : TRUE)
             out == IF wu = {} THEN <<>>
                    ELSE <<window_update(id, CHOOSE c \in wu : TRUE, {"ACK"})>>
         IN Result([v.st EXCEPT ![id] = s2], v.streams \cup {id}, out, {id})
  ELSE IF id \in v.streams THEN
    LET s == v.st[id] IN
    IF f.len > s.window THEN Fail(v, protocol_error)
    ELSE IF s.buffer >= MaxBufferSize
    THEN Result([v.st EXCEPT ![id] = IfFin(f, s)], v.streams, <<ResetFrame(id)>>, {})
    ELSE LET s1 == [IfFin(f, s) EXCEPT !.window = Sat(@, f.len), !.buffer = @ + f.len,
                                       !.reader = FALSE]
             wu == IF v.mode = "OnReceive" THEN next_window_update(v.mode, s1) ELSE {}
         IN IF wu = {} THEN Result([v.st EXCEPT ![id] = s1], v.streams, <<>>, {})
            ELSE LET c == CHOOSE c \in wu : TRUE IN
                 Result([v.st EXCEPT ![id] = Granted(s1, c)], v.streams,
                        <<window_update(id, c, {})>>, {})
  ELSE UnknownStream(v, id)

\* Active::on_window_update
on_window_update(p, v, f) ==
  LET id == f.id IN
  IF "RST" \in f.flags THEN OnReset(v, id)
  ELSE IF "SYN" \in f.flags THEN
    IF ~is_valid_remote_id(p, id) \/ id \in v.streams THEN Fail(v, protocol_error)
    ELSE IF Cardinality(v.streams) = MaxNumStreams THEN Fail(v, protocol_error)
    ELSE LET s == IfFin(f, [NewStream(DEFAULT_CREDIT, AddCredit(f.len, DEFAULT_CREDIT))
                              EXCEPT !.flag = "Ack"])
         IN Result([v.st EXCEPT ![id] = s], v.streams \cup {id}, <<>>, {id})
  ELSE IF id \in v.streams
  THEN Result([v.st EXCEPT ![id] = [IfFin(f, @) EXCEPT !.credit = AddCredit(@, f.len), !.writer = FALSE]],
              v.streams, <<>>, {})
  ELSE UnknownStream(v, id)

\* Active::on_ping
on_ping(v, f) ==
  IF "ACK" \notin f.flags /\ (f.id = CONNECTION_ID \/ f.id \in v.streams)
  THEN Result(v.st, v.streams, <<Frame("Ping", {"ACK"}, CONNECTION_ID, f.len)>>, {})
  ELSE Result(v.st, v.streams, <<>>, {})

\* Active::on_frame, for the tags other than GoAway.
on_frame(p, v, f) ==
  CASE f.tag = "Data" -> on_data(p, v, f)
    [] f.tag = "WindowUpdate" -> on_window_update(p, v, f)
    [] f.tag = "Ping" -> on_ping(v, f)

-----------------------------------------------------------------------------
(* Active::poll.  Every iteration of its loop first runs garbage_collect   *)
(* and then takes the first of these branches that is ready: send one      *)
(* pending frame, take one stream command, take one inbound frame or the   *)
(* end of the inbound stream.  Nothing ready means Poll::Pending.          *)

\* The send branch is not ready after garbage collection in view v.
NothingToSend(p, v) == ~(SocketReady(p) /\ v.pending # <<>>)

SendPendingFrame(p) ==
  LET v == garbage_collect(p) IN
  /\ conn[p] = "Active"
  /\ SocketReady(p) /\ v.pending # <<>>
  /\ Send(p, Head(v.pending))
  /\ SetView(p, [v EXCEPT !.pending = Tail(@)])
  /\ UNCHANGED <<conn, closing, error, handle, nextId, cmdQ, cmdClosed, shut,
                 origin, written, injected>>

\* on_send_frame and on_close_stream: the frame a command asks for.
CommandFrame(c) ==
  IF c.cmd = "SendFrame" THEN c.frame ELSE close_stream(c.id, c.ack)

ReceiveCommand(p) ==
  LET v == garbage_collect(p) IN
  /\ conn[p] = "Active"
  /\ NothingToSend(p, v)
  /\ cmdQ[p] # <<>>
  /\ cmdQ' = [cmdQ EXCEPT ![p] = Tail(@)]
  /\ SetView(p, [v EXCEPT !.pending = Append(@, CommandFrame(Head(cmdQ[p])))])
  /\ UNCHANGED <<conn, closing, error, handle, nextId, cmdClosed, wire, shut, hist>>

\* A decoded frame: Active::on_frame.  A GoAway ends Active with
\* ConnectionError::Closed; a new inbound stream is handed to the user.
ReceiveFrame(p) ==
  LET v == garbage_collect(p)
      f == Head(wire[p])
      r == on_frame(p, v, f)
  IN
  /\ conn[p] = "Active"
  /\ NothingToSend(p, v)
  /\ cmdQ[p] = <<>>
  /\ wire[p] # <<>>
  /\ wire' = [wire EXCEPT ![p] = Tail(@)]
  /\ IF f.tag = "GoAway"
     THEN /\ cleanup(p, v, "Closed")
          /\ UNCHANGED <<closing, handle, nextId, cmdQ, hist>>
     ELSE /\ SetView(p, [st |-> r.st, streams |-> r.streams, pending |-> v.pending \o r.out])
          /\ handle' = [handle EXCEPT ![p] = [id \in Ids |-> IF id \in r.new THEN "live" ELSE @[id]]]
          /\ origin' = [origin EXCEPT ![p] = [id \in Ids |-> IF id \in r.new THEN "remote" ELSE @[id]]]
          /\ UNCHANGED <<conn, closing, error, nextId, cmdQ, cmdClosed, shut,
                         written, injected, sentCode, sentClose, synSent>>

\* The socket's inbound stream ended: ConnectionError::Closed.
ReceiveEof(p) ==
  LET v == garbage_collect(p) IN
  /\ conn[p] = "Active"
  /\ NothingToSend(p, v)
  /\ cmdQ[p] = <<>>
  /\ wire[p] = <<>> /\ shut[Other(p)]
  /\ cleanup(p, v, "Closed")
  /\ UNCHANGED <<closing, handle, nextId, cmdQ, wire, hist>>

\* Reading, writing or flushing the socket failed (Io or Decode error).
\* enum ConnectionState: what Connection::inner holds.
ConnectionStates == {"Active", "Closing", "Cleanup", "Closed", "Poisoned"}

\* The facade calls that poll a Closing connection.
FacadeCalls == {"poll_new_outbound", "poll_next_inbound", "poll_close"}

\* The facade state a Closing driver's error leaves behind, by the call that
\* polled it: poll_new_outbound and poll_next_inbound store Closed, while
\* poll_close returns through `?` and leaves the Poisoned placeholder that
\* mem::replace put in self.inner.
ClosingFailed(call) == IF call = "poll_close" THEN "Poisoned" ELSE "Closed"

SocketError(p) ==
  /\ TransportFaults
  /\ \/ /\ conn[p] = "Active"
        /\ cleanup(p, View(p), "Io")
        /\ UNCHANGED <<closing, handle, nextId, cmdQ, wire, hist>>
     \/ /\ conn[p] = "Closing"
        /\ closing[p] \in {"FlushingPendingFrames", "ClosingSocket"}
        /\ \E call \in FacadeCalls : conn' = [conn EXCEPT ![p] = ClosingFailed(call)]
        /\ cmdClosed' = [cmdClosed EXCEPT ![p] = TRUE]
        /\ shut' = [shut EXCEPT ![p] = TRUE]
        /\ UNCHANGED <<closing, error, streams, st, handle, nextId, cmdQ, pending, wire, hist>>

-----------------------------------------------------------------------------
(* The facade operations.                                                  *)

\* Mutants of next_stream_id: the checked_add is not checked, or the id
\* advances by one.
next_stream_id_unchecked(id) == [proposed |-> id, next |-> id + 2, overflow |-> FALSE]
next_stream_id_wrap(id) == [proposed |-> id, next |-> (id + 2) % 2^IdBits, overflow |-> FALSE]
next_stream_id_by_one(id) == [proposed |-> id, next |-> id + 1, overflow |-> id + 1 >= 2^IdBits]

\* Active::next_stream_id for next_id = id: the proposed id, the new
\* next_id, and whether checked_add(2) overflows the IdBits-wide counter.
next_stream_id(id) == [proposed |-> id, next |-> id + 2, overflow |-> id + 2 >= 2^IdBits]

\* Connection::poll_new_outbound, Err arm of Active: every error of
\* new_outbound turns Active into Cleanup (active.cleanup(e)).
OpenFailed(p, e) ==
  /\ cleanup(p, View(p), e)
  /\ UNCHANGED <<closing, handle, nextId, cmdQ, wire, hist>>

\* Connection::poll_new_outbound while Active: Active::new_outbound.
new_outbound(p) ==
  LET n == next_stream_id(nextId[p])
      id == n.proposed
      extra == ReceiveWindow - DEFAULT_CREDIT
      s == [NewStream(ReceiveWindow, DEFAULT_CREDIT) EXCEPT
              !.flag = IF extra = 0 THEN "Syn" ELSE "None"]
  IN
  /\ conn[p] = "Active"
  /\ \/ /\ Cardinality(streams[p]) >= MaxNumStreams
        /\ OpenFailed(p, "TooManyStreams")
     \/ /\ Cardinality(streams[p]) < MaxNumStreams
        /\ n.overflow
        /\ OpenFailed(p, "NoMoreStreamIds")
     \/ /\ Cardinality(streams[p]) < MaxNumStreams
        /\ ~n.overflow
        /\ nextId' = [nextId EXCEPT ![p] = n.next]
        /\ pending' = [pending EXCEPT ![p] =
                         IF extra > 0 THEN Append(@, window_update(id, extra, {"SYN"})) ELSE @]
        /\ st' = [st EXCEPT ![p][id] = s]
        /\ streams' = [streams EXCEPT ![p] = @ \cup {id}]
        /\ handle' = [handle EXCEPT ![p][id] = "live"]
        /\ origin' = [origin EXCEPT ![p][id] = "local"]
        /\ UNCHANGED <<conn, closing, error, cmdQ, cmdClosed, wire, shut,
                       written, injected, sentCode, sentClose, synSent>>

\* Closing::new: the driver starts in ClosingStreamReceiver with the command
\* receiver, pending_frames and socket it is given (cmdQ, pending and wire
\* of p stay where they are).
Closing_new(p) == closing' = [closing EXCEPT ![p] = "ClosingStreamReceiver"]

\* Active::close: the stream table is dropped with Active and its records
\* are left as they are; everything else goes to Closing::new.
Active_close(p) ==
  /\ Closing_new(p)
  /\ streams' = [streams EXCEPT ![p] = {}]

\* Connection::poll_close while Active.
close(p) ==
  /\ p \in Closers /\ conn[p] = "Active"
  /\ conn' = [conn EXCEPT ![p] = "Closing"]
  /\ Active_close(p)
  /\ UNCHANGED <<error, st, handle, nextId, cmdQ, cmdClosed, pending, wire, shut, hist>>

(* Closing::poll, one step per state of closing::State.  Each step leaves  *)
(* the stream table, the handles and the history of the engine alone.     *)
ClosingUnchanged == UNCHANGED <<error, streams, st, handle, nextId, origin, written, injected>>

\* Mutant of CloseStreamReceiver: stream_receiver.close() is left out.
CloseStreamReceiver_noclose(p) ==
  /\ conn[p] = "Closing" /\ closing[p] = "ClosingStreamReceiver"
  /\ closing' = [closing EXCEPT ![p] = "DrainingStreamReceiver"]
  /\ UNCHANGED <<conn, cmdQ, cmdClosed, pending, wire, shut, sentCode, sentClose, synSent>>
  /\ ClosingUnchanged

CloseStreamReceiver(p) ==
  /\ conn[p] = "Closing" /\ closing[p] = "ClosingStreamReceiver"
  /\ cmdClosed' = [cmdClosed EXCEPT ![p] = TRUE]
  /\ closing' = [closing EXCEPT ![p] = "DrainingStreamReceiver"]
  /\ UNCHANGED <<conn, cmdQ, pending, wire, shut, sentCode, sentClose, synSent>> /\ ClosingUnchanged

\* DrainingStreamReceiver, Ready(Some(command)): its frame is queued.
DrainStreamReceiver(p) ==
  /\ conn[p] = "Closing" /\ closing[p] = "DrainingStreamReceiver"
  /\ cmdQ[p] # <<>>
  /\ cmdQ' = [cmdQ EXCEPT ![p] = Tail(@)]
  /\ pending' = [pending EXCEPT ![p] = Append(@, CommandFrame(Head(cmdQ[p])))]
  /\ UNCHANGED <<conn, closing, cmdClosed, wire, shut, sentCode, sentClose, synSent>> /\ ClosingUnchanged

\* Mutant of StreamReceiverDrained: Pending is taken for the end of the channel.
StreamReceiverDrained_early(p) ==
  /\ conn[p] = "Closing" /\ closing[p] = "DrainingStreamReceiver"
  /\ closing' = [closing EXCEPT ![p] = "SendingTermFrame"]
  /\ UNCHANGED <<conn, cmdQ, cmdClosed, pending, wire, shut, sentCode, sentClose, synSent>> /\ ClosingUnchanged

\* DrainingStreamReceiver, Ready(None): the channel is closed and empty.
StreamReceiverDrained(p) ==
  /\ conn[p] = "Closing" /\ closing[p] = "DrainingStreamReceiver"
  /\ cmdQ[p] = <<>> /\ cmdClosed[p]
  /\ closing' = [closing EXCEPT ![p] = "SendingTermFrame"]
  /\ UNCHANGED <<conn, cmdQ, cmdClosed, pending, wire, shut, sentCode, sentClose, synSent>> /\ ClosingUnchanged

SendTermFrame(p) ==
  /\ conn[p] = "Closing" /\ closing[p] = "SendingTermFrame"
  /\ pending' = [pending EXCEPT ![p] = Append(@, term)]
  /\ closing' = [closing EXCEPT ![p] = "FlushingPendingFrames"]
  /\ UNCHANGED <<conn, cmdQ, cmdClosed, wire, shut, sentCode, sentClose, synSent>> /\ ClosingUnchanged

\* FlushingPendingFrames once the socket is ready: send one frame, or move
\* on when none is left.
FlushPendingFrame(p) ==
  /\ conn[p] = "Closing" /\ closing[p] = "FlushingPendingFrames"
  /\ SocketReady(p) /\ pending[p] # <<>>
  /\ Send(p, Head(pending[p]))
  /\ pending' = [pending EXCEPT ![p] = Tail(@)]
  /\ UNCHANGED <<conn, closing, cmdQ, cmdClosed, shut>> /\ ClosingUnchanged

PendingFramesFlushed(p) ==
  /\ conn[p] = "Closing" /\ closing[p] = "FlushingPendingFrames"
  /\ SocketReady(p) /\ pending[p] = <<>>
  /\ closing' = [closing EXCEPT ![p] = "ClosingSocket"]
  /\ UNCHANGED <<conn, cmdQ, cmdClosed, pending, wire, shut, sentCode, sentClose, synSent>> /\ ClosingUnchanged

\* ClosingSocket: poll_close of the socket; the facade becomes Closed.
CloseSocket(p) ==
  /\ conn[p] = "Closing" /\ closing[p] = "ClosingSocket"
  /\ shut' = [shut EXCEPT ![p] = TRUE]
  /\ conn' = [conn EXCEPT ![p] = "Closed"]
  /\ UNCHANGED <<closing, cmdQ, cmdClosed, pending, wire, sentCode, sentClose, synSent>> /\ ClosingUnchanged

ClosingStep(p) ==
  \/ CloseStreamReceiver(p) \/ DrainStreamReceiver(p) \/ StreamReceiverDrained(p)
  \/ SendTermFrame(p) \/ FlushPendingFrame(p) \/ PendingFramesFlushed(p) \/ CloseSocket(p)

\* One step of the Cleanup driver (spec 4.8): discard one command of the
\* closed channel.
CleanupStep(p) ==
  /\ conn[p] = "Cleanup" /\ cmdQ[p] # <<>>
  /\ cmdQ' = [cmdQ EXCEPT ![p] = Tail(@)]
  /\ UNCHANGED <<conn, closing, error, streams, st, handle, nextId, cmdClosed, pending,
                 wire, shut, hist>>

\* The Cleanup arm of the facade calls: once the channel is empty the
\* Cleanup future is Ready with its error, and inner becomes Closed.
CleanupDone(p) ==
  /\ conn[p] = "Cleanup" /\ cmdQ[p] = <<>>
  /\ conn' = [conn EXCEPT ![p] = "Closed"]
  /\ UNCHANGED <<closing, error, streams, st, handle, nextId, cmdQ, cmdClosed, pending,
                 wire, shut, hist>>

\* impl Drop for Connection: only an Active connection closes and wakes its
\* streams; the socket and the command receiver are dropped in any state.
DropConnection(p) ==
  /\ conn[p] # "Closed"
  /\ conn' = [conn EXCEPT ![p] = "Closed"]
  /\ IF conn[p] = "Active"
     THEN SetView(p, [st |-> drop_all_streams(st[p], streams[p]), streams |-> {},
                      pending |-> <<>>])
     ELSE UNCHANGED <<st, streams, pending>>
  /\ cmdClosed' = [cmdClosed EXCEPT ![p] = TRUE]
  /\ shut' = [shut EXCEPT ![p] = TRUE]
  /\ UNCHANGED <<closing, error, handle, nextId, cmdQ, wire, hist>>

-----------------------------------------------------------------------------
(* The stream handle (stream.rs, spec 4.6).  A read and a write can be     *)
(* pending at once (a split stream); reader and writer mark a parked       *)
(* waker.  A command needs room in the open channel, else the handle waits *)
(* or fails.                                                               *)

CanSend(p) == ~cmdClosed[p] /\ Len(cmdQ[p]) < MAX_COMMAND_BACKLOG

HandleWrite(p, id) ==
  LET s == st[p][id] IN
  /\ handle[p][id] = "live" /\ ~s.writer /\ CanWrite(s.state)
  /\ \/ /\ s.credit > 0 /\ written[p][id] < MaxWritten[p] /\ CanSend(p)
        /\ \E n \in 1 .. Min({s.credit, SplitSendSize, MaxWritten[p] - written[p][id]}) :
             /\ cmdQ' = [cmdQ EXCEPT ![p] =
                           Append(@, SendFrame(Frame("Data", FlagSet(s.flag), id, n)))]
             /\ st' = [st EXCEPT ![p][id] = [s EXCEPT !.credit = @ - n, !.flag = "None"]]
             /\ written' = [written EXCEPT ![p][id] = @ + n]
     \/ /\ s.credit = 0
        /\ st' = [st EXCEPT ![p][id].writer = TRUE]
        /\ UNCHANGED <<cmdQ, written>>
  /\ UNCHANGED <<conn, closing, error, streams, handle, nextId, cmdClosed, pending,
                 wire, shut, origin, injected, sentCode, sentClose, synSent>>

\* Reading takes the whole buffer; under OnRead it grants the window back
\* through the command channel.
HandleRead(p, id) ==
  LET s == st[p][id]
      s1 == [s EXCEPT !.buffer = 0]
      wu == IF WindowUpdateMode[p] = "OnRead" /\ ~cmdClosed[p]
            THEN next_window_update(WindowUpdateMode[p], s1) ELSE {}
  IN
  /\ handle[p][id] = "live" /\ ~s.reader
  /\ \/ /\ s.buffer > 0 /\ wu = {}
        /\ st' = [st EXCEPT ![p][id] = s1]
        /\ UNCHANGED cmdQ
     \/ /\ s.buffer > 0 /\ wu # {} /\ CanSend(p)
        /\ \E c \in wu :
             /\ cmdQ' = [cmdQ EXCEPT ![p] =
                           Append(@, SendFrame(window_update(id, c, FlagSet(s.flag))))]
             /\ st' = [st EXCEPT ![p][id] = [Granted(s1, c) EXCEPT !.flag = "None"]]
     \/ /\ s.buffer = 0 /\ CanRead(s.state)
        /\ st' = [st EXCEPT ![p][id].reader = TRUE]
        /\ UNCHANGED cmdQ
  /\ UNCHANGED <<conn, closing, error, streams, handle, nextId, cmdClosed, pending,
                 wire, shut, hist>>

HandleClose(p, id) ==
  LET s == st[p][id] IN
  /\ handle[p][id] = "live" /\ ~s.writer /\ CanWrite(s.state) /\ CanSend(p)
  /\ cmdQ' = [cmdQ EXCEPT ![p] = Append(@, CloseStream(id, s.flag = "Ack"))]
  /\ st' = [st EXCEPT ![p][id] =
              [s EXCEPT !.state = update_state(@, "SendClosed"), !.flag = "None"]]
  /\ UNCHANGED <<conn, closing, error, streams, handle, nextId, cmdClosed, pending,
                 wire, shut, hist>>

HandleDrop(p, id) ==
  /\ handle[p][id] = "live"
  /\ handle' = [handle EXCEPT ![p][id] = "dropped"]
  /\ UNCHANGED <<conn, closing, error, streams, st, nextId, cmdQ, cmdClosed, pending,
                 wire, shut, hist>>

-----------------------------------------------------------------------------
(* An adversary node: sends any frame, reads what it is sent, shuts down.  *)

Inject(a, f) ==
  /\ injected < MaxInjected /\ ~shut[a]
  /\ Len(wire[Other(a)]) < SocketCapacity
  /\ wire' = [wire EXCEPT ![Other(a)] = Append(@, f)]
  /\ injected' = injected + 1
  /\ UNCHANGED <<engine, shut, origin, written, sentCode, sentClose, synSent>>

AdversaryRead(a) ==
  /\ wire[a] # <<>>
  /\ wire' = [wire EXCEPT ![a] = Tail(@)]
  /\ UNCHANGED <<engine, shut, hist>>

\* The transport of a node whose engine has dropped its socket (Cleanup,
\* Closed or Poisoned) discards what was sent to it: the peer's writes complete.
DiscardUnread(n) ==
  /\ conn[n] \in {"Cleanup", "Closed", "Poisoned"} /\ wire[n] # <<>>
  /\ wire' = [wire EXCEPT ![n] = <<>>]
  /\ UNCHANGED <<engine, shut, hist>>

AdversaryShut(a) ==
  /\ ~shut[a]
  /\ shut' = [shut EXCEPT ![a] = TRUE]
  /\ UNCHANGED <<engine, wire, hist>>

-----------------------------------------------------------------------------
\* The steps of the engine task of p, polled whenever one of them is ready.
Poll(p) ==
  \/ SendPendingFrame(p) \/ ReceiveCommand(p) \/ ReceiveFrame(p) \/ ReceiveEof(p)
  \/ ClosingStep(p) \/ CleanupStep(p) \/ CleanupDone(p)

\* What the user of the connection and of its streams may do.
User(p) ==
  \/ new_outbound(p) \/ close(p) \/ DropConnection(p) \/ SocketError(p)
  \/ \E id \in Ids : \/ HandleWrite(p, id) \/ HandleRead(p, id)
                     \/ HandleClose(p, id) \/ HandleDrop(p, id)

Adversary(a) ==
  \/ \E f \in AdversaryFrames : Inject(a, f)
  \/ AdversaryRead(a)
  \/ AdversaryShut(a)

Next ==
  \/ \E p \in Engines : Poll(p) \/ User(p)
  \/ \E a \in Adversaries : Adversary(a)
  \/ \E n \in Engines : DiscardUnread(n)

\* The executor polls a woken connection task; the user keeps polling the
\* connection (poll_next_inbound or poll_close) until it reports the end.
\* The transport discards what a dropped socket would have received.
Fairness == \A p \in Engines : WF_vars(Poll(p)) /\ WF_vars(DiscardUnread(p))

Spec == Init /\ [][Next]_vars /\ Fairness

-----------------------------------------------------------------------------
(* Properties.                                                             *)

FrameSet == [tag : Tags, flags : SUBSET Flags, id : {CONNECTION_ID} \cup Ids, len : Nat]
IsCommand(c) ==
  \/ c \in [cmd : {"SendFrame"}, frame : FrameSet]
  \/ c \in [cmd : {"CloseStream"}, id : Ids, ack : BOOLEAN]
StreamRecords == [state : States, window : Nat, credit : Nat, buffer : Nat,
                  flag : {"None", "Syn", "Ack"}, reader : BOOLEAN, writer : BOOLEAN]

TypeOK ==
  /\ conn \in [Engines -> ConnectionStates]
  /\ closing \in [Engines -> ClosingStates]
  /\ error \in [Engines -> Errors]
  /\ streams \in [Engines -> SUBSET Ids]
  /\ st \in [Engines -> [Ids -> StreamRecords]]
  /\ handle \in [Engines -> [Ids -> {"none", "live", "dropped"}]]
  /\ nextId \in [Engines -> Nat]
  /\ \A p \in Engines : /\ Len(cmdQ[p]) <= MAX_COMMAND_BACKLOG
                        /\ \A i \in 1 .. Len(cmdQ[p]) : IsCommand(cmdQ[p][i])
  /\ cmdClosed \in [Engines -> BOOLEAN]
  /\ pending \in [Engines -> Seq(FrameSet)]
  /\ wire \in [Nodes -> Seq(FrameSet)]
  /\ \A n \in Nodes : Len(wire[n]) <= SocketCapacity
  /\ shut \in [Nodes -> BOOLEAN]

\* The frame engine p writes to its socket in this step, if any.
Written(p) ==
  IF Len(wire'[Other(p)]) > Len(wire[Other(p)]) THEN {Last(wire'[Other(p)])} ELSE {}

\* Stream ids are never reused (spec 8.1): when new_outbound hands out an
\* id, neither side has ever used it on this connection.  Breaking this
\* takes a wrap of the u32 next_id past its width after earlier streams
\* were collected (next_stream_id's checked_add), or a remote SYN of our
\* parity let through by is_valid_remote_id before we reach that id.
LocalIdsFresh ==
  [][\A p \in Engines :
       nextId'[p] # nextId[p] => origin[p][nextId[p]] = "none"]_vars

\* A stream's state only moves towards Closed (spec 8.2), whichever of the
\* engine (RST, FIN, garbage collection, cleanup) and the handle (close)
\* changes it.  A step that hands out a new handle starts a new stream,
\* possibly under an id the remote reuses after garbage collection.
Rank(state) == CASE state = "Open" -> 0 [] state = "Closed" -> 2 [] OTHER -> 1
MonotonicState ==
  [][\A p \in Engines : \A id \in Ids :
       handle[p][id] # "none" /\ handle'[p][id] = handle[p][id] =>
         LET a == st[p][id].state
             b == st'[p][id].state
         IN a = b \/ Rank(a) < Rank(b)]_vars

\* Graceful close (closing.rs): when the Normal GoAway is written, every
\* command accepted before the channel closed has been turned into a frame
\* before it, and the channel is closed so none can follow.
CloseDrainsCommands ==
  \A p \in Engines :
    0 \in sentCode[p] => cmdQ[p] = <<>> /\ cmdClosed[p] /\ pending[p] = <<>>

\* After Active fails (GoAway received, end of input, socket error, refused
\* open), every stream a handle was given is Closed and no reader or writer
\* is left parked: the handles observe the end (spec 7, Cleanup).
ErrorPathReleasesHandles ==
  \A p \in Engines :
    error[p] # "None" =>
      \A id \in Ids : handle[p][id] # "none" =>
        st[p][id].state = "Closed" /\ ~st[p][id].reader /\ ~st[p][id].writer

\* A parked reader has nothing to read and may still get data; a parked
\* writer has no credit and may still write.  Otherwise the waker is lost
\* and the handle waits for a wake-up nothing will send.
NoLostWakeup ==
  \A p \in Engines : \A id \in Ids :
    /\ st[p][id].reader => st[p][id].buffer = 0 /\ CanRead(st[p][id].state)
    /\ st[p][id].writer => st[p][id].credit = 0 /\ CanWrite(st[p][id].state)

\* Two engines of this code never accuse each other of a protocol error:
\* no data frame exceeds the receiver's window, no SYN is duplicated.
NoProtocolError == \A p \in Engines : 1 \notin sentCode[p]

\* Spec 4.1: Poisoned is unreachable; it only marks a facade transition in
\* progress.  Every poll_* of a Poisoned connection panics on unreachable!(),
\* so no sequence of calls may leave Connection::inner Poisoned.
PoisonedUnreachable == \A p \in Engines : conn[p] # "Poisoned"

\* Spec 3, invariants 2 and 4, on what on_data may push into a stream's
\* buffer: a known stream takes data only while its receive half is open
\* (RecvClosed accepts no new inbound data), and no stream buffers more than
\* max_buffer_size bytes.
InboundAccepted ==
  [][\A p \in Engines : \A id \in Ids :
       st'[p][id].buffer > st[p][id].buffer =>
         /\ id \in streams[p] => CanRead(st[p][id].state)
         /\ st'[p][id].buffer <= MaxBufferSize]_vars

\* Spec 8.6: once the connection is Closed no handle is left parked.
NoDanglingHandles ==
  \A p \in Engines : conn[p] = "Closed" =>
    \A id \in Ids : ~st[p][id].reader /\ ~st[p][id].writer

\* Spec 3: once a stream's FIN or RST is on the wire no data frame of that
\* stream follows it.
NoDataAfterClose ==
  [][\A p \in Engines : \A f \in Written(p) :
       f.tag = "Data" /\ f.len > 0 => f.id \notin sentClose[p]]_vars


\* Spec 8.3, credit conservation, from the sender's side: a stream's send
\* credit only goes down by the bytes its handle writes.  A window update
\* (on_window_update, shared.credit += credit) never lowers it.
CreditOnlySpent ==
  [][\A p \in Engines : \A id \in Ids :
       handle'[p][id] = handle[p][id] /\ st'[p][id].credit < st[p][id].credit =>
         st[p][id].credit - st'[p][id].credit = written'[p][id] - written[p][id]]_vars

\* A stream we open is announced by the SYN of its first frame (spec 4.4):
\* no FIN of a locally opened stream is written before a SYN for it, else
\* the remote ignores the FIN of a stream it never saw and never answers.
NoFinBeforeSyn ==
  [][\A p \in Engines : \A f \in Written(p) :
       "FIN" \in f.flags /\ origin[p][f.id] = "local" =>
         f.id \in synSent[p] \/ "SYN" \in f.flags]_vars

\* Graceful close terminates (spec 4.7, scenario S1): once poll_close has
\* made the connection Closing, it eventually becomes Closed while the
\* executor keeps polling it.
CloseCompletes == \A p \in Engines : conn[p] = "Closing" ~> conn[p] = "Closed"

\* Spec 7 and 8.6: once the remote's socket is shut (it closed gracefully or
\* dropped the connection), every reader parked on a live handle of an
\* engine that does not close is eventually woken, by the FIN, RST, GoAway
\* or end of input still on its way.  Closers are left out: Active::close
\* leaves their readers parked (the dangling_handles run).
ParkedReaders(p) == {id \in Ids : handle[p][id] = "live" /\ st[p][id].reader}

PeerEndWakesReaders ==
  \A p \in Engines \ Closers :
    shut[Other(p)] /\ ParkedReaders(p) # {} ~> ParkedReaders(p) = {}


\* Refinement of CreditFlow, for the direction from engine p to the other
\* engine on stream id.  The frames p has not yet delivered are those of
\* its SendFrame commands, its pending frames and its socket's buffer.
Undelivered(p) ==
  LET sends == SelectSeq(cmdQ[p], LAMBDA c : c.cmd = "SendFrame")
  IN  [i \in 1 .. Len(sends) |-> sends[i].frame] \o pending[p] \o wire[Other(p)]
\* The units of the frames of a tag for id that p has not yet delivered.
InFlight(p, id, tag) ==
  FoldSeq(LAMBDA f, acc : IF f.tag = tag /\ f.id = id THEN acc + f.len ELSE acc,
          0, Undelivered(p))
FlowOpen(p, id) == id \in streams[p] /\ id \in streams[Other(p)]
FlowValue(p, id, v) == IF FlowOpen(p, id) THEN v ELSE 0
Flow(p, id) == INSTANCE CreditFlow WITH
  phase  <- IF FlowOpen(p, id) THEN "open" ELSE "closed",
  credit <- FlowValue(p, id, st[p][id].credit),
  window <- FlowValue(p, id, st[Other(p)][id].window),
  data   <- FlowValue(p, id, InFlight(p, id, "Data")),
  grant  <- FlowValue(p, id, InFlight(Other(p), id, "WindowUpdate"))

\* Spec 8.3 and 5 between two engines of this code: each direction of each
\* stream implements CreditFlow.  Data written by one end's handle, window
\* updates queued by the other end's on_data or read, and the credit added by
\* on_window_update keep window = credit + data + grant, so no data frame
\* exceeds the receiver's window and no update raises it past ReceiveWindow.
\* It is the conjunction of Flow(p, id)!Spec over p and id, written with the
\* quantifier inside the box and the stuttering cases first: a direction
\* closed before and after the step maps to the same closed state.
FlowRefinement ==
  /\ \A p \in Engines : \A id \in Ids : Flow(p, id)!Init
  /\ [][\A p \in Engines : \A id \in Ids :
         \/ ~FlowOpen(p, id) /\ ~FlowOpen(p, id)'
         \/ UNCHANGED Flow(p, id)!vars
         \/ Flow(p, id)!Next]_vars


\* Spec 7 ("emit GoAway(ProtocolError), then Cleanup") and scenario S3.
\* The GoAway(ProtocolError) or GoAway(InternalError) that on_frame queues
\* on Action::Terminate is written before the connection ends: as
\* Active::cleanup drops pending_frames, no engine goes from Active to
\* Cleanup with it still queued, unless the socket itself failed.  Once any
\* GoAway is written, nothing follows it.
GoAwayThenCleanup ==
  [][\A p \in Engines :
       /\ sentCode[p] # {} => Written(p) = {}
       /\ conn[p] = "Active" /\ conn'[p] = "Cleanup" /\ error'[p] # "Io" =>
            \A i \in 1 .. Len(pending[p]) : pending[p][i].tag # "GoAway"]_vars

=============================================================================
