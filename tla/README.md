# TLA+ model of the yamux connection

This directory holds TLA+ models of the yamux stream multiplexer in
`src/yamux/src/connection.rs` and `src/yamux/src/connection/closing.rs`. It
also holds the TLC configurations that check them. Each definition is
translated from those files. The files the code depends on but the
repository does not contain (`stream.rs`, `cleanup.rs`, `frame/`) are
modelled from `spec.md`. PROJECT.json marks them `spec_modelled`.

## 1. The system

| Part | Source | State it keeps | Operations |
|---|---|---|---|
| Connection facade | connection.rs 145-325 | `inner`: Active, Closing, Cleanup, Closed | `poll_new_outbound`, `poll_next_inbound`, `poll_close`, `Drop` |
| Active engine | connection.rs 344-491 | `streams` table, `next_id`, `pending_frames`, command receiver, socket | `poll` loop: `garbage_collect`, then send one pending frame, else take one command, else read one frame or EOF |
| Frame dispatch | connection.rs 544-822 | the shared stream records | `on_frame`, `on_data`, `on_window_update`, `on_ping`, each returning an `Action` |
| Stream ids | connection.rs 824-846 | `next_id` | `next_stream_id` (checked add of 2), `is_valid_remote_id` (parity) |
| Garbage collection | connection.rs 849-935 | the table and the records | `garbage_collect`: RST/FIN for each dropped handle; `drop_all_streams` |
| Closing driver | closing.rs | `State`, receiver, pending frames, socket | five linear steps: close receiver, drain, GoAway(Normal), flush, close socket |
| Cleanup driver | cleanup.rs (absent; spec 4.8) | the closed receiver and the error | drain and discard the commands, then yield the error |
| Stream handle | stream.rs (absent; spec 3, 4.6) | the shared record: state, window, credit, buffer, flag, wakers | read, write, close, drop |
| Frame codec | frame/ (absent) | none | encode and decode headers |
| Test harness | test-harness/tests/concurrent.rs | none | echo many streams over TCP |

**How the parts interact.**

- A stream handle shares one record with the engine.
  - The handle writes and closes through a bounded command channel (`MAX_COMMAND_BACKLOG`).
  - The engine turns each command into a frame on `pending_frames`.
  - The engine learns that a handle was dropped through the record's reference count, which `garbage_collect` reads at the top of every loop iteration.
- Inbound frames change the records directly and wake parked readers and writers.
- `poll_close` hands the receiver, the pending frames and the socket to Closing.
- Any engine error hands the receiver to Cleanup, after `drop_all_streams`.

**The behaviours that make it hard.**

- A handle and the engine interleave: for example, a drop racing queued data, or a close racing an RST.
- The two ends exchange data and window updates while others are in flight.
- The transport may end or fail at any step.
- The peer may send anything.
- The command channel and the socket are bounded.
- The id counter has a fixed width.

## 2. Modules

`YamuxConnection.tla` models every part above except the codec and the test harness.
`CreditFlow.tla` is the abstract specification of flow control for one direction
of one stream; the pair model is shown to implement it (section 3).

**Nodes and engines.**

- `Nodes` are the two ends of one transport.
- `Engines` are the ends that run this code.
- A node outside `Engines` is an adversary. It may:
  - send any frame of `AdversaryFrames` (at most `MaxInjected` of them);
  - read what it is sent;
  - shut its sending direction.

**State.**

| Variable | Code |
|---|---|
| `conn` | `Connection::inner` |
| `closing` | `closing::State` |
| `error` | the `ConnectionError` given to `cleanup` |
| `streams` | `Active::streams` |
| `st` | the shared records |
| `handle` | whether the user holds, or has dropped, the handle |
| `nextId` | `next_id` |
| `cmdQ`, `cmdClosed` | the channel |
| `pending` | `pending_frames` |
| `wire`, `shut` | the transport |

`origin`, `written`, `injected`, `sentCode`, `sentClose` and `synSent` are history variables that only the properties read.

**Numbers.** `shared.credit += credit` (771) and `credit + DEFAULT_CREDIT` (752) are
unchecked `u32` additions. `AddCredit` keeps the credit `CreditBits` wide and wraps
as a release build does; a debug build panics instead.

**Actions.**

- **One iteration of `Active::poll`.** `garbage_collect` is an operator from the engine's state to the collected table, records and pending frames. Each poll action composes it with the branch the loop takes, in the code's priority:
  - `SendPendingFrame`;
  - `ReceiveCommand`;
  - `ReceiveFrame`, which goes through `on_frame`; a GoAway leads to `cleanup`;
  - `ReceiveEof`.

  `SocketError` is a failing read, write or flush, enabled only when `TransportFaults` holds.
- **Frame handlers.** `on_data`, `on_window_update` and `on_ping` map the engine's view to a `Result`: the records, the table, the frames to queue, and the new inbound ids. This keeps each handler a single expression with the code's early returns as nested IFs.
- **Facade.** `new_outbound` has three disjuncts: TooManyStreams, NoMoreStreamIds and success. The first two go through `OpenFailed`, the Err arm of `poll_new_outbound` (168-171), which runs `cleanup`. `close` is `poll_close` while Active. It goes through `Active_close` (431-433), which drops the stream table and hands everything else to `Closing_new` (`Closing::new`, closing.rs 26-37), whose driver starts in ClosingStreamReceiver. `DropConnection` models `Drop`.
  - `conn` ranges over `ConnectionStates`, the five variants of `enum ConnectionState` (314-325), `Poisoned` included.
  - An error of the Closing driver (`SocketError` while Closing) is returned to whichever facade call polled it, chosen from `FacadeCalls`. `ClosingFailed` gives the state that call leaves: `poll_new_outbound` and `poll_next_inbound` store Closed, while `poll_close` returns through `?` (270) and leaves the `Poisoned` placeholder. A Poisoned connection takes no poll step, because every `poll_*` panics there. The Closing driver, with the socket and the command receiver, was dropped on the way out, and `Drop` has nothing left to do (`DropConnection` only marks the connection gone).
- **Closing.** `CloseStreamReceiver`, `DrainStreamReceiver`, `StreamReceiverDrained`, `SendTermFrame`, `FlushPendingFrame`, `PendingFramesFlushed` and `CloseSocket` are one action per step of `Closing::poll`.
- **Cleanup.** `CleanupStep` models the Cleanup driver discarding one command (spec 4.8). `CleanupDone` is the facade's Cleanup arm (`poll_close` 282-292, and the same arm of the other two calls): once the channel is empty, the Cleanup future is Ready and `inner` becomes Closed.
- **Handles.** `HandleWrite`, `HandleRead`, `HandleClose` and `HandleDrop` model the handle (spec 4.6).
  - A write sends at most `min(credit, split_send_size)` units, or parks the writer when credit is 0.
  - A read takes the buffer, or parks the reader when the buffer is empty. Under OnRead it also queues the window update.
- **Transport.** `DiscardUnread(n)` is the transport of a node whose engine has dropped its socket (Cleanup, Closed or Poisoned): what the peer sends there is thrown away, so the peer's writes complete. Without it a live end writing to a closed one would block for ever, which a real socket does not do.
- **Who closes.** `close` is enabled only for the engines in `Closers`, so a run can let one end or both call `poll_close`.

**Data abstraction.**

- Byte counts are abstract units.
- A frame is a record of tag, flags, id and length. The length doubles as the credit, the nonce and the GoAway code.
- Ids are `1 .. 2^IdBits - 1`, and the id counter overflows at `2^IdBits`, as `u32::checked_add` does at `2^32`.
- `garbage_collect` visits dropped streams in increasing id order. The code's `IntMap` order is unspecified, but at the bounds used at most one stream is in the table, so the order makes no difference.

**MC modules.**

- `MCYamuxSingle.tla`: one client engine against an adversary.
- `MCYamuxPair.tla`: a client and a server engine of this code. `WindowUpdateMode` is a function of the engine, because each end has its own `Config`. `MCMixedModes` lets the client grant on receipt and the server grant on read, so one run covers both modes.

## 3. Runs

### Passing runs

| Run | cfg | Checks | States | Time |
|---|---|---|---|---|
| single_adversary | MCYamuxSingle.cfg | TypeOK, LocalIdsFresh, MonotonicState, CloseDrainsCommands, ErrorPathReleasesHandles | 6.0M | 2 min |
| pair | MCYamuxPair.cfg | NoProtocolError, NoLostWakeup, FlowRefinement | 3.7M | 2.3 min |
| close_one_side | MCYamuxClose.cfg | CloseCompletes, PeerEndWakesReaders | 82k | 1.5 min |

(Times are for 2 TLC workers.)

**What each property says.**

- **LocalIdsFresh.** An id that `new_outbound` hands out has never been used on the connection before, by either side (spec 8.1). It is an action property over the history variable `origin`. It fails if `next_stream_id` wraps the counter instead of reporting `NoMoreStreamIds` (mutant `next_stream_id_wrap`: with `IdBits = 2` the client opens 1 and 3, and after both are collected it is handed 1 again). It also fails if `is_valid_remote_id` lets a remote SYN of our parity take an id before we reach it.
- **MonotonicState.** A stream's state only moves towards Closed (spec 8.2), whichever of FIN, RST, garbage collection, cleanup and the handle's close changes it.
- **CloseDrainsCommands.** When Closing writes the GoAway(Normal), every command accepted before the channel closed has already been written, the channel is closed, and nothing is left in `pending_frames` to follow it.
- **ErrorPathReleasesHandles.** After any fatal error (GoAway, EOF, socket failure, refused open), every stream handed out is Closed, with no reader or writer parked (spec 7).
- **NoProtocolError.** Two engines of this code never send each other GoAway(ProtocolError). No data frame exceeds the receiver's window, and no SYN is duplicated or has the wrong parity.
- **NoLostWakeup.** A parked reader has an empty buffer on a readable stream, and a parked writer has no credit on a writable one. Otherwise nothing will wake them.
- **FlowRefinement.** Each direction of each stream between the two engines implements `CreditFlow!Spec` (see below).
- **CloseCompletes.** Once `poll_close` has made a connection Closing, it eventually becomes Closed (spec 4.7, S1).
- **PeerEndWakesReaders.** Once the remote's socket is shut, every reader parked on a live handle of an engine that does not close is eventually woken (spec 7, 8.6). The wake-up comes from the FIN, RST, GoAway or end of input still on its way. It needs the engine to keep reading, and `cleanup` to take the wakers. The mutant `drop_all_streams_nowake` closes the streams but keeps the wakers, and TLC finds a reader left parked forever. Engines that close are excluded because `Active::close` never wakes their readers (the `dangling_handles` run).

**The refinement.** `CreditFlow` has a phase and four counters for one direction of
one stream: the sender's `credit`, the receiver's `window`, the `data` in flight, and
the `grant` of window updates in flight. Its actions are Open, Send, Receive (with an
optional immediate grant), Discard, Grant, Absorb and Close. Every state keeps
`credit + data + grant <= window <= ReceiveWindow`, with equality until a frame is
discarded, so no data frame exceeds the window and no grant overflows it.
`YamuxConnection` maps, for sender `p`, receiver `q` and stream `id`:

- `phase` is open while `id` is in both engines' tables;
- `credit` is `st[p][id].credit`, and `window` is `st[q][id].window`;
- `data` is the length of the Data frames for `id` that `p` has not delivered (its SendFrame commands, its pending frames and its socket), summed with `FoldSeq`;
- `grant` is the same sum over `q`'s WindowUpdate frames for `id`.

`FlowRefinement` is the conjunction of these instances' `Spec`s, checked as a
`PROPERTY`. A write is Send, an `on_data` that raises the window is Receive, an OnRead
read is Grant, and `on_window_update` is Absorb. The mutant `Granted_forgot` queues a
window update without raising the window, and TLC finds the mapping broken within
1,000 states.

Each property has a mutant in PROJECT.json: a plausible bug in the code that TLC finds violates it.

**Frames for collected streams.** `garbage_collect` (connection.rs 884-894) drops a
half-closed stream without a RST when the remote still has credit, and its comment
says "we will reply with an RST in `Connection::on_data` because the stream will no
longer be known". `on_data` (698-712) no longer does that: since issue #110 it
ignores frames for unknown ids. The model follows the code (`UnknownStream`). No run
checks what this does to the remote. It would need two engines, a write after the
handle is dropped, and a liveness property for the remote's writer, which does not
fit in the time the pair run leaves. PROJECT.json lists it as an uncovered hazard.

### Violation runs

Each violation run below checks one property against `MCYamuxSingle`. Each shows a disagreement between the code and `spec.md` (PROJECT.json "findings").

| Run | Property | What the code does |
|---|---|---|
| poisoned_close | PoisonedUnreachable | `poll_close` matches Closing with `inner.poll_unpin(cx)?` (270). An I/O error while flushing the GoAway(Normal) or closing the socket returns early and leaves `self.inner` Poisoned, which spec 4.1 calls unreachable. The next poll panics on `unreachable!()`. |
| goaway_then_cleanup | GoAwayThenCleanup | Spec 7: "emit GoAway(ProtocolError), then Cleanup". `Action::Terminate` (580-583) only queues the GoAway, and the engine stays Active and may write after it. `cleanup` (438-442) drops the GoAway if a refused open, the remote's GoAway or EOF ends the engine before the socket has room. TLC's trace shows the drop. |
| inbound_accepted | InboundAccepted | Spec 3 invariants 2 and 4. `on_data` never checks the stream's state, so data after the remote's FIN (or its RST) is buffered at 687; TLC's shortest trace is FIN, then one data byte. Its `>=` check at 676 also runs before the push, so a buffer exceeds `max_buffer_size` by one frame (reached by the same property with FIN excluded: buffer 3, limit 2). |
| dangling_handles | NoDanglingHandles | `Active::close` (431-433) never closes or wakes the streams, so a parked reader outlives Closed (spec 8.6). |
| data_after_close | NoDataAfterClose | `garbage_collect` (912) queues RST/FIN ahead of the stream's data still in the channel. |
| lost_wakeup_fin | NoLostWakeup | `on_window_update` with FIN (772-777) wakes only the writer. |
| credit_wrap | CreditOnlySpent | Two window updates from the peer wrap the `u32` credit at 771, so credit drops with nothing written. |

Two violation runs use `MCYamuxPair`:

| Run | Property | What the code does |
|---|---|---|
| lost_syn | NoFinBeforeSyn | A stream whose SYN waits for the first data frame (spec 4.4) and is closed before any write sends FIN with only ACK (540). The remote never sees the stream. |
| close_both_sides | CloseCompletes | Both ends close with full transport buffers. `Closing` waits on `poll_ready` (closing.rs 74) and never reads, so neither reaches Closed. At `SocketCapacity = 1` TLC finds this in about a minute; the same lasso exists at capacity 2 (checked once, about 5 to 8 minutes, too slow for a standing run). |

### Bounds and why they suffice

Common to all runs:

- `IdBits = 2` makes the id space 1..3. The client's second id (3) already hits the overflow check, and the adversary can send ids of both parities. In the pair runs the server's first id (2) already overflows, so only the client opens streams (stream 1). The parity and duplicate-SYN halves of NoProtocolError are therefore reached only by its mutant there; the single run covers remote SYNs of both parities against LocalIdsFresh.
- `MaxNumStreams = 1` makes every max-streams branch reachable after one open.
- `MAX_COMMAND_BACKLOG = 1` and `SocketCapacity = 1` make the channel and the socket full after one element, so backpressure and the "socket not ready" fall-through are reached.
- `SplitSendSize = 1` splits a write into frames.

Single run:

- `DEFAULT_CREDIT = 2` and `ReceiveWindow = 3` give a positive `extra_credit`, so the outbound SYN goes as a WindowUpdate. The window-update threshold is 1.
- `MaxBufferSize = 2`.
- The adversary's 14 frames cover every branch of the three handlers: bad parity, oversized first body, duplicate SYN, max-streams, known and unknown ids, FIN, RST, Ping with and without ACK, and GoAway.
- `MaxInjected = 2` allows two frames per behaviour.

Pair runs:

- `DEFAULT_CREDIT = ReceiveWindow = 2`, so the SYN rides on the first data frame.
- The client writes up to 2 units per stream and the server up to 1. This is enough for a window update to be generated and consumed.
- In `pair` both ends write, and only the client may close. Letting both close as well (with both ends on OnReceive) takes it to 9.9M states and about 4 minutes without the refinement. Two ends closing together is the `close_both_sides` run.
- `close_one_side`: the client writes 1 unit and closes, and the server only reads. This is enough for the client's Closing to drain a command and send the GoAway while the server is still sending window updates and may drop its handle or the connection.
- `CreditBits = 2` makes the credit wrap at 4. Credits in the pair runs stay at or below 2, so only the adversary's window updates can wrap it.

Every action and every disjunct of `Next` fires in at least one passing run (checked with TLC's `-coverage`).

`FlowRefinement` tests first whether a direction is closed both before and after a step. Such a direction maps to the same closed state, so this is the same formula as the conjunction of the `Spec`s. It halves the cost of the check.

`CHECK_DEADLOCK FALSE` is set in each cfg for one reason: the only states without a successor are those where every node has stopped, with each engine Closed. That is the end of a connection, not a deadlock. `DropConnection` is enabled in every other state.

### Fairness

`Fairness` is weak fairness of each engine's `Poll` and of `DiscardUnread`.

- The executor polls a woken task, and the user keeps calling `poll_next_inbound` or `poll_close` until the connection reports its end (spec 5, "every source is polled").
- A dropped socket's kernel buffer keeps accepting and discarding bytes; it does not wait.

No fairness is assumed for the user's handle actions or for the adversary. `CloseCompletes` therefore holds only if Closing finishes whatever the user and the peer do.

## 4. Not modelled

- **The frame codec and header encoding.** These are not in the repository. A decode error is a `SocketError`.
- **Payload contents and `flush` of stream handles.** Only byte counts matter to the properties.
- **The connection `Id`, logging and `Debug` output.**
- **Refused opens.** Spec 4.1 says an error of open-outbound moves Active to Cleanup, and the code does this at 168. Spec 7 calls TooManyStreams and NoMoreStreamIds non-fatal. Because the spec contradicts itself and the code follows 4.1, this is not a finding. `ErrorPathReleasesHandles` checks that the teardown closes and wakes every stream.
- **Unbounded `pending_frames`.** Pongs and OnReceive window updates are pushed while the socket is not ready (574). The adversary's frames are bounded by `MaxInjected`, so the model cannot show unbounded growth. A bound on `pending` would only restate `MaxInjected`.
- **The test harness.** It is executor and TCP code. Its scenario (open, write, read back, close) is what the pair model runs at small bounds.

## 5. Plan for later sittings

Done since the first plan:

- Closing liveness (one side passes, both sides deadlock).
- Readers woken after the peer ends the connection.
- Credit as a `u32` (wraps).
- The refinement of flow control.
- The lost SYN.
- The GoAway that Cleanup drops.
- Unknown-id tolerance (spec 8.7).
- The Poisoned state left by a failed `poll_close`.
- Data accepted after FIN.

Still open:

1. **Progress under backpressure in the pair model.** Every command and every pending frame is eventually written or discarded (spec 1, 5). A leads-to on `pending_frames` was tried in `close_one_side`. At its bounds it held even with the loop changed to wait for the socket before reading, because the closer's driver always finishes its flush and its dropped socket then discards what the peer sends. So it said nothing about the code. It needs both ends Active with full buffers, a state space the standing runs cannot afford together with liveness.
2. **An abstract byte-stream specification.** Bytes are delivered in order, then EOF or reset, refined through the buffers and the wire.
