----------------------------- MODULE CreditFlow -----------------------------
(***************************************************************************)
(* What yamux flow control promises for one direction of one stream        *)
(* (spec 3, 5 and 8.3), with byte counts as units.                         *)
(*                                                                         *)
(*   credit  what the sender may still send                                *)
(*   data    bytes sent and not yet received                               *)
(*   window  what the receiver still accepts                               *)
(*   grant   credit granted by window updates not yet received             *)
(*                                                                         *)
(* While the stream is open on both ends, window = credit + data + grant:  *)
(* the sender never has more in flight than the receiver accepts, so no    *)
(* data frame exceeds the window.  A grant never raises the window past    *)
(* ReceiveWindow, and a receiver that discards a frame (a reset) only      *)
(* loses what it had room for.                                             *)
(***************************************************************************)
EXTENDS Naturals

CONSTANT ReceiveWindow

VARIABLES phase, credit, window, data, grant

vars == <<phase, credit, window, data, grant>>

Units == 0 .. ReceiveWindow

Init == phase = "closed" /\ credit = 0 /\ window = 0 /\ data = 0 /\ grant = 0

\* The stream becomes known at both ends, in any balanced state.
Open ==
  /\ phase = "closed" /\ phase' = "open"
  /\ {credit', data', grant'} \subseteq Units
  /\ window' = credit' + data' + grant' /\ window' <= ReceiveWindow

\* The sender spends credit on a data frame.
Send(n) ==
  /\ phase = "open" /\ 0 < n /\ n <= credit
  /\ credit' = credit - n /\ data' = data + n
  /\ UNCHANGED <<phase, window, grant>>

\* The receiver takes n units and at once may grant k back.
Receive(n, k) ==
  /\ phase = "open" /\ n <= data /\ window - n + k <= ReceiveWindow
  /\ data' = data - n /\ window' = window - n + k /\ grant' = grant + k
  /\ UNCHANGED <<phase, credit>>

\* The receiver drops n units it received (its buffer is full; it resets).
Discard(n) ==
  /\ phase = "open" /\ 0 < n /\ n <= data
  /\ data' = data - n
  /\ UNCHANGED <<phase, credit, window, grant>>

\* The receiver grants k more, later than the data that made room.
Grant(k) ==
  /\ phase = "open" /\ 0 < k /\ window + k <= ReceiveWindow
  /\ window' = window + k /\ grant' = grant + k
  /\ UNCHANGED <<phase, credit, data>>

\* The sender receives a grant of k.
Absorb(k) ==
  /\ phase = "open" /\ 0 < k /\ k <= grant
  /\ grant' = grant - k /\ credit' = credit + k
  /\ UNCHANGED <<phase, window, data>>

\* Either end forgets the stream.
Close ==
  /\ phase = "open"
  /\ phase' = "closed" /\ credit' = 0 /\ window' = 0 /\ data' = 0 /\ grant' = 0

Next ==
  \/ Open \/ Close
  \/ \E n \in Units : Send(n) \/ Discard(n) \/ \E k \in Units : Receive(n, k)
  \/ \E k \in Units : Grant(k) \/ Absorb(k)

Spec == Init /\ [][Next]_vars

\* What every state of Spec satisfies.
Balanced ==
  phase = "open" => credit + data + grant <= window /\ window <= ReceiveWindow

=============================================================================
