---------------------------- MODULE MCYamuxSingle ----------------------------
(* One client engine "A" against an adversary "B" that sends any frame.    *)
EXTENDS YamuxConnection

MCNodes == {"A", "B"}
MCEngines == {"A"}
MCMaxWritten == [p \in MCEngines |-> 1]
MCMode == [p \in MCEngines |-> "Client"]
MCOnReceive == [p \in MCEngines |-> "OnReceive"]

\* Frames for our stream id 1 and the remote's id 2: an inbound SYN within
\* and beyond the default credit, a SYN of our parity, data, a half-close
\* and a reset of either stream, window updates, pings and a GoAway.
MCAdversaryFrames ==
  { Frame("Data", {"SYN"}, 2, 1), Frame("Data", {"SYN"}, 2, 3), Frame("Data", {"SYN"}, 1, 0),
    Frame("Data", {}, 2, 2), Frame("Data", {}, 1, 1), Frame("Data", {"FIN"}, 1, 0),
    Frame("Data", {"RST"}, 1, 0), Frame("Data", {"RST"}, 2, 0),
    Frame("WindowUpdate", {"SYN"}, 2, 1), Frame("WindowUpdate", {}, 1, 1),
    Frame("WindowUpdate", {"FIN"}, 2, 0),
    Frame("Ping", {}, 0, 0), Frame("Ping", {"ACK"}, 0, 0), Frame("GoAway", {}, 0, 0) }
=============================================================================
