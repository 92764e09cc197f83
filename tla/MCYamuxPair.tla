----------------------------- MODULE MCYamuxPair -----------------------------
(* Two engines of this code, client "A" and server "B", on one transport. *)
EXTENDS YamuxConnection

MCNodes == {"A", "B"}
MCEngines == {"A", "B"}
\* A writes enough to exhaust its credit; B answers with one byte, or not at all.
MCMaxWritten == [p \in MCEngines |-> IF p = "A" THEN 2 ELSE 1]
MCMaxWrittenOneWay == [p \in MCEngines |-> IF p = "A" THEN 2 ELSE 0]
\* The client writes one byte and closes; the server only reads.
MCMaxWrittenClose == [p \in MCEngines |-> IF p = "A" THEN 1 ELSE 0]
MCMode == [p \in MCEngines |-> IF p = "A" THEN "Client" ELSE "Server"]
MCOnReceive == [p \in MCEngines |-> "OnReceive"]
\* Each end has its own config: the client grants on receipt, the server
\* on read.
MCMixedModes == [p \in MCEngines |-> IF p = "A" THEN "OnReceive" ELSE "OnRead"]
MCAdversaryFrames == {}
\* Only the client calls poll_close.
MCCloserA == {"A"}
=============================================================================
