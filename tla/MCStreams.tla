----------------------------- MODULE MCStreams ------------------------------
(***************************************************************************)
(* What is checked of streams: the events that a response is made of, from *)
(* Segment to StreamClient, and the lines that bytes are cut into, in      *)
(* LineReaders.  The two share no variable and every property is of one of *)
(* them, so that a behaviour here has steps of one and the other stays at  *)
(* its beginning: their interleavings would show nothing more.             *)
(***************************************************************************)
EXTENDS StreamClient, LineReaders

VARIABLE part   \* which of the two this behaviour is about

StreamsInit == ClientInit /\ ReadersInit /\ part \in {"events", "lines"}

StreamsNext ==
    /\ UNCHANGED part
    /\ \/ part = "events" /\ BothNext /\ UNCHANGED readers
       \/ part = "lines" /\ ReadersNext /\ UNCHANGED both

StreamsSpec == StreamsInit /\ [][StreamsNext]_<<both, readers, part>>

=============================================================================
