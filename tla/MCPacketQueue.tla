--------------------------- MODULE MCPacketQueue ---------------------------
(***************************************************************************)
(* Instances of PacketQueue: which thread makes which calls.               *)
(***************************************************************************)
EXTENDS PacketQueue, TLC

CONSTANTS t1, t2, t3

Make(kind, timed, force) == [kind |-> kind, timed |-> timed, force |-> force]

\* The queue of one decoder: the packet thread pushes against a deadline, forces
\* a push when a queue is empty and clears on a seek; the callers of get_frame
\* pop, with or without a deadline, and one of them closes the decoder.
DemuxerCalls ==
  t1 :> {Make("push", TRUE, FALSE), Make("push", TRUE, TRUE), Make("clear", FALSE, FALSE),
         Make("is_empty", FALSE, FALSE)}
  @@ t2 :> {Make("pop", FALSE, FALSE), Make("pop", TRUE, FALSE)}
  @@ t3 :> {Make("pop", FALSE, FALSE), Make("free", FALSE, FALSE)}

\* Pushers and poppers on both sides, some of which may time out: the use the
\* unit test makes of the queue (tests/ffmpeg_packet_queue.c:169).
BlockingCalls ==
  t1 :> {Make("push", FALSE, FALSE)}
  @@ t2 :> {Make("push", TRUE, FALSE), Make("pop", TRUE, FALSE)}
  @@ t3 :> {Make("pop", FALSE, FALSE), Make("pop", TRUE, FALSE)}
=============================================================================
