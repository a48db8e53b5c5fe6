------------------------------ MODULE Demuxer ------------------------------
(***************************************************************************)
(* A demuxer shared by several decoders (ffmpeg_demuxer.c), its packet     *)
(* thread (ffmpeg_demuxer_thread.c) and the threads that call get_frame,   *)
(* seek and close of the decoders (ffmpeg_decoder.c, ffmpeg.c).  While one *)
(* decoder is attached its caller reads the file itself; with more, a      *)
(* thread reads it and hands each packet to the queues of the decoders of  *)
(* its stream.  A queue is what PacketFifo says it is.  A failing open, and *)
(* closing in another order than that of the opens, are the subject of     *)
(* DecoderList: here opens succeed and the oldest decoder closes first.    *)
(***************************************************************************)
EXTENDS Integers, Sequences, FiniteSets

CONSTANTS
  Decoders,     \* decoders attached to the demuxer
  Opened,       \* the same in the order they are opened
  Streams,      \* streams of the file
  StreamOf,     \* decoder->stream_index
  File,         \* the stream of each packet of the file, in file order
  Capacity,     \* packet_queue_initial_capacity
  Faults,       \* which calls into the system may fail
  MaxSeeks      \* bound: seeks a run makes

Fault == {"create", "read", "seek", "push"}

ASSUME DecodersAssumption ==
  /\ IsFiniteSet(Decoders) /\ Decoders # {}
  /\ Opened \in Seq(Decoders)
  /\ Len(Opened) = Cardinality(Decoders)
  /\ \A d \in Decoders : \E i \in 1..Len(Opened) : Opened[i] = d
ASSUME FileAssumption ==
  File \in Seq(Streams) /\ StreamOf \in [Decoders -> Streams]
ASSUME BoundsAssumption ==
  Capacity \in Nat \ {0} /\ Faults \subseteq Fault /\ MaxSeeks \in Nat

None == -1                  \* seek_request without a request; no position
Blank == Len(File)          \* the position of a packet without data
Positions == 0 .. Len(File) - 1
SizeMax == -1               \* SIZE_MAX, which ++ takes to 0

\* A packet as the queues see it: where it was in the file, how many seeks
\* came before it, and whether it was made at the end of the file.
Packet == [pos : Positions \cup {Blank}, epoch : 0..MaxSeeks, eof : BOOLEAN]

VARIABLES
  list,       \* first_decoder .. last_decoder
  listLock,   \* the packet thread holds decoder_linked_list_mtx
  running, useThread, seekRequest, reachEof,  \* fields of the demuxer
  next,       \* where in the file av_read_frame goes on
  thread,     \* where the packet thread stands
  request,    \* its seek_req
  pending,    \* its has_pending_packet
  cur,        \* its current_packet
  idx,        \* its current_packet_idx
  force,      \* its force_push
  timeout,    \* its timeout
  at,         \* the decoder its loop over the list has come to
  lastIdx,    \* decoder->last_packet_idx
  queue,      \* decoder->packet_queue
  cap,        \* room in its AVFifo
  user,       \* where the thread that uses each decoder stands
  codec,      \* "open", or "drained" by a packet without data
  epoch,      \* history: seeks of the file so far
  asked,      \* history: seeks asked for so far
  target,     \* history: the last seek, until the decoder has a packet
  got         \* history: packets each decoder had since the file was last sought

demuxVars == <<running, useThread, seekRequest, reachEof, next>>
ctxVars   == <<request, pending, cur, idx, force, timeout, at>>
queueVars == <<lastIdx, queue, cap>>
userVars  == <<user, codec, target, got>>
vars == <<list, listLock, demuxVars, thread, ctxVars, queueVars, userVars, epoch, asked>>

DataAt(p) == [pos |-> p, epoch |-> epoch, eof |-> FALSE]
BlankNow(eof) == [pos |-> Blank, epoch |-> epoch, eof |-> eof]

Init ==
  /\ list = <<Head(Opened)>>
  /\ listLock = FALSE
  /\ running = FALSE /\ useThread = FALSE /\ seekRequest = None
  /\ reachEof = FALSE /\ next = 0
  /\ thread = "off"
  /\ request = None /\ pending = FALSE /\ idx = SizeMax
  /\ cur = [pos |-> Blank, epoch |-> 0, eof |-> FALSE]
  /\ force = FALSE /\ timeout = FALSE /\ at = 1
  /\ lastIdx = [d \in Decoders |-> SizeMax]
  /\ queue = [d \in Decoders |-> <<>>]
  /\ cap = [d \in Decoders |-> Capacity]
  /\ user = [d \in Decoders |-> IF d = Head(Opened) THEN "idle" ELSE "new"]
  /\ codec = [d \in Decoders |-> "open"]
  /\ target = [d \in Decoders |-> None]
  /\ got = [d \in Decoders |-> <<>>]
  /\ epoch = 0 /\ asked = 0

----------------------------------------------------------------------------
(* The packet thread: sve4_demuxer_thread_main and what it calls.          *)

Thread(from, to) == thread = from /\ thread' = to

\* The head of the main loop.  A request resets what was read so far.
LoopExit ==
  /\ Thread("top", "exited")
  /\ ~running
  /\ UNCHANGED <<list, listLock, demuxVars, ctxVars, queueVars, userVars, epoch, asked>>

\* Variants with a plausible mistake, here and below, stand before what they
\* vary; no run of the demuxer uses them.  A seek keeps the packet it has:
LoopSeekKeeping ==
  /\ Thread("top", "flush")
  /\ running /\ seekRequest # None
  /\ request' = seekRequest
  /\ reachEof' = FALSE
  /\ UNCHANGED <<list, listLock, running, useThread, seekRequest, next, pending, cur, idx,
                 force, timeout, at, queueVars, userVars, epoch, asked>>

\* Variant: a seek waits until the packet at hand is sent.
LoopSeekPolite ==
  /\ Thread("top", "flush")
  /\ running /\ seekRequest # None /\ ~pending
  /\ request' = seekRequest
  /\ reachEof' = FALSE
  /\ cur' = BlankNow(FALSE)
  /\ UNCHANGED <<list, listLock, running, useThread, seekRequest, next, pending, idx, force,
                 timeout, at, queueVars, userVars, epoch, asked>>

LoopSeek ==
  /\ Thread("top", "flush")
  /\ running /\ seekRequest # None
  /\ request' = seekRequest
  /\ pending' = FALSE /\ reachEof' = FALSE
  /\ cur' = BlankNow(FALSE)
  /\ UNCHANGED <<list, listLock, running, useThread, seekRequest, next, idx, force, timeout,
                 at, queueVars, userVars, epoch, asked>>

LoopRead ==
  /\ Thread("top", "scan")
  /\ running /\ seekRequest = None
  /\ UNCHANGED <<list, listLock, demuxVars, ctxVars, queueVars, userVars, epoch, asked>>

\* handle_seek_request: every queue is cleared under the list mutex.
FlushLock ==
  /\ Thread("flush", "clear")
  /\ ~listLock /\ listLock' = TRUE
  /\ at' = 1
  /\ UNCHANGED <<list, demuxVars, request, pending, cur, idx, force, timeout, queueVars,
                 userVars, epoch, asked>>

ClearQueue ==
  /\ thread = "clear" /\ at <= Len(list)
  /\ queue' = [queue EXCEPT ![list[at]] = <<>>]
  /\ lastIdx' = [lastIdx EXCEPT ![list[at]] = SizeMax]
  /\ at' = at + 1
  /\ UNCHANGED <<list, listLock, demuxVars, thread, request, pending, cur, idx, force,
                 timeout, cap, userVars, epoch, asked>>

FlushUnlock ==
  /\ Thread("clear", "seek")
  /\ at > Len(list)
  /\ listLock' = FALSE
  /\ UNCHANGED <<list, demuxVars, ctxVars, queueVars, userVars, epoch, asked>>

\* av_seek_frame with AVSEEK_FLAG_BACKWARD lands at or before the target.
SeekFile(target_) ==
  /\ next' \in 0..target_
  /\ epoch' = epoch + 1

ThreadSeek ==
  /\ Thread("seek", "sought")
  /\ SeekFile(request)
  /\ UNCHANGED <<list, listLock, running, useThread, seekRequest, reachEof, ctxVars,
                 queueVars, userVars, asked>>

ThreadSeekFails ==
  /\ Thread("seek", "exited")
  /\ "seek" \in Faults
  /\ UNCHANGED <<list, listLock, demuxVars, ctxVars, queueVars, userVars, epoch, asked>>

SeekDone ==
  /\ Thread("sought", "top")
  /\ seekRequest' = None
  /\ UNCHANGED <<list, listLock, running, useThread, reachEof, next, ctxVars, queueVars,
                 userVars, epoch, asked>>

\* needs_force_push: is some queue empty?  Only this thread fills them, so
\* looking at them one by one answers as looking at all at one moment does.
NeedsForcePush ==
  /\ Thread("scan", "read")
  /\ ~listLock
  /\ force' = (\E i \in 1..Len(list) : queue[list[i]] = <<>>)
  /\ UNCHANGED <<list, listLock, demuxVars, request, pending, cur, idx, timeout, at,
                 queueVars, userVars, epoch, asked>>

\* Variant: reading goes on behind the end of the file.
ReadFramePastEnd ==
  /\ Thread("read", "send")
  /\ IF reachEof \/ pending
       THEN UNCHANGED <<pending, cur, idx, next>>
       ELSE /\ pending' = TRUE
            /\ idx' = idx + 1
            /\ cur' = DataAt(next) /\ next' = next + 1
  /\ timeout' = FALSE
  /\ UNCHANGED <<list, listLock, running, useThread, seekRequest, reachEof, request, force,
                 at, queueVars, userVars, epoch, asked>>

\* read_frame.
ReadFrame ==
  /\ Thread("read", "send")
  /\ IF reachEof \/ pending
       THEN UNCHANGED <<pending, reachEof, cur, idx, next>>
       ELSE /\ pending' = TRUE
            /\ idx' = idx + 1
            /\ IF next < Len(File)
                 THEN cur' = DataAt(next) /\ next' = next + 1 /\ UNCHANGED reachEof
                 ELSE cur' = BlankNow(TRUE) /\ reachEof' = TRUE /\ UNCHANGED next
  /\ timeout' = FALSE
  /\ UNCHANGED <<list, listLock, running, useThread, seekRequest, request, force, at,
                 queueVars, userVars, epoch, asked>>

ReadFrameFails ==
  /\ Thread("read", "exited")
  /\ "read" \in Faults /\ ~reachEof /\ ~pending
  /\ UNCHANGED <<list, listLock, demuxVars, ctxVars, queueVars, userVars, epoch, asked>>

\* try_send_packet: the list mutex is held over all the pushes.
SendLock ==
  /\ Thread("send", "sending")
  /\ pending
  /\ ~listLock /\ listLock' = TRUE
  /\ at' = 1
  /\ UNCHANGED <<list, demuxVars, request, pending, cur, idx, force, timeout, queueVars,
                 userVars, epoch, asked>>

HasData(p) == p.pos # Blank
Here == list[at]

\* Variant: a packet tried again is sent again to those who have it.
SkipsStreamOnly(d) == HasData(cur) /\ File[cur.pos + 1] # StreamOf[d]

Skips(d) == \/ HasData(cur) /\ File[cur.pos + 1] # StreamOf[d]
            \/ idx = lastIdx[d]

SendSkip ==
  /\ thread = "sending" /\ at <= Len(list) /\ Skips(Here)
  /\ at' = at + 1
  /\ UNCHANGED <<list, listLock, demuxVars, thread, request, pending, cur, idx, force,
                 timeout, queueVars, userVars, epoch, asked>>

SendPush ==
  /\ thread = "sending" /\ at <= Len(list) /\ ~Skips(Here)
  /\ force \/ Len(queue[Here]) < cap[Here]
  /\ queue' = [queue EXCEPT ![Here] = Append(@, cur)]
  /\ cap' = [cap EXCEPT ![Here] = IF Len(queue[Here]) >= @ THEN @ + 2 ELSE @]
  /\ lastIdx' = [lastIdx EXCEPT ![Here] = idx]
  /\ at' = at + 1
  /\ UNCHANGED <<list, listLock, demuxVars, thread, request, pending, cur, idx, force,
                 timeout, userVars, epoch, asked>>

\* Variant: the packet is emptied after a timeout too.
SentAnyway(timedOut) ==
  /\ Thread("sending", "top")
  /\ listLock' = FALSE
  /\ timeout' = timedOut
  /\ pending' = TRUE
  /\ cur' = BlankNow(FALSE)
  /\ UNCHANGED <<list, demuxVars, request, idx, force, at, queueVars, userVars, epoch, asked>>

\* The loop over the decoders ends: at the end of the list, at a push whose
\* deadline passed (the packet stays pending) or at one that failed (it does
\* not).  The main loop then marks a packet pending after all, and empties it.
Sent(timedOut) ==
  /\ Thread("sending", "top")
  /\ listLock' = FALSE
  /\ timeout' = timedOut
  /\ pending' = TRUE
  /\ cur' = IF timedOut THEN cur ELSE BlankNow(FALSE)
  /\ UNCHANGED <<list, demuxVars, request, idx, force, at, queueVars, userVars, epoch, asked>>

SendEnd == at > Len(list) /\ Sent(FALSE)
SendTimeout == at <= Len(list) /\ ~Skips(Here) /\ Sent(TRUE)
SendFails == "push" \in Faults /\ at <= Len(list) /\ ~Skips(Here) /\ Sent(FALSE)

\* Nothing is pending: only after the end of the file was reached without the
\* thread, before the second decoder was opened.  The main loop marks the empty
\* packet pending all the same.
SendNothing ==
  /\ Thread("send", "top")
  /\ ~pending
  /\ pending' = TRUE
  /\ cur' = BlankNow(FALSE)
  /\ UNCHANGED <<list, listLock, demuxVars, request, idx, force, timeout, at, queueVars,
                 userVars, epoch, asked>>

ThreadStep ==
  \/ LoopExit \/ LoopSeek \/ LoopRead \/ FlushLock \/ ClearQueue \/ FlushUnlock
  \/ ThreadSeek \/ ThreadSeekFails \/ SeekDone \/ NeedsForcePush \/ ReadFrame
  \/ ReadFrameFails \/ SendLock \/ SendSkip \/ SendPush \/ SendEnd \/ SendTimeout
  \/ SendFails \/ SendNothing

----------------------------------------------------------------------------
(* The threads that use the decoders.                                      *)

User(d, from, to) == user[d] = from /\ user' = [user EXCEPT ![d] = to]

\* open of one more decoder (add_decoder): it gets a queue, and so does the one
\* that was alone before, even if that one has a queue with packets already.
\* The caller sees to it that nobody waits in the queue that is made anew.
Open(d) ==
  /\ User(d, "new", "idle")
  /\ \E k \in 1..Len(Opened) :
       Opened[k] = d /\ \A j \in 1..k - 1 : user[Opened[j]] # "new"
  /\ ~listLock /\ list # <<>>
  /\ list' = Append(list, d)
  /\ IF Len(list) = 1
       THEN /\ useThread => user[Head(list)] = "idle"
            /\ queue' = [queue EXCEPT ![Head(list)] = <<>>]
            /\ cap' = [cap EXCEPT ![Head(list)] = Capacity]
       ELSE UNCHANGED <<queue, cap>>
  /\ UNCHANGED <<listLock, demuxVars, thread, ctxVars, lastIdx, codec, target, got, epoch,
                 asked>>

\* get_frame: the codec has a frame, or is drained (EOF), or wants a packet.
GetFrame(d) ==
  /\ User(d, "idle", "read")
  /\ codec[d] = "open"
  /\ UNCHANGED <<list, listLock, demuxVars, thread, ctxVars, queueVars, codec, target, got,
                 epoch, asked>>

\* read_packet: the first reader that sees two decoders starts the thread.
StartThread(d) ==
  /\ user[d] = "read" /\ Len(list) > 1 /\ ~useThread
  /\ useThread' = TRUE /\ running' = TRUE
  /\ \/ thread' = "top" /\ UNCHANGED user
     \/ "create" \in Faults /\ User(d, "read", "idle") /\ UNCHANGED thread
  /\ UNCHANGED <<list, listLock, seekRequest, reachEof, next, ctxVars, queueVars, codec,
                 target, got, epoch, asked>>

\* A packet goes into the codec, which has then a frame or wants another.
\* The packet without data drains it for good: nothing ever flushes it.
Feed(d, p) ==
  /\ IF HasData(p)
       THEN /\ user' \in {[user EXCEPT ![d] = where] : where \in {"idle", "read"}}
            /\ UNCHANGED codec
       ELSE /\ user' = [user EXCEPT ![d] = "idle"]
            /\ codec' = [codec EXCEPT ![d] = "drained"]
  /\ got' = [got EXCEPT ![d] = IF @ = <<>> \/ @[1].epoch = p.epoch THEN Append(@, p) ELSE <<p>>]
  /\ target' = [target EXCEPT ![d] = None]

Pop(d) ==
  /\ user[d] = "read" /\ useThread
  /\ queue[d] # <<>>
  /\ Feed(d, Head(queue[d]))
  /\ queue' = [queue EXCEPT ![d] = Tail(@)]
  /\ UNCHANGED <<list, listLock, demuxVars, thread, ctxVars, lastIdx, cap, epoch, asked>>

\* The deadline of get_frame passes.
PopTimeout(d) ==
  /\ User(d, "read", "idle")
  /\ useThread
  /\ UNCHANGED <<list, listLock, demuxVars, thread, ctxVars, queueVars, codec, target, got,
                 epoch, asked>>

\* Without the thread the caller reads the file.  The first end of file is a
\* success without a packet; whose stream a packet is of is not looked at.
Alone(d) == user[d] = "read" /\ ~useThread /\ Len(list) = 1

ReadDirect(d) ==
  /\ Alone(d)
  /\ next < Len(File)
  /\ next' = next + 1
  /\ Feed(d, DataAt(next))
  /\ UNCHANGED <<list, listLock, running, useThread, seekRequest, reachEof, thread, ctxVars,
                 queueVars, epoch, asked>>

ReadDirectEof(d) ==
  /\ Alone(d)
  /\ next = Len(File)
  /\ IF reachEof THEN User(d, "read", "idle") /\ UNCHANGED <<codec, target, got>>
                 ELSE Feed(d, BlankNow(TRUE))
  /\ reachEof' = TRUE
  /\ UNCHANGED <<list, listLock, running, useThread, seekRequest, next, thread, ctxVars,
                 queueVars, epoch, asked>>

ReadDirectFails(d) ==
  /\ Alone(d)
  /\ "read" \in Faults
  /\ User(d, "read", "idle")
  /\ UNCHANGED <<list, listLock, demuxVars, thread, ctxVars, queueVars, codec, target, got,
                 epoch, asked>>

\* Every decoder follows the seek, from its next get_frame on.
Aim(pos) == target' = [d \in Decoders |-> IF user[d] = "idle" THEN pos ELSE None]

\* Variant: the seek is left to the thread, whether there is one or not.
SeekAsked(d, pos) ==
  /\ user[d] = "idle"
  /\ asked < MaxSeeks /\ asked' = asked + 1
  /\ seekRequest' = pos
  /\ Aim(pos)
  /\ UNCHANGED <<list, listLock, running, useThread, reachEof, next, thread, ctxVars,
                 queueVars, user, codec, got, epoch>>

\* seek returns at once when there is a thread to do it.
Seek(d, pos) ==
  /\ user[d] = "idle"
  /\ asked < MaxSeeks /\ asked' = asked + 1
  /\ \/ /\ useThread
        /\ seekRequest' = pos
        /\ Aim(pos)
        /\ UNCHANGED <<reachEof, next, epoch>>
     \/ /\ ~useThread
        /\ reachEof' = FALSE
        /\ \/ SeekFile(pos) /\ Aim(pos)
           \/ "seek" \in Faults /\ UNCHANGED <<next, epoch, target>>
        /\ UNCHANGED seekRequest
  /\ UNCHANGED <<list, listLock, running, useThread, thread, ctxVars, queueVars, user, codec,
                 got>>

\* close: unlink the decoder, then free its queue and give up its reference
\* to the demuxer.  The last reference stops the thread and joins it.
Close(d) ==
  /\ User(d, "idle", "unlinked")
  /\ ~listLock
  /\ list # <<>> /\ d = Head(list)
  /\ list' = Tail(list)
  /\ UNCHANGED <<listLock, demuxVars, thread, ctxVars, queueVars, codec, target, got, epoch,
                 asked>>

\* Variant: the thread is joined and not told to stop.
UnrefRunning(d) ==
  /\ queue' = [queue EXCEPT ![d] = <<>>]
  /\ IF \A e \in Decoders \ {d} : user[e] \in {"new", "closed"}
       THEN User(d, "unlinked", "joining")
       ELSE User(d, "unlinked", "closed")
  /\ UNCHANGED <<list, listLock, demuxVars, thread, ctxVars, lastIdx, cap, codec, target,
                 got, epoch, asked>>

Unref(d) ==
  /\ queue' = [queue EXCEPT ![d] = <<>>]
  /\ IF \A e \in Decoders \ {d} : user[e] \in {"new", "closed"}
       THEN User(d, "unlinked", "joining") /\ running' = FALSE
       ELSE User(d, "unlinked", "closed") /\ UNCHANGED running
  /\ UNCHANGED <<list, listLock, useThread, seekRequest, reachEof, next, thread, ctxVars,
                 lastIdx, cap, codec, target, got, epoch, asked>>

Join(d) ==
  /\ User(d, "joining", "closed")
  /\ thread \in {"off", "exited"}
  /\ UNCHANGED <<list, listLock, demuxVars, thread, ctxVars, queueVars, codec, target, got,
                 epoch, asked>>

UserStep(d) ==
  \/ StartThread(d) \/ Pop(d) \/ PopTimeout(d) \/ ReadDirect(d) \/ ReadDirectEof(d)
  \/ ReadDirectFails(d) \/ Unref(d) \/ Join(d)

Next ==
  \/ ThreadStep
  \/ \E d \in Decoders : \/ Open(d) \/ GetFrame(d) \/ UserStep(d) \/ Close(d)
                         \/ \E pos \in Positions : Seek(d, pos)

\* Every decoder is closed and the demuxer is gone.
Finished == (\A d \in Decoders : user[d] \in {"new", "closed"}) /\ UNCHANGED vars

Spec == Init /\ [][Next \/ Finished]_vars

\* The packet thread keeps running (a push ends at its deadline at the latest),
\* and so does close once entered.  Nothing is assumed of the callers.
Fairness ==
  /\ WF_vars(ThreadStep)
  /\ \A d \in Decoders : WF_vars(Unref(d)) /\ WF_vars(Join(d))

FairSpec == Spec /\ Fairness

----------------------------------------------------------------------------
ThreadStates == {"off", "top", "flush", "clear", "seek", "sought", "scan", "read", "send",
                 "sending", "exited"}
UserStates == {"new", "idle", "read", "unlinked", "joining", "closed"}

TypeOK ==
  /\ list \in Seq(Decoders)
  /\ listLock \in BOOLEAN
  /\ running \in BOOLEAN /\ useThread \in BOOLEAN /\ reachEof \in BOOLEAN
  /\ seekRequest \in Positions \cup {None} /\ request \in Positions \cup {None}
  /\ next \in 0..Len(File)
  /\ thread \in ThreadStates
  /\ pending \in BOOLEAN /\ force \in BOOLEAN /\ timeout \in BOOLEAN
  /\ cur \in Packet
  /\ idx \in Nat \cup {SizeMax} /\ at \in 1..Len(Opened) + 1
  /\ lastIdx \in [Decoders -> Nat \cup {SizeMax}]
  /\ queue \in [Decoders -> Seq(Packet)]
  /\ cap \in [Decoders -> Nat]
  /\ user \in [Decoders -> UserStates]
  /\ codec \in [Decoders -> {"open", "drained"}]
  /\ target \in [Decoders -> Positions \cup {None}]
  /\ got \in [Decoders -> Seq(Packet)]
  /\ epoch \in 0..MaxSeeks /\ asked \in 0..MaxSeeks

Members(s) == {s[i] : i \in 1..Len(s)}
OfStream(d, p) == HasData(p) => File[p.pos + 1] = StreamOf[d]

\* Once the file has been sought, no packet from before is left in the queue
\* of an attached decoder, though the callers go on popping while the queues
\* are cleared one by one.
Fresh == \A d \in Members(list) : \A p \in Members(queue[d]) : p.epoch = epoch

\* What a decoder has had since the file was last sought, and will have next.
Sequence(d) == (IF got[d] # <<>> /\ got[d][1].epoch = epoch THEN got[d] ELSE <<>>) \o queue[d]

\* A decoder has each packet of the file at most once and in file order, and
\* none after the packet that ends its stream: a push that is tried again after
\* a timeout does not give a decoder the packet twice.  What waits in its queue
\* is of its stream, whatever timed out at which decoder in between.
Ordered ==
  \A d \in Decoders :
    /\ \A p \in Members(queue[d]) : OfStream(d, p)
    /\ \A i, j \in 1..Len(Sequence(d)) :
         i < j /\ HasData(Sequence(d)[j]) => Sequence(d)[i].pos < Sequence(d)[j].pos

\* A packet with data leaves the thread's hands only when every decoder of its
\* stream has it, or a seek makes it void: a timeout never drops it.  (A push
\* that fails for want of memory does.)
NoDrop ==
  [][HasData(cur) /\ cur' # cur =>
       \/ thread = "top" /\ seekRequest # None
       \/ \A d \in Members(list) : OfStream(d, cur) => lastIdx[d] = idx]_vars

\* As long as the callers read the file themselves, the first packet that a
\* decoder has after a seek is not from behind the target.  (With the thread
\* it may be from before the seek: seek returns when it has only been asked.)
SeekLands ==
  [][~useThread' =>
       \A d \in Decoders :
         got'[d] # got[d] /\ target[d] # None =>
           LET p == got'[d][Len(got'[d])] IN HasData(p) => p.pos <= target[d]]_vars

\* Closing the last decoder returns: the thread it joins never stays in a push
\* to a full queue or in a seek.
ShutdownEnds ==
  (\E d \in Decoders : user[d] = "joining")
    ~> (\A d \in Decoders : user[d] \in {"new", "closed"})

\* A seek request is taken up, however full the queues are, unless the thread
\* never started or gave up at a file that cannot be read.
SeekHandled ==
  (seekRequest # None) ~> (seekRequest = None \/ ~running \/ thread \in {"off", "exited"})

\* "-1 => no seek, >= 0 -> seek requested" (ffmpeg_demuxer.h:32): the request
\* that is withdrawn is the one that was carried out.
SeekNotLost ==
  [][seekRequest # None /\ seekRequest' = None => seekRequest = request]_vars

\* "NULL packet means EOF" (ffmpeg_demuxer_thread.c:32): a packet without data
\* in a queue was made at the end of the file.
BlankMeansEof == \A d \in Decoders : \A p \in Members(queue[d]) : HasData(p) \/ p.eof
=============================================================================
