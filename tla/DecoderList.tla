---------------------------- MODULE DecoderList ----------------------------
(***************************************************************************)
(* Opening and closing decoders of one shared demuxer: the linked list     *)
(* (ffmpeg_demuxer.c, add_decoder), the way out of a failed open and the   *)
(* close (ffmpeg.c), the reference count that keeps the demuxer alive and  *)
(* the initialisation of the packet queues.  Calls on different decoders   *)
(* may run on different threads; the list mutex covers what the code puts  *)
(* under it, and each action is one stretch of code between two of its     *)
(* locks, unlocks and changes of the reference count.                      *)
(***************************************************************************)
EXTENDS Integers, FiniteSets, SequencesExt

CONSTANTS
  Decoders,     \* decoder objects, each opened at most once
  Null,         \* the null pointer
  AnyOrder,     \* callers close decoders in any order, or oldest first
  MayFail       \* whatever an open does may fail

ASSUME DecodersAssumption ==
  /\ IsFiniteSet(Decoders) /\ Null \notin Decoders
  /\ AnyOrder \in BOOLEAN /\ MayFail \in BOOLEAN

VARIABLES
  demuxer,      \* "none", "alive" or "destroyed"
  refs,         \* its reference count
  first, last,  \* demuxer->first_decoder, last_decoder
  prev, succ,   \* decoder->prev, decoder->next
  queue,        \* decoder->packet_queue.queue is there
  lost,         \* history: FIFOs that nobody points to any more
  pc,           \* where the open or close of each decoder stands
  own,          \* the decoder's open made the demuxer (config->demuxer is NULL)
  order,        \* history: decoders linked and not unlinked, oldest first
  misused,      \* history: the demuxer was used after its destruction
  tidy          \* history: no open failed past the stream choice, the oldest closed first

listVars == <<demuxer, refs, first, last, prev, succ, queue, lost, pc, own, order, misused, tidy>>
list == <<first, last, prev, succ>>
queues == <<queue, lost>>

Linked(d) == \E i \in 1..Len(order) : order[i] = d

\* The decoders but d, which is in the list or not.
Without(d) ==
  IF Linked(d) THEN RemoveAt(order, CHOOSE i \in 1..Len(order) : order[i] = d) ELSE order

ListInit ==
  /\ demuxer = "none" /\ refs = 0
  /\ first = Null /\ last = Null
  /\ prev = [d \in Decoders |-> Null] /\ succ = [d \in Decoders |-> Null]
  /\ queue = [d \in Decoders |-> FALSE] /\ lost = 0
  /\ pc = [d \in Decoders |-> "none"]
  /\ own = [d \in Decoders |-> FALSE]
  /\ order = <<>>
  /\ misused = FALSE
  /\ tidy = TRUE

Move(d, from, to) == pc[d] = from /\ pc' = [pc EXCEPT ![d] = to]

\* Every use of the demuxer's memory after its destructor ran.
Uses == misused' = (misused \/ demuxer = "destroyed")

\* sve4_buffer_unref of the demuxer; the destructor runs at the last one.
Unref(n) ==
  /\ refs' = refs - n
  /\ demuxer' = IF refs > 0 /\ refs - n <= 0 THEN "destroyed" ELSE demuxer
  /\ misused' = (misused \/ refs < n)

----------------------------------------------------------------------------
(* Open.  One that opens the demuxer itself and fails before               *)
(* open_decoder_inner (memory, stream choice) puts everything back: it is  *)
(* a step that changes nothing.                                            *)

\* The first decoder opens the demuxer, which has one reference then.
OpenOwn(d) ==
  /\ Move(d, "none", "inner")
  /\ demuxer = "none" /\ demuxer' = "alive"
  /\ refs' = 1
  /\ own' = [own EXCEPT ![d] = TRUE]
  /\ UNCHANGED <<list, queues, order, misused, tidy>>

\* Variants with a plausible mistake, here and below, stand before what they
\* vary; no run uses them.  The demuxer of another decoder is used and not referenced.
OpenUncounted(d) ==
  /\ Move(d, "none", "inner")
  /\ demuxer = "alive"
  /\ \E e \in Decoders : pc[e] = "open"
  /\ UNCHANGED <<demuxer, refs, list, queues, own, order, misused, tidy>>

\* The others get it from an open decoder, with a reference of their own.
OpenShared(d) ==
  /\ Move(d, "none", "inner")
  /\ demuxer = "alive"
  /\ \E e \in Decoders : pc[e] = "open"
  /\ refs' = refs + 1
  /\ UNCHANGED <<demuxer, list, queues, own, order, misused, tidy>>

\* A failure before open_decoder_inner leaves the reference that was passed
\* where it is: the caller has it still, and nobody else gives it up.
OpenRefused(d) ==
  /\ MayFail
  /\ Move(d, "none", "kept")
  /\ demuxer = "alive"
  /\ \E e \in Decoders : pc[e] = "open"
  /\ refs' = refs + 1
  /\ UNCHANGED <<demuxer, list, queues, own, order, misused, tidy>>

\* The caller opens with it again, or gives it up (or keeps it for ever).
OpenAgain(d) ==
  /\ Move(d, "kept", "inner")
  /\ Uses
  /\ UNCHANGED <<demuxer, refs, list, queues, own, order, tidy>>

GiveUp(d) ==
  /\ Move(d, "kept", "closed")
  /\ Unref(1)
  /\ UNCHANGED <<list, queues, own, order, tidy>>

\* Variant: only the new decoder gets a queue.
NeedOwnQueue(d) == IF first = Null THEN {} ELSE {d}

\* add_decoder: with a decoder there already the new one needs a queue, and
\* so does the other if it is alone (even when it has one from before).
NeedQueue(d) ==
  IF first = Null THEN {} ELSE IF first = last THEN {first, d} ELSE {d}

\* The memset of packet_queue_init takes no notice of a FIFO that is there.
Overwrite(ds) == lost' = lost + Cardinality({e \in ds : queue[e]})

Add(d) ==
  /\ Move(d, "inner", "open")
  /\ Overwrite(NeedQueue(d))
  /\ queue' = [e \in Decoders |-> queue[e] \/ e \in NeedQueue(d)]
  /\ IF last # Null THEN succ' = [succ EXCEPT ![last] = d] /\ UNCHANGED first
                    ELSE first' = d /\ UNCHANGED succ
  /\ last' = d
  /\ order' = Append(order, d)
  /\ Uses
  /\ UNCHANGED <<demuxer, refs, prev, own, tidy>>

\* The codec cannot be opened.  open_decoder_inner closes the decoder, though
\* it is not linked; open_decoder drops it, which closes it again.
CodecFails(d) ==
  /\ MayFail
  /\ Move(d, "inner", "unwind")
  /\ tidy' = FALSE
  /\ Uses
  /\ UNCHANGED <<demuxer, refs, list, queues, own, order>>

\* Variant: the other's queue is left alone, whichever of the two fails.
AddFailsKeeping(d) ==
  /\ MayFail /\ first # Null
  /\ Move(d, "inner", "unwind")
  /\ tidy' = FALSE
  /\ Overwrite(IF first = last THEN {first} ELSE {})
  /\ UNCHANGED queue
  /\ Uses
  /\ UNCHANGED <<demuxer, refs, list, own, order>>

\* add_decoder fails at a queue.  A decoder that was alone has none then, be
\* it that its own could not be made again or that it is freed again: what was
\* queued in the one from before is gone with it.
AddFails(d) ==
  /\ MayFail /\ first # Null
  /\ Move(d, "inner", "unwind")
  /\ tidy' = FALSE
  /\ LET alone == IF first = last THEN {first} ELSE {}
     IN /\ Overwrite(alone)
        /\ queue' = [e \in Decoders |-> queue[e] /\ e \notin alone]
  /\ Uses
  /\ UNCHANGED <<demuxer, refs, list, own, order>>

----------------------------------------------------------------------------
(* close_decoder_inner: unlink under the mutex, then free the queue, then  *)
(* give up the reference.                                                  *)

\* Variant: the last decoder to go leaves last_decoder behind.
UnlinkFront(d) ==
  /\ IF prev[d] # Null THEN succ' = [succ EXCEPT ![prev[d]] = succ[d]] /\ UNCHANGED first
                       ELSE first' = succ[d] /\ UNCHANGED succ
  /\ IF succ[d] # Null THEN prev' = [prev EXCEPT ![succ[d]] = prev[d]] ELSE UNCHANGED prev
  /\ order' = Without(d)
  /\ Uses
  /\ UNCHANGED last

Unlink(d) ==
  /\ IF prev[d] # Null THEN succ' = [succ EXCEPT ![prev[d]] = succ[d]] /\ UNCHANGED first
                       ELSE first' = succ[d] /\ UNCHANGED succ
  /\ IF succ[d] # Null THEN prev' = [prev EXCEPT ![succ[d]] = prev[d]] /\ UNCHANGED last
                       ELSE last' = prev[d] /\ UNCHANGED prev
  /\ order' = Without(d)
  /\ Uses

CloseInner(d) ==
  /\ Move(d, "open", "unlinked")
  /\ AnyOrder \/ d = Head(order)
  /\ tidy' = (tidy /\ d = Head(order))
  /\ Unlink(d)
  /\ UNCHANGED <<demuxer, refs, queues, own>>

\* Variant: close keeps its reference.
ReleaseNothing(d) ==
  /\ Move(d, "unlinked", "closed")
  /\ queue' = [queue EXCEPT ![d] = FALSE]
  /\ UNCHANGED <<demuxer, refs, misused, list, lost, own, order, tidy>>

Release(d) ==
  /\ Move(d, "unlinked", "closed")
  /\ queue' = [queue EXCEPT ![d] = FALSE]
  /\ Unref(1)
  /\ UNCHANGED <<list, lost, own, order, tidy>>

UnwindInner(d) ==
  /\ Move(d, "unwind", "unwound")
  /\ Unlink(d)
  /\ UNCHANGED <<demuxer, refs, queues, own, tidy>>

UnwindRelease(d) ==
  /\ Move(d, "unwound", "destruct")
  /\ queue' = [queue EXCEPT ![d] = FALSE]
  /\ Unref(1)
  /\ UNCHANGED <<list, lost, own, order, tidy>>

UnwindAgain(d) ==
  /\ Move(d, "destruct", "destructed")
  /\ Unlink(d)
  /\ UNCHANGED <<demuxer, refs, queues, own, tidy>>

\* The demuxer an open made for itself is given up a third time.
UnwindLast(d) ==
  /\ Move(d, "destructed", "closed")
  /\ Unref(IF own[d] THEN 2 ELSE 1)
  /\ UNCHANGED <<list, queues, own, order, tidy>>

Finished == (\A d \in Decoders : pc[d] \in {"none", "kept", "closed"}) /\ UNCHANGED listVars

ListNext ==
  \/ \E d \in Decoders :
       \/ OpenOwn(d) \/ OpenShared(d) \/ OpenRefused(d) \/ OpenAgain(d) \/ GiveUp(d)
       \/ Add(d) \/ CodecFails(d) \/ AddFails(d)
       \/ CloseInner(d) \/ Release(d)
       \/ UnwindInner(d) \/ UnwindRelease(d) \/ UnwindAgain(d) \/ UnwindLast(d)
  \/ Finished

ListSpec == ListInit /\ [][ListNext]_listVars

----------------------------------------------------------------------------
Pointer == Decoders \cup {Null}
Stages == {"none", "kept", "inner", "open", "unlinked", "closed",
           "unwind", "unwound", "destruct", "destructed"}

ListTypeOK ==
  /\ demuxer \in {"none", "alive", "destroyed"}
  /\ refs \in Int
  /\ first \in Pointer /\ last \in Pointer
  /\ prev \in [Decoders -> Pointer] /\ succ \in [Decoders -> Pointer]
  /\ queue \in [Decoders -> BOOLEAN] /\ lost \in Nat
  /\ pc \in [Decoders -> Stages]
  /\ own \in [Decoders -> BOOLEAN]
  /\ order \in Seq(Decoders)
  /\ misused \in BOOLEAN /\ tidy \in BOOLEAN

\* The list the packet thread walks is the decoders that are open, each once
\* and in the order they were added, whatever opens and closes run at once (as
\* long as opens succeed and the oldest decoder closes first).
ListIsOpenDecoders ==
  tidy =>
    /\ first = IF order = <<>> THEN Null ELSE Head(order)
    /\ last = IF order = <<>> THEN Null ELSE order[Len(order)]
    /\ \A i \in 1..Len(order) :
         succ[order[i]] = IF i = Len(order) THEN Null ELSE order[i + 1]

\* Decoders with a reference, and callers that are left with the one they passed.
Holders ==
  {d \in Decoders : pc[d] \in {"kept", "inner", "open", "unlinked", "unwind", "unwound"}}

\* On no way out of a failed open, and in no order of closes, is a reference
\* left that nobody holds (once none is held the demuxer is gone), or a queue
\* of a decoder that has given up its own.  A FIFO is lost only where a decoder
\* is left alone with it and joined again (line 175 overwrites it): there are
\* never more of those than decoders that closed.
NothingLeaks ==
  /\ refs <= Cardinality(Holders)
  /\ Holders = {} => demuxer # "alive"
  /\ \A d \in Decoders : pc[d] = "closed" => ~queue[d]
  /\ lost <= Cardinality({d \in Decoders : pc[d] \in {"unlinked", "closed"}})

\* From two decoders on (when the packet thread may start, and after it has)
\* every decoder in the list has a queue for the thread to fill.
QueuesReady == tidy /\ first # last => \A d \in Decoders : Linked(d) => queue[d]

\* "assert(demuxer->first_decoder == NULL && demuxer->last_decoder == NULL)"
\* (ffmpeg_demuxer.c:40) when the demuxer is destroyed.
EmptyWhenDestroyed == demuxer = "destroyed" => first = Null /\ last = Null

\* "these decoders hold a reference to the demuxer, so they must be freed
\* first" (ffmpeg_demuxer.c:39): no open decoder's demuxer is destroyed, and
\* nothing uses it afterwards.
FreedFirst ==
  /\ demuxer = "destroyed" => \A d \in Decoders : pc[d] # "open"
  /\ ~misused

\* On the calls that the tests make both hold, and the reference count is the
\* number of decoders that have yet to give up theirs: no open or close,
\* whatever runs with it, takes one too many or leaves one.
RefsAreHolders == tidy => refs = Cardinality(Holders) /\ EmptyWhenDestroyed /\ FreedFirst
=============================================================================
