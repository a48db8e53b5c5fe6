---------------------------- MODULE PacketQueue ----------------------------
(***************************************************************************)
(* The blocking packet queue of libsve4_decode/ffmpeg_packet_queue.c: one  *)
(* mutex, two condition variables and an AVFifo that grows on demand.      *)
(* A call is a sequence of steps of its thread; everything between taking  *)
(* and releasing the mutex is one step per statement that changes shared   *)
(* state, so that a deadline may pass between any two of them.             *)
(***************************************************************************)
EXTENDS Naturals, Sequences, FiniteSets

CONSTANTS
  Threads,        \* the threads that share the queue
  Packets,        \* AVPacket objects; a freed one may be allocated again
  Capacity,       \* initial_capacity of sve4_ffmpeg_packet_queue_init
  AutoGrowLimit,  \* AVFifo.auto_grow_limit (1 MiB of pointers in FFmpeg)
  Calls,          \* the calls each thread may make
  NoThread,       \* the mutex is free
  NoPacket        \* the call carries no packet

Call == [kind  : {"push", "pop", "is_empty", "clear", "free"},
         timed : BOOLEAN,         \* time_point != NULL
         force : BOOLEAN]         \* force_push

NoCall == [kind |-> "is_empty", timed |-> FALSE, force |-> FALSE]

ASSUME ThreadsAssumption  == IsFiniteSet(Threads) /\ NoThread \notin Threads
ASSUME PacketsAssumption  == NoPacket \notin Packets
ASSUME CapacityAssumption == Capacity \in Nat /\ AutoGrowLimit \in Nat
ASSUME CallsAssumption    == Calls \in [Threads -> SUBSET Call]

VARIABLES
  live,    \* queue->queue != NULL: initialised and not yet freed
  mutex,   \* the thread that holds queue->mutex
  fifo,    \* contents of queue->queue, oldest first
  cap,     \* elements the AVFifo has room for
  pc,      \* where each thread stands in its call
  call,    \* the call each thread is making
  arg,     \* the packet being pushed
  held,    \* packets each thread owns
  untold   \* history: sides, of which a sleeper was not told of what it waits for

vars == <<live, mutex, fifo, cap, pc, call, arg, held, untold>>

\* "wait" is inside cnd_wait, not yet signalled; "woken" and "expired" have
\* left the condition variable and still have to take the mutex back.
PC == {"idle", "lock", "check", "wait", "woken", "expired", "move", "signal",
       "drain", "fail", "unlock", "destroy"}

\* The steps a thread takes with the mutex held.
Critical == {"check", "move", "signal", "drain", "fail", "unlock"}

Contents == {fifo[i] : i \in 1..Len(fifo)}
Allocated == Contents \cup UNION {held[t] : t \in Threads}

At(t, where) == pc[t] \in where
Goto(t, where) == pc' = [pc EXCEPT ![t] = where]

Return(t) ==
  /\ Goto(t, "idle")
  /\ call' = [call EXCEPT ![t] = NoCall]
  /\ arg' = [arg EXCEPT ![t] = NoPacket]

Waiting(kind) == {t \in Threads : pc[t] = "wait" /\ call[t].kind = kind}

\* Threads whose deadline has passed and that have yet to take the mutex.
Expired(kind) == {t \in Threads : pc[t] = "expired" /\ call[t].kind = kind}

\* There is something to do for a side, and who sleeps there is not told.
PassedOver(kind) == IF Waiting(kind) = {} THEN untold ELSE untold \cup {kind}

\* Threads that will look at the queue again before they can sleep.
Awake(kind) == {t \in Threads : /\ pc[t] \in {"woken", "check", "move"}
                                /\ call[t].kind = kind}

\* Threads that changed the queue and have yet to signal the other side.
Signalling(kind) == {t \in Threads : pc[t] = "signal" /\ call[t].kind = kind}

Init ==
  /\ live = TRUE
  /\ mutex = NoThread
  /\ fifo = <<>>
  /\ cap = Capacity
  /\ pc = [t \in Threads |-> "idle"]
  /\ call = [t \in Threads |-> NoCall]
  /\ arg = [t \in Threads |-> NoPacket]
  /\ held = [t \in Threads |-> {}]
  /\ untold = {}

----------------------------------------------------------------------------
(* Entering a call.  Nobody may use a queue that is being freed: that is   *)
(* the caller's duty (the code joins the demuxer thread or holds the list  *)
(* mutex), so the guards keep it.  clear and free of a freed queue return  *)
(* at once and change nothing.                                             *)

Usable == live /\ \A u \in Threads : ~(pc[u] # "idle" /\ call[u].kind = "free")

Enter(t, c) ==
  /\ c \in Calls[t]
  /\ At(t, {"idle"})
  /\ Usable
  /\ Goto(t, "lock")
  /\ call' = [call EXCEPT ![t] = c]

\* The caller allocates the packet, or tries again with one it still owns.
EnterPush(t, c, p) ==
  /\ c.kind = "push"
  /\ Enter(t, c)
  /\ p \in held[t] \/ p \notin Allocated
  /\ arg' = [arg EXCEPT ![t] = p]
  /\ held' = [held EXCEPT ![t] = @ \cup {p}]
  /\ UNCHANGED <<live, mutex, fifo, cap, untold>>

EnterOther(t, c) ==
  /\ c.kind # "push"
  /\ Enter(t, c)
  /\ c.kind = "free" => \A u \in Threads : pc[u] = "idle"
  /\ UNCHANGED <<live, mutex, fifo, cap, arg, held, untold>>

Lock(t) ==
  /\ At(t, {"lock"})
  /\ mutex = NoThread
  /\ mutex' = t
  /\ Goto(t, CASE call[t].kind \in {"push", "pop"}   -> "check"
               [] call[t].kind \in {"clear", "free"} -> "drain"
               [] OTHER                              -> "unlock")
  /\ UNCHANGED <<live, fifo, cap, call, arg, held, untold>>

\* mtx_timedlock gives up; push and pop return before touching the queue.
LockTimeout(t) ==
  /\ At(t, {"lock"})
  /\ call[t].kind \in {"push", "pop"} /\ call[t].timed
  /\ mutex # NoThread
  /\ Return(t)
  /\ UNCHANGED <<live, mutex, fifo, cap, held, untold>>

----------------------------------------------------------------------------
(* The wait loop shared by push and pop.                                   *)

\* Variants with a plausible mistake, here and below, stand before what they
\* vary; no run of the queue uses them.  Off by one in the test for room:
CanProceedOffByOne(t) ==
  \/ call[t].kind = "push" /\ (call[t].force \/ Len(fifo) <= cap)
  \/ call[t].kind = "pop"  /\ fifo # <<>>

\* A slot is always left free.
CanProceedSpare(t) ==
  \/ call[t].kind = "push" /\ (call[t].force \/ Len(fifo) + 1 < cap)
  \/ call[t].kind = "pop"  /\ fifo # <<>>

CanProceed(t) ==
  \/ call[t].kind = "push" /\ (call[t].force \/ Len(fifo) < cap)
  \/ call[t].kind = "pop"  /\ fifo # <<>>

Check(t) ==
  /\ At(t, {"check"})
  /\ CanProceed(t)
  /\ Goto(t, "move")
  /\ UNCHANGED <<live, mutex, fifo, cap, call, arg, held, untold>>

\* cnd_wait and cnd_timedwait release the mutex and sleep in one step.  There
\* is nothing to do for this side then, of which to tell anybody.
Wait(t) ==
  /\ At(t, {"check"})
  /\ ~CanProceed(t)
  /\ mutex' = NoThread
  /\ Goto(t, "wait")
  /\ untold' = untold \ {call[t].kind}
  /\ UNCHANGED <<live, fifo, cap, call, arg, held>>

SpuriousWakeup(t) ==
  /\ At(t, {"wait"})
  /\ Goto(t, "woken")
  /\ UNCHANGED <<live, mutex, fifo, cap, call, arg, held, untold>>

\* The deadline of cnd_timedwait passes.  The queue is not looked at again,
\* though a signal may still go to this thread.
Expire(t) ==
  /\ At(t, {"wait"})
  /\ call[t].timed
  /\ Goto(t, "expired")
  /\ UNCHANGED <<live, mutex, fifo, cap, call, arg, held, untold>>

\* Variant: a timeout returns at once and leaves the mutex locked.
RelockReturning(t) ==
  /\ At(t, {"woken", "expired"})
  /\ mutex = NoThread
  /\ mutex' = t
  /\ IF pc[t] = "woken" THEN Goto(t, "check") /\ UNCHANGED <<call, arg>> ELSE Return(t)
  /\ UNCHANGED <<live, fifo, cap, held, untold>>

\* Variant: the result of cnd_timedwait is not looked at.
RelockLooping(t) ==
  /\ At(t, {"woken", "expired"})
  /\ mutex = NoThread
  /\ mutex' = t
  /\ Goto(t, "check")
  /\ UNCHANGED <<live, fifo, cap, call, arg, held, untold>>

Relock(t) ==
  /\ At(t, {"woken", "expired"})
  /\ mutex = NoThread
  /\ mutex' = t
  /\ Goto(t, IF pc[t] = "woken" THEN "check" ELSE "fail")
  /\ UNCHANGED <<live, fifo, cap, call, arg, held, untold>>

----------------------------------------------------------------------------
(* Moving a packet.                                                        *)

\* What av_fifo_write adds to a full AVFifo to make room for one element.
Growth == IF 1 < (AutoGrowLimit - cap) \div 2 THEN 2 ELSE AutoGrowLimit - cap

\* Of the room beyond the one element no pusher is told.
MakeRoom ==
  \/ Len(fifo) < cap /\ UNCHANGED <<cap, untold>>
  \/ /\ Len(fifo) >= cap /\ cap < AutoGrowLimit
     /\ cap' = cap + Growth
     /\ untold' = IF Growth = 1 THEN untold ELSE PassedOver("push")

\* Variant: the packet is given up before it is written.
WriteMoved(t) ==
  /\ At(t, {"move"})
  /\ call[t].kind = "push"
  /\ MakeRoom
  /\ fifo' = Append(fifo, NoPacket)
  /\ held' = [held EXCEPT ![t] = @ \ {arg[t]}]
  /\ arg' = [arg EXCEPT ![t] = NoPacket]
  /\ Goto(t, "signal")
  /\ UNCHANGED <<live, mutex, call>>

\* Variant: the caller goes on owning the packet.
WriteShared(t) ==
  /\ At(t, {"move"})
  /\ call[t].kind = "push"
  /\ MakeRoom
  /\ fifo' = Append(fifo, arg[t])
  /\ arg' = [arg EXCEPT ![t] = NoPacket]
  /\ Goto(t, "signal")
  /\ UNCHANGED <<live, mutex, call, held>>

Write(t) ==
  /\ At(t, {"move"})
  /\ call[t].kind = "push"
  /\ MakeRoom
  /\ fifo' = Append(fifo, arg[t])
  /\ held' = [held EXCEPT ![t] = @ \ {arg[t]}]
  /\ arg' = [arg EXCEPT ![t] = NoPacket]
  /\ Goto(t, "signal")
  /\ UNCHANGED <<live, mutex, call>>

\* The AVFifo has to grow and cannot: at its limit, or out of memory.
WriteFails(t) ==
  /\ At(t, {"move"})
  /\ call[t].kind = "push"
  /\ Len(fifo) >= cap
  /\ Goto(t, "fail")
  /\ UNCHANGED <<live, mutex, fifo, cap, call, arg, held, untold>>

Read(t) ==
  /\ At(t, {"move"})
  /\ call[t].kind = "pop"
  /\ fifo' = Tail(fifo)
  /\ held' = [held EXCEPT ![t] = @ \cup {Head(fifo)}]
  /\ Goto(t, "signal")
  /\ UNCHANGED <<live, mutex, cap, call, arg, untold>>

\* Variant: each side signals its own condition variable.
OwnSide(t) == call[t].kind

\* push signals pop_condvar, pop signals push_condvar.
OtherSide(t) == IF call[t].kind = "push" THEN "pop" ELSE "push"

\* Variant: only the push that ends an empty queue signals.
SignalWhenEmpty(t) ==
  /\ At(t, {"signal"})
  /\ \/ \E w \in Waiting(OtherSide(t)) :
          /\ call[t].kind = "push" => Len(fifo) = 1
          /\ pc' = [pc EXCEPT ![t] = "unlock", ![w] = "woken"]
     \/ /\ Waiting(OtherSide(t)) = {} \/ (call[t].kind = "push" /\ Len(fifo) > 1)
        /\ Goto(t, "unlock")
  /\ UNCHANGED <<live, mutex, fifo, cap, call, arg, held, untold>>

\* cnd_signal wakes one thread, if any sleeps there.  POSIX lets a call whose
\* deadline passes at that moment take the signal, and still time out.
Signal(t) ==
  /\ At(t, {"signal"})
  /\ \/ \E w \in Waiting(OtherSide(t)) :
          pc' = [pc EXCEPT ![t] = "unlock", ![w] = "woken"] /\ UNCHANGED untold
     \/ /\ Waiting(OtherSide(t)) = {} \/ Expired(OtherSide(t)) # {}
        /\ Goto(t, "unlock")
        /\ untold' = PassedOver(OtherSide(t))
  /\ UNCHANGED <<live, mutex, fifo, cap, call, arg, held>>

\* Variant: clear stops after one packet.
DrainOne(t) ==
  /\ At(t, {"drain"})
  /\ fifo # <<>>
  /\ fifo' = Tail(fifo)
  /\ Goto(t, "unlock")
  /\ untold' = PassedOver("push")
  /\ UNCHANGED <<live, mutex, cap, call, arg, held>>

\* One iteration of the loop of clear: the packet goes back to the heap, and
\* no pusher is told of the room.
Drain(t) ==
  /\ At(t, {"drain"})
  /\ fifo # <<>>
  /\ fifo' = Tail(fifo)
  /\ untold' = PassedOver("push")
  /\ UNCHANGED <<live, mutex, cap, pc, call, arg, held>>

Drained(t) ==
  /\ At(t, {"drain"})
  /\ fifo = <<>>
  /\ Goto(t, "unlock")
  /\ UNCHANGED <<live, mutex, fifo, cap, call, arg, held, untold>>

\* Release the mutex and return; a failed push leaves the packet with its
\* caller.  free goes on to destroy the queue.
Unlock(t) ==
  /\ At(t, {"unlock", "fail"})
  /\ mutex' = NoThread
  /\ IF call[t].kind = "free"
       THEN Goto(t, "destroy") /\ UNCHANGED <<call, arg>>
       ELSE Return(t)
  /\ UNCHANGED <<live, fifo, cap, held, untold>>

Destroy(t) ==
  /\ At(t, {"destroy"})
  /\ live' = FALSE
  /\ Return(t)
  /\ UNCHANGED <<mutex, fifo, cap, held, untold>>

\* sve4_ffmpeg_packet_queue_init on a queue freed before; a failing one
\* undoes its own steps and leaves the queue as it was.
Reinit ==
  /\ ~live
  /\ live' = TRUE
  /\ fifo' = <<>>
  /\ cap' = Capacity
  /\ UNCHANGED <<mutex, pc, call, arg, held, untold>>

\* A caller frees a packet it owns and is not pushing (av_packet_free).
FreePacket(t, p) ==
  /\ At(t, {"idle"})
  /\ p \in held[t]
  /\ held' = [held EXCEPT ![t] = @ \ {p}]
  /\ UNCHANGED <<live, mutex, fifo, cap, pc, call, arg, untold>>

----------------------------------------------------------------------------
(* The specification.                                                      *)

\* What a thread does by itself once in a call, the mutex apart.
Step(t) ==
  \/ Check(t) \/ Wait(t) \/ Write(t) \/ WriteFails(t) \/ Read(t) \/ Signal(t)
  \/ Drain(t) \/ Drained(t) \/ Unlock(t) \/ Destroy(t)

Next ==
  \/ Reinit
  \/ \E t \in Threads :
       \/ \E c \in Call : \E p \in Packets : EnterPush(t, c, p)
       \/ \E c \in Call : EnterOther(t, c)
       \/ Lock(t) \/ LockTimeout(t) \/ Relock(t)
       \/ SpuriousWakeup(t) \/ Expire(t)
       \/ Step(t)
       \/ \E p \in Packets : FreePacket(t, p)

Spec == Init /\ [][Next]_vars

\* A running thread keeps running; the mutex is not kept for ever from a
\* thread that asks for it; a deadline that exists is reached in the end.
Fairness == \A t \in Threads : /\ WF_vars(Step(t))
                               /\ SF_vars(Lock(t)) /\ SF_vars(Relock(t))
                               /\ SF_vars(Expire(t))

FairSpec == Spec /\ Fairness

----------------------------------------------------------------------------
TypeOK ==
  /\ live \in BOOLEAN
  /\ mutex \in Threads \cup {NoThread}
  /\ fifo \in Seq(Packets)
  /\ cap \in Nat
  /\ pc \in [Threads -> PC]
  /\ call \in [Threads -> Call]
  /\ arg \in [Threads -> Packets \cup {NoPacket}]
  /\ held \in [Threads -> SUBSET Packets]
  /\ untold \subseteq {"push", "pop"}

\* A thread is between lock and unlock exactly while it holds the mutex, on
\* every path through push, pop, is_empty, clear and free (the fail: paths and
\* the return from a timed-out cnd_timedwait included).
MutexHeld == \A t \in Threads : pc[t] \in Critical <=> mutex = t

\* Every packet has one owner: it is in the queue once, or one thread has it,
\* or it is freed.  So no packet is popped twice, freed while queued, or given
\* up by a push that failed.
OneOwner ==
  /\ \A i, j \in 1..Len(fifo) : i # j => fifo[i] # fifo[j]
  /\ \A t \in Threads : held[t] \cap Contents = {}
  /\ \A t, u \in Threads : t # u => held[t] \cap held[u] = {}

\* No lost wakeup of a popper: while one sleeps on pop_condvar, each queued
\* packet has a popper awake to fetch it or a pusher about to signal.  That
\* holds until a pop that timed out has taken the signal for a sleeping one.
NoLostPop ==
  Waiting("pop") # {} /\ "pop" \notin untold =>
    Len(fifo) <= Cardinality(Awake("pop")) + Cardinality(Signalling("push"))

\* The same for pushers and free slots.  Besides a push that timed out, clear
\* and a push that makes the AVFifo grow leave sleeping pushers untold of the
\* room they make.
NoLostPush ==
  Waiting("push") # {} /\ "push" \notin untold =>
    cap - Len(fifo) <= Cardinality(Awake("push")) + Cardinality(Signalling("pop"))

\* Backpressure: only a forced push makes the AVFifo grow, and nothing but a
\* new initialisation makes it smaller.
GrowsOnlyByForce ==
  [][cap' # cap => \/ ~live /\ live'
                   \/ /\ cap' > cap
                      /\ \E t \in Threads : pc[t] = "move" /\ call[t].force]_vars

\* "Wait until there is space" (line 73) and its counterpart in pop: a popper
\* asleep next to a packet, and a pusher asleep next to room, do not last,
\* unless somebody was passed over: the one signal of a push may go to a pop
\* that times out, and then a popper next to it sleeps on.
SleepersWake ==
  /\ (Waiting("pop") # {} /\ fifo # <<>>)
       ~> (Waiting("pop") = {} \/ fifo = <<>> \/ "pop" \in untold)
  /\ (Waiting("push") # {} /\ Len(fifo) < cap)
       ~> (Waiting("push") = {} \/ Len(fifo) >= cap \/ "push" \in untold)

\* A push or pop with a time point returns, whatever the others do.
TimedReturns ==
  \A t \in Threads :
    (pc[t] # "idle" /\ call[t].kind \in {"push", "pop"} /\ call[t].timed)
      ~> (pc[t] = "idle")

\* The queue implements PacketFifo.  clear empties it packet by packet, but
\* under the mutex: to the others it is empty from the first step on.
Items == IF \E t \in Threads : pc[t] = "drain" THEN <<>> ELSE fifo

\* How far a call is, for who only sees its effect.
Progress(where) ==
  CASE where = "idle" -> "idle"
    [] where \in {"signal", "drain", "unlock", "destroy"} -> "done"
    [] OTHER -> "called"

Stage == [t \in Threads |-> Progress(pc[t])]

Fifo == INSTANCE PacketFifo WITH items <- Items, room <- cap, stage <- Stage

\* Every call that succeeds takes effect once and atomically, first in first
\* out; one that fails (timeout, no memory) has no effect.
ImplementsFifo == Fifo!FifoSpec
=============================================================================
