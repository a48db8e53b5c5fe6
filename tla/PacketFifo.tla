----------------------------- MODULE PacketFifo -----------------------------
(***************************************************************************)
(* What the packet queue promises its callers: each call that succeeds     *)
(* takes effect once, at one moment between entering and returning, on one *)
(* first-in first-out sequence; a call that fails has no effect.  There is *)
(* no mutex here, no condition variable and no packet-by-packet clear.     *)
(* PacketQueue (ffmpeg_packet_queue.c) is checked to implement it.         *)
(***************************************************************************)
EXTENDS Naturals, Sequences

CONSTANTS Threads, Packets, Call, NoPacket

VARIABLES
  items,  \* the packets in the queue, oldest first
  room,   \* the number of packets a push that is not forced may reach
  stage,  \* "idle", "called" (no effect yet) or "done" (effect taken)
  call, arg, held

fifoVars == <<items, room, stage, call, arg, held>>

InQueue == {items[i] : i \in 1..Len(items)}

FifoInit ==
  /\ items = <<>>
  /\ room \in Nat
  /\ stage = [t \in Threads |-> "idle"]
  /\ call \in [Threads -> Call]
  /\ arg = [t \in Threads |-> NoPacket]
  /\ held = [t \in Threads |-> {}]

\* A call is entered; a push comes with a packet the caller owns, new or kept
\* from a push that failed.
Enter(t) ==
  /\ stage[t] = "idle"
  /\ stage' = [stage EXCEPT ![t] = "called"]
  /\ \E c \in Call :
       /\ call' = [call EXCEPT ![t] = c]
       /\ \/ c.kind # "push" /\ UNCHANGED <<arg, held>>
          \/ /\ c.kind = "push"
             /\ \E p \in Packets \ (InQueue \cup UNION {held[u] : u \in Threads \ {t}}) :
                  /\ arg' = [arg EXCEPT ![t] = p]
                  /\ held' = [held EXCEPT ![t] = @ \cup {p}]
  /\ UNCHANGED <<items, room>>

\* A push takes effect: the packet is last in line.  Only a forced push goes
\* past the room there is, and makes more.
Put(t) ==
  /\ stage[t] = "called" /\ call[t].kind = "push"
  /\ \/ Len(items) < room /\ UNCHANGED room
     \/ call[t].force /\ room' > room /\ room' \in Nat
  /\ items' = Append(items, arg[t])
  /\ held' = [held EXCEPT ![t] = @ \ {arg[t]}]
  /\ arg' = [arg EXCEPT ![t] = NoPacket]
  /\ stage' = [stage EXCEPT ![t] = "done"]
  /\ UNCHANGED call

\* A pop takes effect: it gets the oldest packet.
Take(t) ==
  /\ stage[t] = "called" /\ call[t].kind = "pop"
  /\ items # <<>>
  /\ held' = [held EXCEPT ![t] = @ \cup {Head(items)}]
  /\ items' = Tail(items)
  /\ stage' = [stage EXCEPT ![t] = "done"]
  /\ UNCHANGED <<room, call, arg>>

\* clear and free empty the queue in one step.
Flush(t) ==
  /\ stage[t] = "called" /\ call[t].kind \in {"clear", "free"}
  /\ items' = <<>>
  /\ stage' = [stage EXCEPT ![t] = "done"]
  /\ UNCHANGED <<room, call, arg, held>>

Look(t) ==
  /\ stage[t] = "called" /\ call[t].kind = "is_empty"
  /\ stage' = [stage EXCEPT ![t] = "done"]
  /\ UNCHANGED <<items, room, call, arg, held>>

Leave(t) ==
  /\ stage' = [stage EXCEPT ![t] = "idle"]
  /\ \E c \in Call : call' = [call EXCEPT ![t] = c]
  /\ arg' = [arg EXCEPT ![t] = NoPacket]
  /\ UNCHANGED <<items, room, held>>

Succeed(t) == stage[t] = "done" /\ Leave(t)

\* Only a call with a deadline, or a forced push on a full queue, may fail.
Refuse(t) ==
  /\ stage[t] = "called"
  /\ \/ call[t].kind \in {"push", "pop"} /\ call[t].timed
     \/ call[t].kind = "push" /\ call[t].force /\ Len(items) >= room
  /\ Leave(t)

\* The queue is empty whenever it is initialised again.
Renew ==
  /\ items = <<>>
  /\ room' \in Nat
  /\ UNCHANGED <<items, stage, call, arg, held>>

FreePacket(t) ==
  /\ stage[t] = "idle"
  /\ \E p \in held[t] : held' = [held EXCEPT ![t] = @ \ {p}]
  /\ UNCHANGED <<items, room, stage, call, arg>>

FifoNext ==
  \/ Renew
  \/ \E t \in Threads : \/ Enter(t) \/ Put(t) \/ Take(t) \/ Flush(t) \/ Look(t)
                        \/ Succeed(t) \/ Refuse(t) \/ FreePacket(t)

FifoSpec == FifoInit /\ [][FifoNext]_fifoVars
=============================================================================
