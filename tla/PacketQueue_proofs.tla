------------------------- MODULE PacketQueue_proofs -------------------------
(***************************************************************************)
(* Proofs about PacketQueue: its typing, that the mutex is held exactly in *)
(* the critical sections, that no popper misses a packet, that a packet    *)
(* has one owner, and that only forced pushes make the queue grow.         *)
(***************************************************************************)
EXTENDS PacketQueue, FiniteSetTheorems, SequenceTheorems, TLAPS

\* What a thread's place in the code says of its call: only push and pop wait,
\* move and signal; a push not yet done still has its packet; and a popper
\* about to read has seen a packet, which the mutex keeps for it.
Shape ==
  \A t \in Threads :
    /\ pc[t] \in {"check", "wait", "woken", "expired", "move", "signal", "fail"}
         => call[t].kind \in {"push", "pop"}
    /\ pc[t] \in {"lock", "check", "wait", "woken", "move"} /\ call[t].kind = "push"
         => arg[t] \in Packets
    /\ pc[t] = "move" /\ call[t].kind = "pop" => fifo # <<>>

\* free runs alone, and a freed queue is in no call.
Lifetime ==
  /\ \A t \in Threads : pc[t] = "destroy" => call[t].kind = "free"
  /\ \A t, u \in Threads :
       pc[t] # "idle" /\ call[t].kind = "free" /\ u # t => pc[u] = "idle"
  /\ ~live => \A t \in Threads : pc[t] = "idle"

Safe == TypeOK /\ MutexHeld /\ Shape /\ Lifetime

LEMMA NoCallType == NoCall \in Call
  BY DEF NoCall, Call

LEMMA ReturnType ==
  ASSUME NEW t \in Threads, TypeOK, Return(t)
  PROVE  /\ pc' \in [Threads -> PC] /\ call' \in [Threads -> Call]
         /\ arg' \in [Threads -> Packets \cup {NoPacket}]
  <1> QED BY NoCallType DEF TypeOK, Return, Goto, PC

LEMMA InitSafe == Init => Safe
  BY ThreadsAssumption, CapacityAssumption
     DEF Init, Safe, TypeOK, MutexHeld, Shape, Lifetime, PC, Critical, Call, NoCall

LEMMA UntoldType ==
  ASSUME untold \subseteq {"push", "pop"},
         untold' = untold \/ untold' = PassedOver("push") \/ untold' = PassedOver("pop")
  PROVE  untold' \subseteq {"push", "pop"}
  BY DEF PassedOver

\* One step of the queue preserves the typing, the mutex discipline and Shape.
LEMMA NextSafe == Safe /\ [Next]_vars => Safe'
<1> SUFFICES ASSUME Safe, [Next]_vars PROVE Safe'
  OBVIOUS
<1> USE ThreadsAssumption, PacketsAssumption, CapacityAssumption, CallsAssumption
<1> USE DEF Safe, TypeOK, MutexHeld, Shape, Lifetime, PC, Critical, At, Goto
<1>1. ASSUME NEW t \in Threads, NEW c \in Call, NEW p \in Packets, EnterPush(t, c, p)
      PROVE  Safe'
  BY SMTT(30), <1>1 DEF EnterPush, Enter, Usable, Call
<1>2. ASSUME NEW t \in Threads, NEW c \in Call, EnterOther(t, c) PROVE Safe'
  BY <1>2 DEF EnterOther, Enter, Usable, Call
<1>3. ASSUME NEW t \in Threads, Lock(t) PROVE Safe'
  BY <1>3 DEF Lock, Call
<1>4. ASSUME NEW t \in Threads, LockTimeout(t) PROVE Safe'
  BY <1>4 DEF LockTimeout, Return, NoCall, Call
<1>5. ASSUME NEW t \in Threads, Relock(t) PROVE Safe'
  BY <1>5 DEF Relock
<1>6. ASSUME NEW t \in Threads, SpuriousWakeup(t) \/ Expire(t) PROVE Safe'
  <2>1. CASE SpuriousWakeup(t)
    BY <2>1 DEF SpuriousWakeup
  <2>2. CASE Expire(t)
    BY <2>2 DEF Expire
  <2> QED BY <1>6, <2>1, <2>2
<1>u. untold \subseteq {"push", "pop"}
  OBVIOUS
<1>7. ASSUME NEW t \in Threads, Check(t) \/ Wait(t) PROVE Safe'
  <2>1. CASE Check(t)
    BY <2>1 DEF Check, CanProceed
  <2>2. CASE Wait(t)
    <3>1. untold' \subseteq {"push", "pop"}
      BY <2>2 DEF Wait
    <3> QED BY <2>2, <3>1 DEF Wait
  <2> QED BY <1>7, <2>1, <2>2
<1>8. ASSUME NEW t \in Threads, Write(t) PROVE Safe'
  <2>1. arg[t] \in Packets
    BY <1>8 DEF Write
  <2>2. fifo' \in Seq(Packets)
    BY <1>8, <2>1 DEF Write
  <2>3. cap' \in Nat
    BY <1>8 DEF Write, MakeRoom, Growth
  <2>4. untold' = untold \/ untold' = PassedOver("push")
    BY <1>8 DEF Write, MakeRoom
  <2>5. untold' \subseteq {"push", "pop"}
    BY <1>u, <2>4, UntoldType
  <2>6. TypeOK'
    BY <1>8, <2>2, <2>3, <2>5 DEF Write
  <2>7. MutexHeld' /\ Shape' /\ Lifetime'
    BY <1>8 DEF Write
  <2> QED BY <2>6, <2>7
<1>9. ASSUME NEW t \in Threads, WriteFails(t) PROVE Safe'
  <2>1. TypeOK'
    BY <1>9 DEF WriteFails
  <2>2. MutexHeld' /\ Shape' /\ Lifetime'
    BY <1>9 DEF WriteFails
  <2> QED BY <2>1, <2>2
<1>10. ASSUME NEW t \in Threads, Read(t) PROVE Safe'
  <2>1. fifo # <<>>
    BY <1>10 DEF Read
  <2>2. Head(fifo) \in Packets /\ Tail(fifo) \in Seq(Packets)
    BY <2>1, HeadTailProperties
  <2> QED BY <1>10, <2>2 DEF Read
<1>11. ASSUME NEW t \in Threads, Signal(t) PROVE Safe'
  <2>1. untold' = untold \/ untold' = PassedOver("push") \/ untold' = PassedOver("pop")
    BY <1>11 DEF Signal, OtherSide
  <2>2. untold' \subseteq {"push", "pop"}
    BY <1>u, <2>1, UntoldType
  <2>3. TypeOK'
    BY <1>11, <2>2 DEF Signal, Waiting
  <2>4. MutexHeld' /\ Shape' /\ Lifetime'
    BY <1>11 DEF Signal, Waiting
  <2> QED BY <2>3, <2>4
<1>12. ASSUME NEW t \in Threads, Drain(t) PROVE Safe'
  <2>1. Tail(fifo) \in Seq(Packets) /\ untold' \subseteq {"push", "pop"}
    BY <1>12, <1>u, UntoldType, HeadTailProperties DEF Drain
  <2> QED BY <1>12, <2>1 DEF Drain
<1>13. ASSUME NEW t \in Threads, Drained(t) PROVE Safe'
  <2>1. TypeOK' /\ MutexHeld'
    BY <1>13 DEF Drained
  <2>2. Shape' /\ Lifetime'
    BY <1>13 DEF Drained
  <2> QED BY <2>1, <2>2
<1>14. ASSUME NEW t \in Threads, Unlock(t) PROVE Safe'
  <2>1. CASE call[t].kind = "free"
    BY <1>14, <2>1 DEF Unlock
  <2>2. CASE call[t].kind # "free"
    <3>1. TypeOK'
      BY <1>14, <2>2, ReturnType DEF Unlock
    <3>2. MutexHeld' /\ Shape' /\ Lifetime'
      BY <1>14, <2>2 DEF Unlock, Return, NoCall
    <3> QED BY <3>1, <3>2
  <2> QED BY <2>1, <2>2
<1>15. ASSUME NEW t \in Threads, Destroy(t) PROVE Safe'
  <2>1. TypeOK'
    BY <1>15, ReturnType DEF Destroy
  <2>2. MutexHeld' /\ Shape' /\ Lifetime'
    BY <1>15 DEF Destroy, Return, NoCall
  <2> QED BY <2>1, <2>2
<1>16. CASE Reinit
  <2>1. TypeOK'
    BY <1>16 DEF Reinit
  <2>2. MutexHeld' /\ Shape' /\ Lifetime'
    BY <1>16 DEF Reinit
  <2> QED BY <2>1, <2>2
<1>17. ASSUME NEW t \in Threads, NEW p \in Packets, FreePacket(t, p) PROVE Safe'
  <2>1. TypeOK'
    BY <1>17 DEF FreePacket
  <2>2. MutexHeld' /\ Shape' /\ Lifetime'
    BY <1>17 DEF FreePacket
  <2> QED BY <2>1, <2>2
<1>18. CASE UNCHANGED vars
  BY <1>18 DEF vars, Contents
<1> QED
  BY <1>1, <1>2, <1>3, <1>4, <1>5, <1>6, <1>7, <1>8, <1>9, <1>10, <1>11, <1>12,
     <1>13, <1>14, <1>15, <1>16, <1>17, <1>18 DEF Next, Step

----------------------------------------------------------------------------
(* No lost wakeup of a popper.                                             *)

LEMMA WatchersFinite ==
  ASSUME NEW kind
  PROVE  /\ IsFiniteSet(Awake(kind)) /\ Cardinality(Awake(kind)) \in Nat
         /\ IsFiniteSet(Signalling(kind)) /\ Cardinality(Signalling(kind)) \in Nat
  BY ThreadsAssumption, FS_Subset, FS_CardinalityType DEF Awake, Signalling

LEMMA WatchersFinite2 ==
  ASSUME NEW kind
  PROVE  /\ IsFiniteSet(Awake(kind)') /\ Cardinality(Awake(kind)') \in Nat
         /\ IsFiniteSet(Signalling(kind)') /\ Cardinality(Signalling(kind)') \in Nat
  BY ThreadsAssumption, FS_Subset, FS_CardinalityType DEF Awake, Signalling

\* A step that takes nobody away from the watch and adds no packet is harmless.
LEMMA WatchKept ==
  ASSUME Safe, Safe', NoLostPop,
         Waiting("pop")' # {} => Waiting("pop") # {}, "pop" \in untold => "pop" \in untold',
         Awake("pop") \subseteq Awake("pop")',
         Signalling("push") \subseteq Signalling("push")',
         Len(fifo') <= Len(fifo)
  PROVE  NoLostPop'
<1>1. /\ Cardinality(Awake("pop")) <= Cardinality(Awake("pop")')
      /\ Cardinality(Signalling("push")) <= Cardinality(Signalling("push")')
  BY WatchersFinite2, FS_Subset
<1>2. Len(fifo) \in Nat /\ Len(fifo') \in Nat
  BY LenProperties DEF Safe, TypeOK
<1> QED BY <1>1, <1>2, WatchersFinite, WatchersFinite2 DEF NoLostPop

LEMMA NextNoLostPop ==
  Safe /\ Safe' /\ NoLostPop /\ [Next]_vars => NoLostPop'
<1> SUFFICES ASSUME Safe, Safe', NoLostPop, [Next]_vars PROVE NoLostPop'
  OBVIOUS
<1> DEFINE A == Cardinality(Awake("pop"))
           S == Cardinality(Signalling("push"))
<1> USE DEF At, Goto
<1>t. /\ fifo \in Seq(Packets) /\ fifo' \in Seq(Packets)
      /\ Len(fifo) \in Nat /\ Len(fifo') \in Nat
      /\ pc \in [Threads -> PC] /\ call \in [Threads -> Call]
      /\ arg \in [Threads -> Packets \cup {NoPacket}]
  BY LenProperties DEF Safe, TypeOK
<1>0. ASSUME UNCHANGED fifo, "pop" \in untold => "pop" \in untold',
             \A u \in Threads : /\ pc'[u] = "wait" /\ call'[u].kind = "pop"
                                     => pc[u] = "wait" /\ call[u].kind = "pop"
                                /\ u \in Awake("pop") => u \in Awake("pop")'
                                /\ u \in Signalling("push") => u \in Signalling("push")'
      PROVE  NoLostPop'
  BY <1>0, <1>t, WatchKept DEF Waiting, Awake, Signalling
<1>1. ASSUME NEW t \in Threads, NEW c \in Call, NEW p \in Packets, EnterPush(t, c, p)
      PROVE  NoLostPop'
  BY <1>0, <1>1, <1>t DEF EnterPush, Enter, Awake, Signalling
<1>2. ASSUME NEW t \in Threads, NEW c \in Call, EnterOther(t, c) PROVE NoLostPop'
  BY <1>0, <1>2, <1>t DEF EnterOther, Enter, Awake, Signalling
<1>3. ASSUME NEW t \in Threads, Lock(t) PROVE NoLostPop'
  BY <1>0, <1>3, <1>t DEF Lock, Awake, Signalling
<1>4. ASSUME NEW t \in Threads, LockTimeout(t) PROVE NoLostPop'
  BY <1>0, <1>4, <1>t DEF LockTimeout, Return, Awake, Signalling
<1>5. ASSUME NEW t \in Threads, Relock(t) PROVE NoLostPop'
  BY <1>0, <1>5, <1>t DEF Relock, Awake, Signalling
<1>6. ASSUME NEW t \in Threads, SpuriousWakeup(t) \/ Expire(t) PROVE NoLostPop'
  BY <1>0, <1>6, <1>t DEF SpuriousWakeup, Expire, Awake, Signalling
<1>7. ASSUME NEW t \in Threads, Check(t) PROVE NoLostPop'
  BY <1>0, <1>7, <1>t DEF Check, Awake, Signalling
\* A popper falls asleep only on an empty queue.
<1>8. ASSUME NEW t \in Threads, Wait(t) PROVE NoLostPop'
  <2>1. CASE call[t].kind = "pop"
    <3>1. Len(fifo') = 0
      BY <1>8, <2>1, <1>t, EmptySeq DEF Wait, CanProceed
    <3> QED BY <3>1, WatchersFinite2 DEF NoLostPop
  <2>2. CASE call[t].kind # "pop"
    BY <1>0, <1>8, <2>2, <1>t DEF Wait, Awake, Signalling
  <2> QED BY <2>1, <2>2
\* A new packet comes with a pusher that will signal it.
<1>9. ASSUME NEW t \in Threads, Write(t) PROVE NoLostPop'
  <2>1. /\ Awake("pop")' = Awake("pop")
        /\ Waiting("pop")' = Waiting("pop")
        /\ Signalling("push")' = Signalling("push") \cup {t}
        /\ t \notin Signalling("push")
    BY <1>9, <1>t DEF Write, Awake, Waiting, Signalling
  <2>2. Cardinality(Signalling("push")') = S + 1
    BY <2>1, WatchersFinite, FS_AddElement
  <2>3. Len(fifo') = Len(fifo) + 1
    <3>1. arg[t] \in Packets
      BY <1>9 DEF Write, Safe, Shape
    <3> QED BY <1>9, <3>1, <1>t, AppendProperties DEF Write
  <2>4. untold \subseteq untold'
    BY <1>9 DEF Write, MakeRoom, PassedOver
  <2> QED BY <2>1, <2>2, <2>3, <2>4, <1>t, WatchersFinite DEF NoLostPop
<1>10. ASSUME NEW t \in Threads, WriteFails(t) PROVE NoLostPop'
  BY <1>0, <1>10, <1>t DEF WriteFails, Awake, Signalling
\* A popper that leaves the watch takes a packet with it.
<1>11. ASSUME NEW t \in Threads, Read(t) PROVE NoLostPop'
  <2>1. /\ Awake("pop")' = Awake("pop") \ {t}
        /\ Waiting("pop")' = Waiting("pop")
        /\ Signalling("push")' = Signalling("push")
        /\ t \in Awake("pop")
    BY <1>11, <1>t DEF Read, Awake, Waiting, Signalling
  <2>2. Cardinality(Awake("pop")') = A - 1
    BY <2>1, WatchersFinite, FS_RemoveElement
  <2>3. Len(fifo') = Len(fifo) - 1
    <3>1. fifo # <<>>
      BY <1>11 DEF Read, Safe, Shape
    <3> QED BY <1>11, <3>1, <1>t, HeadTailProperties DEF Read
  <2>4. UNCHANGED untold
    BY <1>11 DEF Read
  <2> QED BY <2>1, <2>2, <2>3, <2>4, <1>t, WatchersFinite DEF NoLostPop
\* The signal hands the watch over to a sleeper, if there is one, or passes
\* the sleepers over.
<1>12. ASSUME NEW t \in Threads, Signal(t) PROVE NoLostPop'
  <2>0. ASSUME NEW kind \in {"push", "pop"}
        PROVE  untold \subseteq PassedOver(kind)
    BY <2>0 DEF PassedOver
  <2>1. ASSUME call[t].kind = "push", NEW w \in Waiting("pop"),
               pc' = [pc EXCEPT ![t] = "unlock", ![w] = "woken"], UNCHANGED untold
        PROVE  NoLostPop'
    <3>1. UNCHANGED <<fifo, call>>
      BY <1>12 DEF Signal
    <3>2. /\ Awake("pop")' = Awake("pop") \cup {w}
          /\ w \notin Awake("pop")
          /\ Signalling("push")' = Signalling("push") \ {t}
          /\ t \in Signalling("push")
      BY <1>12, <2>1, <3>1, <1>t DEF Signal, Awake, Waiting, Signalling
    <3>3. /\ Cardinality(Awake("pop")') = A + 1
          /\ Cardinality(Signalling("push")') = S - 1
      BY <3>2, WatchersFinite, FS_AddElement, FS_RemoveElement
    <3>4. Waiting("pop") # {}
      BY <2>1
    <3> QED BY <2>1, <3>1, <3>3, <3>4, <1>t, WatchersFinite DEF NoLostPop
  <2>2. ASSUME call[t].kind = "push", Goto(t, "unlock"), untold' = PassedOver("pop")
        PROVE  NoLostPop'
    <3>1. CASE Waiting("pop") = {}
      <4>1. Waiting("pop")' = {}
        BY <1>12, <2>2, <3>1, <1>t DEF Signal, Waiting
      <4> QED BY <4>1 DEF NoLostPop
    <3>2. CASE Waiting("pop") # {}
      BY <2>2, <3>2 DEF NoLostPop, PassedOver
    <3> QED BY <3>1, <3>2
  <2>3. CASE call[t].kind # "push"
    <3>1. untold \subseteq untold'
      BY <1>12, <2>0, <2>3 DEF Signal, OtherSide
    <3> QED
      BY <1>0, <1>12, <2>3, <3>1, <1>t DEF Signal, OtherSide, Waiting, Awake, Signalling
  <2> QED BY <1>12, <2>1, <2>2, <2>3 DEF Signal, OtherSide
<1>13. ASSUME NEW t \in Threads, Drain(t) PROVE NoLostPop'
  <2>1. Len(fifo') <= Len(fifo)
    BY <1>13, <1>t, HeadTailProperties DEF Drain
  <2>2. /\ Awake("pop")' = Awake("pop") /\ Waiting("pop")' = Waiting("pop")
        /\ Signalling("push")' = Signalling("push") /\ untold \subseteq untold'
    BY <1>13 DEF Drain, Awake, Waiting, Signalling, PassedOver
  <2> QED BY <2>1, <2>2, WatchKept
<1>14. ASSUME NEW t \in Threads, Drained(t) PROVE NoLostPop'
  BY <1>0, <1>14, <1>t DEF Drained, Awake, Signalling
<1>15. ASSUME NEW t \in Threads, Unlock(t) \/ Destroy(t) PROVE NoLostPop'
  BY <1>0, <1>15, <1>t DEF Unlock, Destroy, Return, Awake, Signalling
<1>16. CASE Reinit
  <2>1. Len(fifo') = 0
    BY <1>16 DEF Reinit
  <2> QED BY <2>1, WatchersFinite2 DEF NoLostPop
<1>17. ASSUME NEW t \in Threads, NEW p \in Packets, FreePacket(t, p) PROVE NoLostPop'
  BY <1>0, <1>17, <1>t DEF FreePacket, Awake, Signalling
<1>18. CASE UNCHANGED vars
  BY <1>0, <1>18, <1>t DEF vars, Awake, Signalling
<1> QED
  BY <1>1, <1>2, <1>3, <1>4, <1>5, <1>6, <1>7, <1>8, <1>9, <1>10, <1>11, <1>12,
     <1>13, <1>14, <1>15, <1>16, <1>17, <1>18 DEF Next, Step

----------------------------------------------------------------------------
(* One owner per packet.                                                   *)

\* A push that is not done owns the packet it brings.
PusherOwns ==
  \A t \in Threads :
    pc[t] \in {"lock", "check", "wait", "woken", "move"} /\ call[t].kind = "push"
      => arg[t] \in held[t]

LEMMA NextOneOwner ==
  Safe /\ Safe' /\ PusherOwns /\ OneOwner /\ [Next]_vars => PusherOwns' /\ OneOwner'
<1> SUFFICES ASSUME Safe, Safe', PusherOwns, OneOwner, [Next]_vars
             PROVE  PusherOwns' /\ OneOwner'
  OBVIOUS
<1> USE DEF At, Goto
<1>t. /\ fifo \in Seq(Packets) /\ Len(fifo) \in Nat
      /\ pc \in [Threads -> PC] /\ call \in [Threads -> Call]
      /\ arg \in [Threads -> Packets \cup {NoPacket}]
      /\ held \in [Threads -> SUBSET Packets]
  BY LenProperties DEF Safe, TypeOK
\* No packet moves, and who is in a push was in it before.
<1>0. ASSUME UNCHANGED <<fifo, held>>,
             \A u \in Threads :
               pc'[u] \in {"lock", "check", "wait", "woken", "move"} /\ call'[u].kind = "push"
                 => /\ pc[u] \in {"lock", "check", "wait", "woken", "move"}
                    /\ call[u].kind = "push" /\ arg'[u] = arg[u]
      PROVE  PusherOwns' /\ OneOwner'
  BY <1>0 DEF PusherOwns, OneOwner, Contents
<1>1. ASSUME NEW t \in Threads, NEW c \in Call, NEW p \in Packets, EnterPush(t, c, p)
      PROVE  PusherOwns' /\ OneOwner'
  <2>1. /\ p \notin Contents \/ p \in held[t]
        /\ \A u \in Threads : u # t => p \notin held[u] \/ p \in held[t]
    BY <1>1 DEF EnterPush, Allocated
  <2>2. Contents' = Contents /\ UNCHANGED fifo
    BY <1>1 DEF EnterPush, Contents
  <2>3. OneOwner'
    BY <1>1, <1>t, <2>1, <2>2 DEF EnterPush, OneOwner
  <2>4. PusherOwns'
    BY <1>1, <1>t DEF EnterPush, Enter, PusherOwns
  <2> QED BY <2>3, <2>4
<1>2. ASSUME NEW t \in Threads, NEW c \in Call, EnterOther(t, c)
      PROVE  PusherOwns' /\ OneOwner'
  BY <1>0, <1>2, <1>t DEF EnterOther, Enter
<1>3. ASSUME NEW t \in Threads, Lock(t) \/ LockTimeout(t) PROVE PusherOwns' /\ OneOwner'
  BY <1>0, <1>3, <1>t DEF Lock, LockTimeout, Return
<1>4. ASSUME NEW t \in Threads, Relock(t) \/ SpuriousWakeup(t) \/ Expire(t)
      PROVE  PusherOwns' /\ OneOwner'
  BY <1>0, <1>4, <1>t DEF Relock, SpuriousWakeup, Expire
<1>5. ASSUME NEW t \in Threads, Check(t) \/ Wait(t) \/ WriteFails(t) \/ Drained(t)
      PROVE  PusherOwns' /\ OneOwner'
  BY <1>0, <1>5, <1>t DEF Check, Wait, WriteFails, Drained
\* The packet goes from the pusher into the queue, where it was not before.
<1>6. ASSUME NEW t \in Threads, Write(t) PROVE PusherOwns' /\ OneOwner'
  <2>1. arg[t] \in held[t] /\ arg[t] \in Packets /\ arg[t] \notin Contents
    BY <1>6, <1>t DEF Write, PusherOwns, OneOwner
  <2>2. /\ Len(fifo') = Len(fifo) + 1
        /\ fifo'[Len(fifo) + 1] = arg[t]
        /\ \A i \in 1..Len(fifo) : fifo'[i] = fifo[i]
    BY <1>6, <1>t, <2>1, AppendProperties DEF Write
  <2>3. Contents' = Contents \cup {arg[t]}
    BY <1>t, <2>2 DEF Contents
  <2>4. /\ held'[t] = held[t] \ {arg[t]}
        /\ \A u \in Threads : u # t => held'[u] = held[u]
    BY <1>6, <1>t DEF Write
  <2>5. \A i, j \in 1..Len(fifo') : i # j => fifo'[i] # fifo'[j]
    BY <1>t, <2>1, <2>2 DEF OneOwner, Contents
  <2>6. OneOwner'
    BY <1>6, <2>1, <2>3, <2>4, <2>5 DEF OneOwner
  <2>7. PusherOwns'
    BY <1>6, <1>t, <2>4 DEF Write, PusherOwns
  <2> QED BY <2>6, <2>7
\* The oldest packet goes from the queue to the popper.
<1>7. ASSUME NEW t \in Threads, Read(t) PROVE PusherOwns' /\ OneOwner'
  <2>1. fifo # <<>>
    BY <1>7 DEF Read, Safe, Shape
  <2>2. /\ Head(fifo) = fifo[1] /\ Len(fifo) >= 1
        /\ Len(fifo') = Len(fifo) - 1
        /\ \A i \in 1..Len(fifo') : fifo'[i] = fifo[i + 1]
    BY <1>7, <1>t, <2>1, HeadTailProperties DEF Read
  <2>3. Contents' \subseteq Contents /\ Head(fifo) \in Contents /\ Head(fifo) \notin Contents'
    <3>1. \A i \in 1..Len(fifo') : i + 1 \in 1..Len(fifo) /\ i + 1 # 1 /\ 1 \in 1..Len(fifo)
      BY <1>t, <2>2
    <3>2. \A i \in 1..Len(fifo') : fifo'[i] \in Contents /\ fifo'[i] # Head(fifo)
      BY <2>2, <3>1 DEF Contents, OneOwner
    <3>3. Head(fifo) \in Contents
      BY <1>t, <2>2 DEF Contents
    <3> QED BY <3>2, <3>3 DEF Contents
  <2>4. /\ held'[t] = held[t] \cup {Head(fifo)}
        /\ \A u \in Threads : u # t => held'[u] = held[u]
    BY <1>7, <1>t DEF Read
  <2>5. \A i, j \in 1..Len(fifo') : i # j => fifo'[i] # fifo'[j]
    BY <1>t, <2>2 DEF OneOwner
  <2>6. OneOwner'
    BY <2>3, <2>4, <2>5 DEF OneOwner
  <2>7. PusherOwns'
    BY <1>7, <1>t, <2>4 DEF Read, PusherOwns
  <2> QED BY <2>6, <2>7
<1>8. ASSUME NEW t \in Threads, Signal(t) PROVE PusherOwns' /\ OneOwner'
  BY <1>0, <1>8, <1>t DEF Signal, Waiting
<1>9. ASSUME NEW t \in Threads, Drain(t) PROVE PusherOwns' /\ OneOwner'
  <2>1. /\ Len(fifo) >= 1 /\ Len(fifo') = Len(fifo) - 1
        /\ \A i \in 1..Len(fifo') : fifo'[i] = fifo[i + 1]
    BY <1>9, <1>t, HeadTailProperties DEF Drain
  <2>2. Contents' \subseteq Contents
    BY <1>t, <2>1 DEF Contents
  <2>3. OneOwner'
    BY <1>9, <1>t, <2>1, <2>2 DEF Drain, OneOwner
  <2>4. PusherOwns'
    BY <1>9 DEF Drain, PusherOwns
  <2> QED BY <2>3, <2>4
<1>10. ASSUME NEW t \in Threads, Unlock(t) \/ Destroy(t) PROVE PusherOwns' /\ OneOwner'
  BY <1>0, <1>10, <1>t DEF Unlock, Destroy, Return, NoCall
<1>11. CASE Reinit
  <2>1. Contents' = {} /\ Len(fifo') = 0
    BY <1>11 DEF Reinit, Contents
  <2> QED BY <1>11, <2>1 DEF Reinit, OneOwner, PusherOwns
<1>12. ASSUME NEW t \in Threads, NEW p \in Packets, FreePacket(t, p)
       PROVE  PusherOwns' /\ OneOwner'
  <2>1. Contents' = Contents /\ UNCHANGED fifo
    BY <1>12 DEF FreePacket, Contents
  <2>2. OneOwner'
    BY <1>12, <1>t, <2>1 DEF FreePacket, OneOwner
  <2>3. PusherOwns'
    BY <1>12, <1>t DEF FreePacket, PusherOwns
  <2> QED BY <2>2, <2>3
<1>13. CASE UNCHANGED vars
  BY <1>0, <1>13 DEF vars
<1> QED
  BY <1>1, <1>2, <1>3, <1>4, <1>5, <1>6, <1>7, <1>8, <1>9, <1>10, <1>11, <1>12, <1>13
  DEF Next, Step

----------------------------------------------------------------------------
(* Backpressure.                                                           *)

\* The room that an unforced push has seen is still there when it writes: all
\* that fill the queue or make it anew are kept out by the mutex it holds.
RoomKept ==
  \A t \in Threads :
    pc[t] = "move" /\ call[t].kind = "push" /\ ~call[t].force => Len(fifo) < cap

LEMMA NextRoomKept == Safe /\ RoomKept /\ [Next]_vars => RoomKept'
<1> SUFFICES ASSUME Safe, RoomKept, [Next]_vars PROVE RoomKept'
  OBVIOUS
<1> USE DEF At, Goto
<1>t. /\ pc \in [Threads -> PC] /\ call \in [Threads -> Call]
      /\ \A t, u \in Threads : pc[t] \in Critical /\ pc[u] \in Critical => t = u
  BY DEF Safe, TypeOK, MutexHeld
\* Nobody else is at "move" while a thread changes the queue.
<1>0. ASSUME NEW t \in Threads, Write(t) \/ Read(t) \/ Drain(t) PROVE RoomKept'
  <2>1. \A u \in Threads : pc'[u] # "move"
    BY <1>0, <1>t DEF Write, Read, Drain, Critical
  <2> QED BY <2>1 DEF RoomKept
<1>1. ASSUME UNCHANGED <<fifo, cap>>,
             \A u \in Threads : pc'[u] = "move" => pc[u] = "move" /\ call'[u] = call[u]
      PROVE  RoomKept'
  BY <1>1 DEF RoomKept
<1>2. ASSUME NEW t \in Threads, NEW c \in Call, NEW p \in Packets, EnterPush(t, c, p)
      PROVE  RoomKept'
  BY <1>1, <1>2, <1>t DEF EnterPush, Enter
<1>3. ASSUME NEW t \in Threads, NEW p \in Packets, FreePacket(t, p) PROVE RoomKept'
  BY <1>1, <1>3 DEF FreePacket
<1>4. ASSUME NEW t \in Threads, NEW c \in Call, EnterOther(t, c) PROVE RoomKept'
  BY <1>1, <1>4, <1>t DEF EnterOther, Enter
<1>5. ASSUME NEW t \in Threads, Lock(t) \/ LockTimeout(t) \/ Relock(t) PROVE RoomKept'
  BY <1>1, <1>5, <1>t DEF Lock, LockTimeout, Relock, Return
<1>6. ASSUME NEW t \in Threads, SpuriousWakeup(t) \/ Expire(t) PROVE RoomKept'
  BY <1>1, <1>6, <1>t DEF SpuriousWakeup, Expire
<1>7. ASSUME NEW t \in Threads, Wait(t) \/ WriteFails(t) \/ Drained(t) PROVE RoomKept'
  BY <1>1, <1>7, <1>t DEF Wait, WriteFails, Drained
<1>8. ASSUME NEW t \in Threads, Check(t) PROVE RoomKept'
  BY <1>8, <1>t DEF Check, CanProceed, RoomKept
<1>9. ASSUME NEW t \in Threads, Signal(t) PROVE RoomKept'
  BY <1>1, <1>9, <1>t DEF Signal, Waiting
<1>10. ASSUME NEW t \in Threads, Unlock(t) \/ Destroy(t) PROVE RoomKept'
  BY <1>1, <1>10, <1>t DEF Unlock, Destroy, Return
<1>11. CASE Reinit
  <2>1. \A u \in Threads : pc'[u] # "move"
    BY <1>11 DEF Reinit, Safe, Lifetime
  <2> QED BY <2>1 DEF RoomKept
<1>12. CASE UNCHANGED vars
  BY <1>1, <1>12 DEF vars
<1> QED
  BY <1>0, <1>2, <1>3, <1>4, <1>5, <1>6, <1>7, <1>8, <1>9, <1>10, <1>11, <1>12 DEF Next, Step

\* Only a write that met a full queue, so a forced one, makes the AVFifo grow.
Grows == \/ ~live /\ live'
         \/ cap' > cap /\ \E t \in Threads : pc[t] = "move" /\ call[t].force

LEMMA StepGrows == Safe /\ RoomKept /\ [Next]_vars => [cap' # cap => Grows]_vars
<1> SUFFICES ASSUME Safe, RoomKept, Next, cap' # cap PROVE Grows
  BY DEF vars
<1> USE DEF At
<1>1. \/ Reinit \/ \E t \in Threads : Write(t)
  BY DEF Next, Step, EnterPush, EnterOther, Lock, LockTimeout, Relock, SpuriousWakeup, Expire,
         Check, Wait, WriteFails, Read, Signal, Drain, Drained, Unlock, Destroy, FreePacket
<1>2. CASE Reinit
  BY <1>2 DEF Reinit, Grows
<1>3. ASSUME NEW t \in Threads, Write(t) PROVE Grows
  <2>1. cap \in Nat /\ AutoGrowLimit \in Nat /\ Len(fifo) \in Nat /\ call[t] \in Call
    BY CapacityAssumption, LenProperties DEF Safe, TypeOK
  <2>2. Len(fifo) >= cap /\ cap < AutoGrowLimit /\ cap' = cap + Growth
    BY <1>3, <2>1 DEF Write, MakeRoom
  <2>3. cap' > cap
    BY <2>1, <2>2 DEF Growth
  <2>4. pc[t] = "move" /\ call[t].force
    BY <1>3, <2>1, <2>2 DEF Write, RoomKept, Call
  <2> QED BY <2>3, <2>4 DEF Grows
<1> QED
  BY <1>1, <1>2, <1>3

----------------------------------------------------------------------------
(* The theorems.                                                           *)

\* Every variable keeps its type, for any threads, packets and sizes.
THEOREM Typing == Spec => []TypeOK
<1>1. Safe => TypeOK
  BY DEF Safe
<1> QED BY InitSafe, NextSafe, <1>1, PTL DEF Spec

\* The mutex is held exactly in the critical sections.
THEOREM MutexDiscipline == Spec => []MutexHeld
<1>1. Safe => MutexHeld
  BY DEF Safe
<1> QED BY InitSafe, NextSafe, <1>1, PTL DEF Spec

\* While a popper sleeps, every queued packet has somebody on its way to it,
\* until a pop that timed out has taken a signal meant for a sleeping one: no
\* interleaving of pushes, pops, clears, deadlines and spurious wakeups loses
\* a wakeup of pop_condvar in another way.
THEOREM NoPopperMissesAPacket == Spec => []NoLostPop
<1>1. Init => NoLostPop
  BY DEF Init, NoLostPop, Waiting
<1> QED BY InitSafe, NextSafe, <1>1, NextNoLostPop, PTL DEF Spec

\* Every packet has one owner: it is queued once, or one thread has it.
THEOREM NoPacketShared == Spec => []OneOwner
<1>1. Init => PusherOwns /\ OneOwner
  BY DEF Init, PusherOwns, OneOwner, Contents
<1> QED BY InitSafe, NextSafe, <1>1, NextOneOwner, PTL DEF Spec

\* Without force a queue never outgrows the capacity it was made with.
THEOREM Backpressure == Spec => GrowsOnlyByForce
<1>1. Init => RoomKept
  BY DEF Init, RoomKept
<1>2. Spec => [][cap' # cap => Grows]_vars
  BY InitSafe, NextSafe, <1>1, NextRoomKept, StepGrows, PTL DEF Spec
<1> QED BY <1>2, PTL DEF GrowsOnlyByForce, Grows
=============================================================================
