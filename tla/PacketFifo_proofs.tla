------------------------- MODULE PacketFifo_proofs -------------------------
(***************************************************************************)
(* Every step of the queue (PacketQueue) is a step of what it promises     *)
(* (PacketFifo) or changes nothing of it; and no wakeup of a pusher is     *)
(* lost, the cases apart where a sleeping pusher is passed over.           *)
(***************************************************************************)
EXTENDS PacketQueue_proofs

\* A call that gives up has a deadline, or is a forced push on a full queue,
\* which stays full as the mutex is held.
Refusals ==
  \A t \in Threads :
    /\ pc[t] = "expired" => call[t].timed
    /\ pc[t] = "fail" => \/ call[t].timed
                         \/ call[t].kind = "push" /\ call[t].force /\ Len(fifo) >= cap

\* What is freed, or about to be, is empty.
Emptied ==
  /\ \A t \in Threads :
       /\ pc[t] = "drain" => call[t].kind \in {"clear", "free"}
       /\ pc[t] \in {"unlock", "destroy"} /\ call[t].kind = "free" => fifo = <<>>
  /\ ~live => fifo = <<>>

FifoInv == Safe /\ PusherOwns /\ OneOwner /\ RoomKept /\ Refusals /\ Emptied

LEMMA FifoInvInit == Init => FifoInv
<1> SUFFICES ASSUME Init PROVE FifoInv
  OBVIOUS
<1>1. Safe
  BY InitSafe
<1>2. PusherOwns /\ OneOwner /\ RoomKept /\ Refusals /\ Emptied
  BY DEF Init, PusherOwns, OneOwner, Contents, RoomKept, Refusals, Emptied
<1> QED
  BY <1>1, <1>2 DEF FifoInv

LEMMA NextRefusals == Safe /\ RoomKept /\ Refusals /\ [Next]_vars => Refusals'
<1> SUFFICES ASSUME Safe, RoomKept, Refusals, [Next]_vars PROVE Refusals'
  OBVIOUS
<1> USE DEF At, Goto
<1>t. /\ pc \in [Threads -> PC] /\ call \in [Threads -> Call]
      /\ \A t, u \in Threads : pc[t] \in Critical /\ pc[u] \in Critical => t = u
      /\ \A t \in Threads : pc[t] = "fail" => pc[t] \in Critical
  BY DEF Safe, TypeOK, MutexHeld, Critical
\* Whoever gives up keeps the mutex, so that the queue stays as it is.
<1>0. ASSUME NEW t \in Threads, pc[t] \in Critical, pc'[t] # "fail", pc'[t] # "expired",
             \A u \in Threads \ {t} : UNCHANGED <<pc[u], call[u]>>
      PROVE  Refusals'
  BY <1>0, <1>t DEF Refusals, Critical
<1>1. ASSUME UNCHANGED <<fifo, cap>>,
             \A u \in Threads : pc'[u] \in {"fail", "expired"} => pc[u] = pc'[u] /\ call'[u] = call[u]
      PROVE  Refusals'
  BY <1>1 DEF Refusals
<1>2. ASSUME NEW t \in Threads, NEW c \in Call, NEW p \in Packets, EnterPush(t, c, p)
      PROVE  Refusals'
  BY <1>1, <1>2, <1>t DEF EnterPush, Enter
<1>3. ASSUME NEW t \in Threads, NEW p \in Packets, FreePacket(t, p) PROVE Refusals'
  BY <1>1, <1>3 DEF FreePacket
<1>4. ASSUME NEW t \in Threads, NEW c \in Call, EnterOther(t, c) PROVE Refusals'
  BY <1>1, <1>4, <1>t DEF EnterOther, Enter
<1>5. ASSUME NEW t \in Threads, Lock(t) \/ LockTimeout(t) PROVE Refusals'
  BY <1>1, <1>5, <1>t DEF Lock, LockTimeout, Return
<1>6. ASSUME NEW t \in Threads, Relock(t) PROVE Refusals'
  BY <1>6, <1>t DEF Relock, Refusals
<1>7. ASSUME NEW t \in Threads, SpuriousWakeup(t) PROVE Refusals'
  BY <1>1, <1>7, <1>t DEF SpuriousWakeup
<1>8. ASSUME NEW t \in Threads, Expire(t) PROVE Refusals'
  BY <1>8, <1>t DEF Expire, Refusals
<1>9. ASSUME NEW t \in Threads, Check(t) \/ Wait(t) \/ Drained(t) PROVE Refusals'
  BY <1>1, <1>9, <1>t DEF Check, Wait, Drained
<1>10. ASSUME NEW t \in Threads, Write(t) \/ Read(t) PROVE Refusals'
  BY <1>0, <1>10, <1>t DEF Write, Read, Critical
<1>11. ASSUME NEW t \in Threads, WriteFails(t) PROVE Refusals'
  <2>1. call[t].kind = "push" /\ call[t].force
    BY <1>11, <1>t, LenProperties, CapacityAssumption DEF WriteFails, RoomKept, Safe, TypeOK, Call
  <2> QED
    BY <1>11, <1>t, <2>1 DEF WriteFails, Refusals
<1>12. ASSUME NEW t \in Threads, Signal(t) PROVE Refusals'
  BY <1>1, <1>12, <1>t DEF Signal, Waiting
<1>13. ASSUME NEW t \in Threads, Drain(t) PROVE Refusals'
  BY <1>0, <1>13, <1>t DEF Drain, Critical
<1>14. ASSUME NEW t \in Threads, Unlock(t) \/ Destroy(t) PROVE Refusals'
  BY <1>1, <1>14, <1>t DEF Unlock, Destroy, Return
<1>15. CASE Reinit
  <2>1. \A u \in Threads : pc'[u] = "idle"
    BY <1>15 DEF Reinit, Safe, Lifetime
  <2> QED
    BY <2>1 DEF Refusals
<1>16. CASE UNCHANGED vars
  BY <1>1, <1>16 DEF vars
<1> QED
  BY <1>2, <1>3, <1>4, <1>5, <1>6, <1>7, <1>8, <1>9, <1>10, <1>11, <1>12, <1>13, <1>14, <1>15,
     <1>16 DEF Next, Step

LEMMA NextEmptied == Safe /\ Emptied /\ [Next]_vars => Emptied'
<1> SUFFICES ASSUME Safe, Emptied, [Next]_vars PROVE Emptied'
  OBVIOUS
<1> USE DEF At, Goto
<1>t. /\ pc \in [Threads -> PC] /\ call \in [Threads -> Call]
      /\ \A t, u \in Threads : pc[t] \in Critical /\ pc[u] \in Critical => t = u
      /\ \A t, u \in Threads : pc[t] # "idle" /\ call[t].kind = "free" /\ u # t => pc[u] = "idle"
      /\ ~live => \A t \in Threads : pc[t] = "idle"
  BY DEF Safe, TypeOK, MutexHeld, Lifetime
<1>1. ASSUME UNCHANGED <<fifo, live>>,
             \A u \in Threads : pc'[u] \in {"drain", "unlock", "destroy"}
                                  => pc[u] = pc'[u] /\ call'[u] = call[u]
      PROVE  Emptied'
  BY <1>1 DEF Emptied
<1>2. ASSUME NEW t \in Threads, NEW c \in Call, NEW p \in Packets, EnterPush(t, c, p)
      PROVE  Emptied'
  BY <1>1, <1>2, <1>t DEF EnterPush, Enter
<1>3. ASSUME NEW t \in Threads, NEW p \in Packets, FreePacket(t, p) PROVE Emptied'
  BY <1>1, <1>3 DEF FreePacket
<1>4. ASSUME NEW t \in Threads, NEW c \in Call, EnterOther(t, c) PROVE Emptied'
  BY <1>1, <1>4, <1>t DEF EnterOther, Enter
<1>5. ASSUME NEW t \in Threads, Lock(t) PROVE Emptied'
  BY <1>5, <1>t DEF Lock, Emptied, Call
<1>6. ASSUME NEW t \in Threads, LockTimeout(t) PROVE Emptied'
  BY <1>1, <1>6, <1>t DEF LockTimeout, Return
<1>7. ASSUME NEW t \in Threads, Relock(t) \/ SpuriousWakeup(t) \/ Expire(t) PROVE Emptied'
  BY <1>1, <1>7, <1>t DEF Relock, SpuriousWakeup, Expire
<1>8. ASSUME NEW t \in Threads, Check(t) \/ Wait(t) \/ WriteFails(t) PROVE Emptied'
  BY <1>1, <1>8, <1>t DEF Check, Wait, WriteFails
\* A packet comes or goes: the queue is not being freed.
<1>9. ASSUME NEW t \in Threads, Write(t) \/ Read(t) PROVE Emptied'
  <2>1. /\ pc[t] = "move" /\ call[t].kind # "free" /\ UNCHANGED <<live, call>>
        /\ pc' = [pc EXCEPT ![t] = "signal"]
    BY <1>9 DEF Write, Read
  <2>2. \A u \in Threads : call[u].kind = "free" => pc[u] = "idle"
    BY <2>1, <1>t
  <2> QED
    BY <1>t, <2>1, <2>2 DEF Emptied
<1>10. ASSUME NEW t \in Threads, Signal(t) PROVE Emptied'
  <2>1. call[t].kind \in {"push", "pop"} /\ UNCHANGED <<fifo, live, call>>
    BY <1>10 DEF Signal, Safe, Shape
  <2>2. \A u \in Threads : pc'[u] \in {"drain", "unlock", "destroy"} => pc[u] = pc'[u] \/ u = t
    BY <1>10, <1>t DEF Signal, Waiting
  <2>3. pc'[t] # "drain" \/ pc[t] = "drain"
    BY <1>10, <1>t DEF Signal, Waiting
  <2> QED
    BY <2>1, <2>2, <2>3 DEF Emptied
<1>11. ASSUME NEW t \in Threads, Drain(t) PROVE Emptied'
  <2>1. pc[t] = "drain" /\ fifo # <<>> /\ UNCHANGED <<live, pc, call>> /\ live
    BY <1>11, <1>t DEF Drain
  <2>2. \A u \in Threads : pc[u] \in {"unlock", "destroy"} => call[u].kind # "free"
    BY <2>1 DEF Emptied
  <2> QED
    BY <2>1, <2>2 DEF Emptied
<1>12. ASSUME NEW t \in Threads, Drained(t) PROVE Emptied'
  BY <1>12, <1>t DEF Drained, Emptied
<1>13. ASSUME NEW t \in Threads, Unlock(t) PROVE Emptied'
  <2>1. CASE call[t].kind = "free"
    BY <1>13, <2>1, <1>t DEF Unlock, Emptied, Safe, Shape
  <2>2. CASE call[t].kind # "free"
    BY <1>1, <1>13, <2>2, <1>t DEF Unlock, Return
  <2> QED
    BY <2>1, <2>2
<1>14. ASSUME NEW t \in Threads, Destroy(t) PROVE Emptied'
  <2>1. pc[t] = "destroy" /\ call[t].kind = "free" /\ fifo = <<>> /\ UNCHANGED fifo
    BY <1>14 DEF Destroy, Safe, Lifetime, Emptied
  <2>2. \A u \in Threads : pc'[u] = "idle"
    BY <1>14, <1>t, <2>1 DEF Destroy, Return
  <2> QED
    BY <2>1, <2>2 DEF Emptied
<1>15. CASE Reinit
  BY <1>15 DEF Reinit, Emptied
<1>16. CASE UNCHANGED vars
  BY <1>1, <1>16 DEF vars
<1> QED
  BY <1>2, <1>3, <1>4, <1>5, <1>6, <1>7, <1>8, <1>9, <1>10, <1>11, <1>12, <1>13, <1>14, <1>15,
     <1>16 DEF Next, Step

LEMMA FifoInvNext == FifoInv /\ [Next]_vars => FifoInv'
BY NextSafe, NextOneOwner, NextRoomKept, NextRefusals, NextEmptied DEF FifoInv

----------------------------------------------------------------------------
(* The steps of PacketFifo.                                                *)

\* What a step of one thread does to the stages of all.
LEMMA Moves ==
  ASSUME NEW t \in Threads, pc \in [Threads -> PC], NEW where, pc' = [pc EXCEPT ![t] = where]
  PROVE  /\ Stage' = [Stage EXCEPT ![t] = Progress(where)]
         /\ Stage[t] = Progress(pc[t])
         /\ Progress(where) = Progress(pc[t]) => UNCHANGED Stage
BY DEF Stage

\* The items are the queue's unless somebody clears it.
LEMMA ItemsAre ==
  /\ (\A u \in Threads : pc[u] # "drain") => Items = fifo
  /\ (\E u \in Threads : pc[u] = "drain") => Items = <<>>
BY DEF Items

LEMMA ItemsWillBe ==
  /\ (\A u \in Threads : pc'[u] # "drain") => Items' = fifo'
  /\ (\E u \in Threads : pc'[u] = "drain") => Items' = <<>>
BY DEF Items

\* Items stay while the queue does and nobody begins or ends to clear it.
LEMMA ItemsStay ==
  ASSUME UNCHANGED fifo, \A u \in Threads : (pc[u] = "drain") = (pc'[u] = "drain")
  PROVE  UNCHANGED Items
BY DEF Items

\* A thread with the mutex is the only one that may be clearing.
LEMMA AloneInside ==
  ASSUME Safe, NEW t \in Threads, pc[t] \in Critical
  PROVE  \A u \in Threads : u # t => pc[u] \notin Critical /\ pc[u] # "drain"
BY DEF Safe, MutexHeld, Critical

\* A thread may leave its call whichever way it leaves PacketFifo's.
LEMMA Leaves ==
  ASSUME NEW t \in Threads, TypeOK, Return(t), UNCHANGED <<Items, cap, held>>
  PROVE  Fifo!Leave(t)
<1>1. Stage' = [Stage EXCEPT ![t] = "idle"]
  BY Moves DEF Return, Goto, TypeOK, Progress
<1>2. NoCall \in Call
  BY NoCallType
<1> QED
  BY <1>1, <1>2 DEF Return, Fifo!Leave

\* The steps that change nothing a caller could see.
LEMMA Inner ==
  ASSUME FifoInv, NEW t \in Threads,
         \/ Relock(t) \/ SpuriousWakeup(t) \/ Expire(t) \/ Check(t) \/ Wait(t) \/ WriteFails(t)
         \/ Signal(t) \/ Drained(t) \/ Drain(t) \/ (Unlock(t) /\ call[t].kind = "free")
         \/ (Lock(t) /\ call[t].kind \in {"push", "pop"})
  PROVE  UNCHANGED Fifo!fifoVars
<1> USE DEF At, Goto
<1>t. /\ pc \in [Threads -> PC] /\ call \in [Threads -> Call] /\ Safe
      /\ \A u \in Threads : pc[u] \in Critical => \A w \in Threads : w # u => pc[w] # "drain"
  BY AloneInside DEF FifoInv, Safe, TypeOK
<1>1. UNCHANGED <<cap, call, arg, held>>
  BY DEF Relock, SpuriousWakeup, Expire, Check, Wait, WriteFails, Signal, Drained, Drain, Unlock,
         Lock
<1>2. UNCHANGED Stage
  <2>1. CASE Drain(t)
    BY <2>1 DEF Drain, Stage
  <2>2. CASE Signal(t)
    <3>1. \A u \in Threads : Progress(pc'[u]) = Progress(pc[u])
      BY <1>t, <2>2 DEF Signal, Waiting, Progress
    <3> QED
      BY <3>1 DEF Stage
  <2>3. CASE ~Drain(t) /\ ~Signal(t)
    \* A step within one stage of the call.
    <3>1. ASSUME NEW where \in PC, pc' = [pc EXCEPT ![t] = where],
                 \/ {pc[t], where} \subseteq {"lock", "check", "wait", "woken", "expired", "move", "fail"}
                 \/ {pc[t], where} \subseteq {"signal", "drain", "unlock", "destroy"}
          PROVE  UNCHANGED Stage
      <4>1. Progress(where) = Progress(pc[t])
        BY <3>1 DEF Progress
      <4> QED
        BY <1>t, <3>1, <4>1, Moves
    <3>2. CASE Relock(t)
      <4>1. CASE pc[t] = "woken"
        BY <3>1, <3>2, <4>1 DEF Relock, PC
      <4>2. CASE pc[t] = "expired"
        BY <3>1, <3>2, <4>2 DEF Relock, PC
      <4> QED
        BY <3>2, <4>1, <4>2 DEF Relock
    <3>3. CASE SpuriousWakeup(t)
      BY <3>1, <3>3 DEF SpuriousWakeup, PC
    <3>4. CASE Expire(t)
      BY <3>1, <3>4 DEF Expire, PC
    <3>5. CASE Check(t)
      BY <3>1, <3>5 DEF Check, PC
    <3>6. CASE Wait(t)
      BY <3>1, <3>6 DEF Wait, PC
    <3>7. CASE WriteFails(t)
      BY <3>1, <3>7 DEF WriteFails, PC
    <3>8. CASE Drained(t)
      BY <3>1, <3>8 DEF Drained, PC
    <3>9. CASE Unlock(t) /\ call[t].kind = "free"
      <4>1. pc[t] \in {"unlock", "destroy"}
        BY <1>t, <3>9 DEF Unlock, FifoInv, Safe, Shape
      <4> QED
        BY <3>1, <3>9, <4>1 DEF Unlock, PC
    <3>10. CASE Lock(t) /\ call[t].kind \in {"push", "pop"}
      BY <3>1, <3>10 DEF Lock, PC
    <3> QED
      BY <2>3, <3>2, <3>3, <3>4, <3>5, <3>6, <3>7, <3>8, <3>9, <3>10
  <2> QED
    BY <2>1, <2>2, <2>3
<1>3. UNCHANGED Items
  <2>1. CASE Drain(t)
    BY <2>1, ItemsAre, ItemsWillBe DEF Drain
  <2>2. CASE Drained(t)
    <3>1. \A u \in Threads : pc'[u] # "drain"
      BY <1>t, <2>2 DEF Drained, Critical
    <3> QED
      BY <2>2, <3>1, ItemsAre, ItemsWillBe DEF Drained
  <2>3. CASE ~Drain(t) /\ ~Drained(t)
    <3>1. UNCHANGED fifo /\ \A u \in Threads : (pc[u] = "drain") = (pc'[u] = "drain")
      BY <1>t, <2>3 DEF Relock, SpuriousWakeup, Expire, Check, Wait, WriteFails, Signal, Waiting,
         Unlock, Lock
    <3> QED
      BY <3>1, ItemsStay
  <2> QED
    BY <2>1, <2>2, <2>3
<1> QED
  BY <1>1, <1>2, <1>3 DEF Fifo!fifoVars

\* Every step of the queue is one of PacketFifo or none.
LEMMA FifoStep == FifoInv /\ [Next]_vars => [Fifo!FifoNext]_(Fifo!fifoVars)
<1> SUFFICES ASSUME FifoInv, [Next]_vars PROVE Fifo!FifoNext \/ UNCHANGED Fifo!fifoVars
  OBVIOUS
<1> USE DEF At, Goto
<1>t. /\ Safe /\ TypeOK /\ Shape /\ Lifetime /\ OneOwner
      /\ pc \in [Threads -> PC] /\ call \in [Threads -> Call]
      /\ fifo \in Seq(Packets) /\ Len(fifo) \in Nat /\ cap \in Nat
      /\ \A t \in Threads : pc[t] \in Critical => \A u \in Threads : u # t => pc[u] # "drain"
  BY AloneInside, LenProperties DEF FifoInv, Safe, TypeOK
<1>0. Items = fifo \/ Items = <<>>
  BY DEF Items
<1>1. ASSUME NEW t \in Threads, NEW c \in Call, NEW p \in Packets, EnterPush(t, c, p)
      PROVE  Fifo!Enter(t)
  <2>0. pc' = [pc EXCEPT ![t] = "lock"] /\ pc[t] = "idle"
    BY <1>1 DEF EnterPush, Enter
  <2>1. Stage' = [Stage EXCEPT ![t] = "called"] /\ Stage[t] = "idle"
    <3>1. Stage' = [Stage EXCEPT ![t] = Progress("lock")] /\ Stage[t] = Progress("idle")
      BY <1>t, <2>0, Moves
    <3>2. Progress("lock") = "called" /\ Progress("idle") = "idle"
      BY DEF Progress
    <3> QED
      BY <3>1, <3>2
  <2>2. UNCHANGED Items
    BY <1>1, <1>t, ItemsStay DEF EnterPush, Enter
  <2>3. p \notin Contents /\ \A u \in Threads \ {t} : p \notin held[u]
    BY <1>1, <1>t DEF EnterPush, Allocated, OneOwner
  <2>4. p \notin Fifo!InQueue
    BY <1>0, <2>3 DEF Fifo!InQueue, Contents
  <2> QED
    BY <1>1, <2>1, <2>2, <2>3, <2>4 DEF EnterPush, Enter, Fifo!Enter
<1>2. ASSUME NEW t \in Threads, NEW c \in Call, EnterOther(t, c) PROVE Fifo!Enter(t)
  <2>0. pc' = [pc EXCEPT ![t] = "lock"] /\ pc[t] = "idle"
    BY <1>2 DEF EnterOther, Enter
  <2>1. Stage' = [Stage EXCEPT ![t] = "called"] /\ Stage[t] = "idle"
    <3>1. Stage' = [Stage EXCEPT ![t] = Progress("lock")] /\ Stage[t] = Progress("idle")
      BY <1>t, <2>0, Moves
    <3>2. Progress("lock") = "called" /\ Progress("idle") = "idle"
      BY DEF Progress
    <3> QED
      BY <3>1, <3>2
  <2>2. UNCHANGED Items
    BY <1>2, <1>t, ItemsStay DEF EnterOther, Enter
  <2> QED
    BY <1>2, <2>1, <2>2 DEF EnterOther, Enter, Fifo!Enter
<1>3. ASSUME NEW t \in Threads, Lock(t), call[t].kind \in {"clear", "free"} PROVE Fifo!Flush(t)
  <2>1. pc' = [pc EXCEPT ![t] = "drain"] /\ pc[t] = "lock"
    BY <1>3 DEF Lock
  <2>2. Stage' = [Stage EXCEPT ![t] = "done"] /\ Stage[t] = "called"
    BY <1>t, <2>1, Moves DEF Progress
  <2>3. Items' = <<>>
    BY <1>t, <2>1, ItemsWillBe
  <2> QED
    BY <1>3, <2>2, <2>3 DEF Lock, Fifo!Flush
<1>4. ASSUME NEW t \in Threads, Lock(t), call[t].kind \notin {"clear", "free", "push", "pop"}
      PROVE  Fifo!Look(t)
  <2>1. pc' = [pc EXCEPT ![t] = "unlock"] /\ pc[t] = "lock" /\ call[t].kind = "is_empty"
    BY <1>4, <1>t DEF Lock, Call
  <2>2. Stage' = [Stage EXCEPT ![t] = "done"] /\ Stage[t] = "called"
    BY <1>t, <2>1, Moves DEF Progress
  <2>3. UNCHANGED Items
    BY <1>4, <1>t, <2>1, ItemsStay DEF Lock
  <2> QED
    BY <1>4, <2>1, <2>2, <2>3 DEF Lock, Fifo!Look
<1>5. ASSUME NEW t \in Threads, LockTimeout(t) PROVE Fifo!Refuse(t)
  <2>1. UNCHANGED Items
    BY <1>5, <1>t, ItemsStay DEF LockTimeout, Return
  <2>2. Fifo!Leave(t)
    BY <1>5, <1>t, <2>1, Leaves DEF LockTimeout
  <2>3. Stage[t] = "called"
    BY <1>5 DEF LockTimeout, Stage, Progress
  <2> QED
    BY <1>5, <2>2, <2>3 DEF LockTimeout, Fifo!Refuse
<1>6. ASSUME NEW t \in Threads, Write(t) PROVE Fifo!Put(t)
  <2>1. pc[t] = "move" /\ pc' = [pc EXCEPT ![t] = "signal"] /\ call[t].kind = "push"
    BY <1>6 DEF Write
  <2>2. Stage' = [Stage EXCEPT ![t] = "done"] /\ Stage[t] = "called"
    BY <1>t, <2>1, Moves DEF Progress
  <2>3. Items = fifo /\ Items' = fifo'
    BY <1>t, <2>1, ItemsAre, ItemsWillBe DEF Critical
  <2>4. \/ Len(fifo) < cap /\ UNCHANGED cap
        \/ call[t].force /\ cap' > cap /\ cap' \in Nat
    <3>1. CASE Len(fifo) < cap
      BY <1>6, <1>t, <3>1 DEF Write, MakeRoom
    <3>2. CASE Len(fifo) >= cap
      <4>1. cap < AutoGrowLimit /\ cap' = cap + Growth
        BY <1>6, <1>t, <3>2 DEF Write, MakeRoom
      <4>2. cap' > cap /\ cap' \in Nat
        BY <1>t, <4>1, CapacityAssumption DEF Growth
      <4>3. call[t].force
        BY <1>t, <2>1, <3>2 DEF FifoInv, RoomKept, Call
      <4> QED
        BY <4>2, <4>3
    <3> QED
      BY <1>t, <3>1, <3>2
  <2> QED
    BY <1>6, <2>1, <2>2, <2>3, <2>4 DEF Write, Fifo!Put
<1>7. ASSUME NEW t \in Threads, Read(t) PROVE Fifo!Take(t)
  <2>1. pc[t] = "move" /\ pc' = [pc EXCEPT ![t] = "signal"] /\ call[t].kind = "pop"
    BY <1>7 DEF Read
  <2>2. Stage' = [Stage EXCEPT ![t] = "done"] /\ Stage[t] = "called"
    BY <1>t, <2>1, Moves DEF Progress
  <2>3. Items = fifo /\ Items' = fifo'
    BY <1>t, <2>1, ItemsAre, ItemsWillBe DEF Critical
  <2>4. fifo # <<>>
    BY <1>t, <2>1 DEF Shape
  <2> QED
    BY <1>7, <2>1, <2>2, <2>3, <2>4 DEF Read, Fifo!Take
<1>8. ASSUME NEW t \in Threads, Unlock(t), call[t].kind # "free"
      PROVE  Fifo!Succeed(t) \/ Fifo!Refuse(t)
  <2>1. pc[t] \in {"unlock", "fail"} /\ Return(t) /\ UNCHANGED <<fifo, cap, held>>
    BY <1>8 DEF Unlock
  <2>2. UNCHANGED Items
    BY <1>t, <2>1, ItemsStay DEF Return
  <2>3. Fifo!Leave(t)
    BY <1>t, <2>1, <2>2, Leaves
  <2>4. CASE pc[t] = "unlock"
    BY <2>3, <2>4 DEF Fifo!Succeed, Stage, Progress
  <2>5. CASE pc[t] = "fail"
    <3>1. Stage[t] = "called" /\ Items = fifo
      BY <1>t, <2>5, ItemsAre DEF Stage, Progress, Critical
    <3>2. \/ call[t].kind \in {"push", "pop"} /\ call[t].timed
          \/ call[t].kind = "push" /\ call[t].force /\ Len(fifo) >= cap
      BY <1>t, <2>5 DEF FifoInv, Refusals, Shape
    <3> QED
      BY <2>3, <3>1, <3>2 DEF Fifo!Refuse
  <2> QED
    BY <2>1, <2>4, <2>5
<1>9. ASSUME NEW t \in Threads, Destroy(t) PROVE Fifo!Succeed(t)
  <2>1. pc[t] = "destroy" /\ Return(t) /\ UNCHANGED <<fifo, cap, held>>
    BY <1>9 DEF Destroy
  <2>2. UNCHANGED Items
    BY <1>t, <2>1, ItemsStay DEF Return
  <2>3. Fifo!Leave(t)
    BY <1>t, <2>1, <2>2, Leaves
  <2> QED
    BY <2>1, <2>3 DEF Fifo!Succeed, Stage, Progress
<1>10. CASE Reinit
  <2>1. UNCHANGED Stage
    BY <1>10 DEF Reinit, Stage
  <2>2. Items = <<>> /\ Items' = <<>>
    BY <1>10, <1>0 DEF Reinit, Items, FifoInv, Emptied
  <2> QED
    BY <1>10, <2>1, <2>2, CapacityAssumption DEF Reinit, Fifo!Renew, Fifo!FifoNext
<1>11. ASSUME NEW t \in Threads, NEW p \in Packets, FreePacket(t, p) PROVE Fifo!FreePacket(t)
  <2>1. UNCHANGED <<Stage, Items>> /\ Stage[t] = "idle"
    BY <1>11 DEF FreePacket, Stage, Items, Progress
  <2> QED
    BY <1>11, <2>1 DEF FreePacket, Fifo!FreePacket
<1>12. CASE UNCHANGED vars
  BY <1>12 DEF vars, Stage, Items, Fifo!fifoVars
<1> QED
  BY <1>1, <1>2, <1>3, <1>4, <1>5, <1>6, <1>7, <1>8, <1>9, <1>10, <1>11, <1>12, Inner
  DEF Next, Step, Fifo!FifoNext

LEMMA FifoBegins == Init => Fifo!FifoInit
<1> SUFFICES ASSUME Init PROVE Fifo!FifoInit
  OBVIOUS
<1>1. Items = <<>> /\ Stage = [t \in Threads |-> "idle"]
  BY DEF Init, Items, Stage, Progress
<1>2. call \in [Threads -> Call] /\ cap \in Nat
  BY NoCallType, CapacityAssumption DEF Init
<1> QED
  BY <1>1, <1>2 DEF Init, Fifo!FifoInit

\* The queue implements PacketFifo: whatever its threads do, each call that
\* succeeds takes effect once and at one moment, first in first out, and one
\* that fails has no effect.
THEOREM Refinement == Spec => ImplementsFifo
<1>1. Spec => [][Fifo!FifoNext]_(Fifo!fifoVars)
  BY FifoInvInit, FifoInvNext, FifoStep, PTL DEF Spec
<1> QED
  BY <1>1, FifoBegins, PTL DEF Spec, ImplementsFifo, Fifo!FifoSpec

----------------------------------------------------------------------------
(* No lost wakeup of a pusher.                                             *)

LEMMA NextNoLostPush == FifoInv /\ FifoInv' /\ NoLostPush /\ [Next]_vars => NoLostPush'
<1> SUFFICES ASSUME FifoInv, FifoInv', NoLostPush, [Next]_vars PROVE NoLostPush'
  OBVIOUS
<1> DEFINE A == Cardinality(Awake("push"))
           S == Cardinality(Signalling("pop"))
<1> USE DEF At, Goto
<1>t. /\ fifo \in Seq(Packets) /\ fifo' \in Seq(Packets)
      /\ Len(fifo) \in Nat /\ Len(fifo') \in Nat /\ cap \in Nat /\ cap' \in Nat
      /\ pc \in [Threads -> PC] /\ call \in [Threads -> Call]
      /\ arg \in [Threads -> Packets \cup {NoPacket}]
  BY LenProperties DEF FifoInv, Safe, TypeOK
\* Of what is passed over nothing is said.
<1>u. ASSUME untold' = PassedOver("push"), Waiting("push")' = Waiting("push") PROVE NoLostPush'
  BY <1>u DEF PassedOver, NoLostPush
<1>0. ASSUME UNCHANGED <<fifo, cap>>, "push" \in untold => "push" \in untold',
             \A u \in Threads : /\ pc'[u] = "wait" /\ call'[u].kind = "push"
                                     => pc[u] = "wait" /\ call[u].kind = "push"
                                /\ u \in Awake("push") => u \in Awake("push")'
                                /\ u \in Signalling("pop") => u \in Signalling("pop")'
      PROVE  NoLostPush'
  <2>1. Awake("push") \subseteq Awake("push")' /\ Signalling("pop") \subseteq Signalling("pop")'
    BY <1>0 DEF Awake, Signalling
  <2>2. /\ Cardinality(Awake("push")) <= Cardinality(Awake("push")')
        /\ Cardinality(Signalling("pop")) <= Cardinality(Signalling("pop")')
    BY <2>1, WatchersFinite2, FS_Subset
  <2>3. Waiting("push")' # {} => Waiting("push") # {}
    BY <1>0 DEF Waiting
  <2> QED
    BY <1>0, <1>t, <2>2, <2>3, WatchersFinite, WatchersFinite2 DEF NoLostPush
<1>1. ASSUME NEW t \in Threads, NEW c \in Call, NEW p \in Packets, EnterPush(t, c, p)
      PROVE  NoLostPush'
  BY <1>0, <1>1, <1>t DEF EnterPush, Enter, Awake, Signalling
<1>2. ASSUME NEW t \in Threads, NEW c \in Call, EnterOther(t, c) PROVE NoLostPush'
  BY <1>0, <1>2, <1>t DEF EnterOther, Enter, Awake, Signalling
<1>3. ASSUME NEW t \in Threads, Lock(t) PROVE NoLostPush'
  BY <1>0, <1>3, <1>t DEF Lock, Awake, Signalling
<1>4. ASSUME NEW t \in Threads, LockTimeout(t) PROVE NoLostPush'
  BY <1>0, <1>4, <1>t DEF LockTimeout, Return, Awake, Signalling
<1>5. ASSUME NEW t \in Threads, Relock(t) PROVE NoLostPush'
  BY <1>0, <1>5, <1>t DEF Relock, Awake, Signalling
<1>6. ASSUME NEW t \in Threads, SpuriousWakeup(t) \/ Expire(t) PROVE NoLostPush'
  BY <1>0, <1>6, <1>t DEF SpuriousWakeup, Expire, Awake, Signalling
<1>7. ASSUME NEW t \in Threads, Check(t) PROVE NoLostPush'
  BY <1>0, <1>7, <1>t DEF Check, Awake, Signalling
\* A pusher falls asleep only on a full queue.
<1>8. ASSUME NEW t \in Threads, Wait(t) PROVE NoLostPush'
  <2>1. CASE call[t].kind = "push"
    <3>1. cap' - Len(fifo') <= 0
      BY <1>8, <2>1, <1>t DEF Wait, CanProceed
    <3> QED
      BY <3>1, <1>t, WatchersFinite2 DEF NoLostPush
  <2>2. CASE call[t].kind # "push"
    BY <1>0, <1>8, <2>2, <1>t DEF Wait, Awake, Signalling
  <2> QED
    BY <2>1, <2>2
\* A pusher that leaves the watch fills a slot.
<1>9. ASSUME NEW t \in Threads, Write(t) PROVE NoLostPush'
  <2>1. /\ Awake("push")' = Awake("push") \ {t} /\ t \in Awake("push")
        /\ Waiting("push")' = Waiting("push")
        /\ Signalling("pop")' = Signalling("pop")
    BY <1>9, <1>t DEF Write, Awake, Waiting, Signalling
  <2>2. Cardinality(Awake("push")') = A - 1
    BY <2>1, WatchersFinite, FS_RemoveElement
  <2>3. Len(fifo') = Len(fifo) + 1
    <3>1. arg[t] \in Packets
      BY <1>9 DEF Write, FifoInv, Safe, Shape
    <3> QED
      BY <1>9, <3>1, <1>t, AppendProperties DEF Write
  <2>4. CASE Len(fifo) < cap
    <3>1. cap' = cap /\ untold' = untold
      BY <1>9, <1>t, <2>4 DEF Write, MakeRoom
    <3> QED
      BY <2>1, <2>2, <2>3, <3>1, <1>t, WatchersFinite DEF NoLostPush
  <2>5. CASE Len(fifo) >= cap /\ Growth = 1
    <3>1. cap' = cap + 1
      BY <1>9, <1>t, <2>5 DEF Write, MakeRoom
    <3>2. cap' - Len(fifo') <= 0
      BY <2>3, <2>5, <3>1, <1>t
    <3> QED
      BY <3>2, <1>t, WatchersFinite2 DEF NoLostPush
  <2>6. CASE Len(fifo) >= cap /\ Growth # 1
    <3>1. untold' = PassedOver("push")
      BY <1>9, <1>t, <2>6 DEF Write, MakeRoom
    <3> QED
      BY <1>u, <2>1, <3>1
  <2> QED
    BY <2>4, <2>5, <2>6, <1>t
\* A push that finds no memory found the queue full.
<1>10. ASSUME NEW t \in Threads, WriteFails(t) PROVE NoLostPush'
  <2>1. cap' - Len(fifo') <= 0
    BY <1>10, <1>t DEF WriteFails
  <2> QED
    BY <2>1, <1>t, WatchersFinite2 DEF NoLostPush
\* A new slot comes with a popper that will signal it.
<1>11. ASSUME NEW t \in Threads, Read(t) PROVE NoLostPush'
  <2>1. /\ Awake("push")' = Awake("push")
        /\ Waiting("push")' = Waiting("push")
        /\ Signalling("pop")' = Signalling("pop") \cup {t}
        /\ t \notin Signalling("pop")
    BY <1>11, <1>t DEF Read, Awake, Waiting, Signalling
  <2>2. Cardinality(Signalling("pop")') = S + 1
    BY <2>1, WatchersFinite, FS_AddElement
  <2>3. Len(fifo') = Len(fifo) - 1 /\ cap' = cap /\ untold' = untold
    <3>1. fifo # <<>>
      BY <1>11 DEF Read, FifoInv, Safe, Shape
    <3> QED
      BY <1>11, <3>1, <1>t, HeadTailProperties DEF Read
  <2> QED
    BY <2>1, <2>2, <2>3, <1>t, WatchersFinite DEF NoLostPush
\* The signal hands the watch over to a sleeper, or passes the sleepers over.
<1>12. ASSUME NEW t \in Threads, Signal(t) PROVE NoLostPush'
  <2>0. call[t].kind \in {"push", "pop"} /\ UNCHANGED <<fifo, cap, call>> /\ pc[t] = "signal"
    BY <1>12 DEF Signal, FifoInv, Safe, Shape
  <2>1. ASSUME call[t].kind = "pop", NEW w \in Waiting("push"),
               pc' = [pc EXCEPT ![t] = "unlock", ![w] = "woken"], UNCHANGED untold
        PROVE  NoLostPush'
    <3>2. /\ Awake("push")' = Awake("push") \cup {w}
          /\ w \notin Awake("push")
          /\ Signalling("pop")' = Signalling("pop") \ {t}
          /\ t \in Signalling("pop")
      BY <2>0, <2>1, <1>t DEF Awake, Waiting, Signalling
    <3>3. /\ Cardinality(Awake("push")') = A + 1
          /\ Cardinality(Signalling("pop")') = S - 1
      BY <3>2, WatchersFinite, FS_AddElement, FS_RemoveElement
    <3> QED
      BY <2>0, <2>1, <3>3, <1>t, WatchersFinite DEF NoLostPush
  <2>2. ASSUME call[t].kind = "pop", Goto(t, "unlock"), untold' = PassedOver("push")
        PROVE  NoLostPush'
    <3>1. Waiting("push")' = Waiting("push")
      BY <2>0, <2>2, <1>t DEF Waiting
    <3> QED
      BY <1>u, <2>2, <3>1
  <2>3. ASSUME call[t].kind = "push", NEW w \in Waiting("pop"),
               pc' = [pc EXCEPT ![t] = "unlock", ![w] = "woken"], UNCHANGED untold
        PROVE  NoLostPush'
    BY <1>0, <2>0, <2>3, <1>t DEF Waiting, Awake, Signalling
  <2>4. ASSUME call[t].kind = "push", Goto(t, "unlock"), untold' = PassedOver("pop")
        PROVE  NoLostPush'
    <3>1. "push" \in untold => "push" \in untold'
      BY <2>4 DEF PassedOver
    <3> QED
      BY <1>0, <2>0, <2>4, <3>1, <1>t DEF Awake, Signalling
  <2>5. CASE call[t].kind = "pop"
    BY <1>12, <2>1, <2>2, <2>5 DEF Signal, OtherSide
  <2>6. CASE call[t].kind = "push"
    BY <1>12, <2>3, <2>4, <2>6 DEF Signal, OtherSide
  <2> QED
    BY <2>0, <2>5, <2>6
<1>13. ASSUME NEW t \in Threads, Drain(t) PROVE NoLostPush'
  <2>1. untold' = PassedOver("push") /\ Waiting("push")' = Waiting("push")
    BY <1>13 DEF Drain, Waiting
  <2> QED
    BY <1>u, <2>1
<1>18. ASSUME NEW t \in Threads, Drained(t) PROVE NoLostPush'
  BY <1>0, <1>18, <1>t DEF Drained, Awake, Signalling
<1>14. ASSUME NEW t \in Threads, Unlock(t) \/ Destroy(t) PROVE NoLostPush'
  BY <1>0, <1>14, <1>t DEF Unlock, Destroy, Return, Awake, Signalling
<1>15. CASE Reinit
  <2>1. Waiting("push")' = {}
    BY <1>15 DEF Reinit, FifoInv, Safe, Lifetime, Waiting
  <2> QED
    BY <2>1 DEF NoLostPush
<1>16. ASSUME NEW t \in Threads, NEW p \in Packets, FreePacket(t, p) PROVE NoLostPush'
  BY <1>0, <1>16, <1>t DEF FreePacket, Awake, Signalling
<1>17. CASE UNCHANGED vars
  BY <1>0, <1>17, <1>t DEF vars, Awake, Signalling
<1> QED
  BY <1>1, <1>2, <1>3, <1>4, <1>5, <1>6, <1>7, <1>8, <1>9, <1>10, <1>11, <1>12,
     <1>13, <1>14, <1>15, <1>16, <1>17, <1>18 DEF Next, Step

\* While a pusher sleeps, every free slot has somebody on the way to it: with
\* any calls of the threads, no interleaving loses the wakeup of push_condvar
\* but by passing a sleeper over, which only a clear, a push that grows the
\* AVFifo or a push that timed out and took the signal can do.
THEOREM NoPusherMissesRoom == Spec => []NoLostPush
<1>1. Init => NoLostPush
  BY DEF Init, NoLostPush, Waiting
<1> QED
  BY <1>1, FifoInvInit, FifoInvNext, NextNoLostPush, PTL DEF Spec
=============================================================================
