--------------------------- MODULE Demuxer_proofs ---------------------------
(***************************************************************************)
(* Proofs about Demuxer, for any file, any number of decoders and streams  *)
(* and any number of seeks: a packet from before a seek is never left in a *)
(* queue, a decoder has each packet once and in file order, none is        *)
(* dropped by a timeout, and a seek without the thread lands where asked.  *)
(***************************************************************************)
EXTENDS Demuxer, FunctionTheorems, FiniteSetTheorems, SequenceTheorems, TLAPS

\* The list holds the decoders in use, each once; who is yet to be opened has
\* nothing queued.
Attached ==
  /\ \A i, j \in 1..Len(list) : list[i] = list[j] => i = j
  /\ \A d \in Decoders : d \in Members(list) <=> user[d] \in {"idle", "read"}
  /\ \A d \in Decoders : user[d] = "new" => queue[d] = <<>>

Seeking == {"flush", "clear", "seek", "sought"}

\* A request is pending that the thread has yet to carry out.
Due == IF seekRequest # None /\ thread # "sought" THEN 1 ELSE 0

\* Where the thread stands says what it holds and what it has to do.
Control ==
  /\ listLock <=> thread \in {"clear", "sending"}
  /\ ~useThread => thread = "off" /\ ~pending /\ \A d \in Decoders : queue[d] = <<>>
  /\ thread \in Seeking => seekRequest # None /\ request # None /\ ~pending
  /\ thread = "sending" => pending
  /\ ~pending => ~HasData(cur)
  /\ epoch + Due <= asked

Typed == TypeOK /\ Attached /\ Control

\* While the queues are cleared those before `at` are empty, and all are when
\* the file is sought; the packet at hand is not from before the last seek.
Cleared ==
  /\ thread = "clear" => \A i \in 1..Len(list) : i < at => queue[list[i]] = <<>>
  /\ thread = "seek" => \A d \in Members(list) : queue[d] = <<>>
  /\ pending => cur.epoch = epoch

\* A sequence of packets is in file order.
Rising(s) == \A i, j \in 1..Len(s) : i < j /\ HasData(s[j]) => s[i].pos < s[j].pos

\* What a decoder has is from before the place in the file where reading goes
\* on, and before the packet at hand unless it has that one.
Behind ==
  /\ \A d \in Decoders : got[d] # <<>> => user[d] # "new" /\ got[d][1].epoch <= epoch
  /\ ~pending /\ thread \notin {"flush", "clear", "seek", "exited"} /\ next < Len(File) =>
       \A d \in Members(list) : \A p \in Members(Sequence(d)) : p.pos < next
  /\ pending /\ HasData(cur) =>
       \A d \in Members(list) :
         lastIdx[d] # idx => \A p \in Members(Sequence(d)) : p.pos < cur.pos

Reading == Typed /\ Fresh /\ Cleared /\ Ordered /\ Behind

\* Whoever of its stream the loop has passed has the packet at hand.
Passed ==
  thread = "sending" =>
    \A i \in 1..Len(list) : i < at /\ OfStream(list[i], cur) => lastIdx[list[i]] = idx

\* Without the thread, reading goes on no further than the last target.
Aimed ==
  /\ \A d \in Decoders : user[d] = "new" => target[d] = None
  /\ ~useThread => \A d \in Members(list) : target[d] # None => next <= target[d]

----------------------------------------------------------------------------
LEMMA Sizes ==
  /\ Len(File) \in Nat /\ Len(Opened) \in Nat \ {0} /\ Cardinality(Decoders) = Len(Opened)
  /\ Opened \in Seq(Decoders) /\ Head(Opened) \in Decoders
  /\ Capacity \in Nat /\ MaxSeeks \in Nat
  /\ None \notin Positions /\ SizeMax = -1 /\ None = -1
<1>1. PICK d \in Decoders : \E i \in 1..Len(Opened) : Opened[i] = d
  BY DecodersAssumption
<1>2. Opened # <<>> /\ Len(Opened) \in Nat \ {0}
  BY <1>1, DecodersAssumption, LenProperties, EmptySeq
<1>3. Head(Opened) \in Decoders
  BY <1>2, DecodersAssumption, HeadTailProperties
<1>4. Len(File) \in Nat
  BY FileAssumption, LenProperties
<1> QED
  BY <1>2, <1>3, <1>4, DecodersAssumption, BoundsAssumption DEF None, SizeMax, Positions

LEMMA ListShort ==
  ASSUME list \in Seq(Decoders), \A i, j \in 1..Len(list) : list[i] = list[j] => i = j
  PROVE  Len(list) \in Nat /\ Len(list) <= Len(Opened)
<1>1. Len(list) \in Nat /\ list \in Injection(1..Len(list), Decoders)
  BY LenProperties DEF Injection, IsInjective
<1>2. Cardinality(1..Len(list)) <= Cardinality(Decoders)
  BY <1>1, DecodersAssumption, FS_Injection
<1>3. Cardinality(1..Len(list)) = Len(list)
  BY <1>1, FS_Interval
<1> QED
  BY <1>1, <1>2, <1>3, Sizes

\* What a packet is made of.
LEMMA PacketFacts ==
  /\ \A p \in Packet : /\ p.pos \in 0..Len(File) /\ p.epoch \in 0..MaxSeeks
                       /\ HasData(p) <=> p.pos < Len(File)
  /\ \A n \in Positions : epoch \in 0..MaxSeeks =>
       /\ DataAt(n) \in Packet /\ HasData(DataAt(n))
       /\ DataAt(n).pos = n /\ DataAt(n).epoch = epoch
  /\ \A b \in BOOLEAN : epoch \in 0..MaxSeeks =>
       BlankNow(b) \in Packet /\ ~HasData(BlankNow(b)) /\ BlankNow(b).epoch = epoch
BY Sizes DEF Packet, Positions, Blank, HasData, DataAt, BlankNow

\* The steps of the thread leave the list and its users alone.
LEMMA AttachedKept ==
  ASSUME Attached, UNCHANGED <<list, user>>, \A d \in Decoders : user[d] = "new" => UNCHANGED queue[d]
  PROVE  Attached'
BY DEF Attached, Members

LEMMA InitTyped == Init => Typed
<1> SUFFICES ASSUME Init PROVE Typed
  OBVIOUS
<1> DEFINE first == Head(Opened)
<1>0. list = <<first>> /\ first \in Decoders /\ Len(list) = 1 /\ list[1] = first
  BY Sizes DEF Init
<1>1. TypeOK
  <2>1. list \in Seq(Decoders)
    BY <1>0
  <2>2. cur \in Packet
    BY Sizes DEF Init, Packet, Blank
  <2>3. /\ queue \in [Decoders -> Seq(Packet)] /\ got \in [Decoders -> Seq(Packet)]
    BY EmptySeq DEF Init
  <2>4. /\ lastIdx \in [Decoders -> Nat \cup {SizeMax}] /\ cap \in [Decoders -> Nat]
        /\ user \in [Decoders -> UserStates] /\ codec \in [Decoders -> {"open", "drained"}]
        /\ target \in [Decoders -> Positions \cup {None}]
    BY Sizes DEF Init, UserStates
  <2>5. next \in 0..Len(File) /\ at \in 1..Len(Opened) + 1 /\ epoch \in 0..MaxSeeks /\ asked \in 0..MaxSeeks
    BY Sizes DEF Init
  <2> QED
    BY <2>1, <2>2, <2>3, <2>4, <2>5 DEF Init, TypeOK, ThreadStates
<1>2. Attached
  BY <1>0 DEF Init, Attached, Members
<1>3. Control
  BY DEF Init, Control, Seeking, Due, HasData
<1> QED
  BY <1>1, <1>2, <1>3 DEF Typed

\* One step of the thread keeps the typing and the control.
LEMMA ThreadTyped == Typed /\ ThreadStep => Typed'
<1> SUFFICES ASSUME Typed, ThreadStep PROVE Typed'
  OBVIOUS
<1> USE DEF Thread, demuxVars, ctxVars, queueVars, userVars
<1>t. TypeOK /\ Attached /\ Control
  BY DEF Typed
<1>s. Len(list) \in Nat /\ Len(list) <= Len(Opened) /\ list \in Seq(Decoders)
  BY <1>t, ListShort DEF TypeOK, Attached
<1>1. CASE LoopExit
  <2>1. TypeOK'
    BY <1>t, <1>1 DEF LoopExit, TypeOK, ThreadStates
  <2>2. Attached'
    BY <1>t, <1>1, AttachedKept DEF LoopExit
  <2>3. Control'
    BY <1>t, <1>1 DEF LoopExit, Control, Seeking, Due
  <2> QED
    BY <2>1, <2>2, <2>3 DEF Typed
<1>2. CASE LoopSeek
  <2>1. TypeOK'
    BY <1>t, <1>2, PacketFacts DEF LoopSeek, TypeOK, ThreadStates
  <2>2. Attached'
    BY <1>t, <1>2, AttachedKept DEF LoopSeek
  <2>3. Control'
    BY <1>t, <1>2, PacketFacts DEF LoopSeek, Control, Seeking, Due, TypeOK
  <2> QED
    BY <2>1, <2>2, <2>3 DEF Typed
<1>3. CASE LoopRead
  <2>1. TypeOK'
    BY <1>t, <1>3 DEF LoopRead, TypeOK, ThreadStates
  <2>2. Attached'
    BY <1>t, <1>3, AttachedKept DEF LoopRead
  <2>3. Control'
    BY <1>t, <1>3 DEF LoopRead, Control, Seeking, Due
  <2> QED
    BY <2>1, <2>2, <2>3 DEF Typed
<1>4. CASE FlushLock
  <2>1. TypeOK'
    BY SMTT(30), <1>t, <1>4, Sizes DEF FlushLock, TypeOK, ThreadStates
  <2>2. Attached'
    BY <1>t, <1>4, AttachedKept DEF FlushLock
  <2>3. Control'
    BY <1>t, <1>4 DEF FlushLock, Control, Seeking, Due
  <2> QED
    BY <2>1, <2>2, <2>3 DEF Typed
<1>5. CASE ClearQueue
  <2>a. at \in 1..Len(list)
    BY <1>t, <1>s, <1>5 DEF ClearQueue, TypeOK
  <2>0. at \in 1..Len(list) /\ list[at] \in Decoders /\ user[list[at]] # "new"
    BY <1>t, <1>s, <2>a DEF Attached, Members
  <2>1. TypeOK'
    <3>1. queue' \in [Decoders -> Seq(Packet)] /\ lastIdx' \in [Decoders -> Nat \cup {SizeMax}]
      BY <1>t, <1>5, <2>0, EmptySeq DEF ClearQueue, TypeOK
    <3>2. at' \in 1..Len(Opened) + 1
      BY <1>s, <1>5, <2>a, Sizes DEF ClearQueue
    <3> QED
      BY ZenonT(40), <1>t, <1>5, <3>1, <3>2 DEF ClearQueue, TypeOK
  <2>2. Attached'
    BY <1>t, <1>5, <2>0, AttachedKept DEF ClearQueue, TypeOK
  <2>3. Control'
    BY <1>t, <1>5 DEF ClearQueue, Control, Seeking, Due
  <2> QED
    BY <2>1, <2>2, <2>3 DEF Typed
<1>6. CASE FlushUnlock
  <2>1. TypeOK'
    BY ZenonT(40), <1>t, <1>6 DEF FlushUnlock, TypeOK, ThreadStates
  <2>2. Attached'
    BY <1>t, <1>6, AttachedKept DEF FlushUnlock
  <2>3. Control'
    BY <1>t, <1>6 DEF FlushUnlock, Control, Seeking, Due
  <2> QED
    BY <2>1, <2>2, <2>3 DEF Typed
<1>7. CASE ThreadSeek
  <2>1. Control'
    BY <1>t, <1>7 DEF ThreadSeek, SeekFile, Control, Seeking, Due, TypeOK
  <2>2. request \in Positions /\ next' \in 0..Len(File)
    BY <1>t, <1>7, Sizes DEF ThreadSeek, SeekFile, Control, Seeking, TypeOK, Positions
  <2>3. epoch' \in 0..MaxSeeks
    BY <1>t, <1>7, Sizes DEF ThreadSeek, SeekFile, Control, Seeking, Due, TypeOK
  <2>4. TypeOK'
    BY <1>t, <1>7, <2>2, <2>3 DEF ThreadSeek, SeekFile, TypeOK, ThreadStates
  <2>5. Attached'
    BY <1>t, <1>7, AttachedKept DEF ThreadSeek
  <2> QED
    BY <2>1, <2>4, <2>5 DEF Typed
<1>8. CASE ThreadSeekFails
  <2>1. TypeOK'
    BY <1>t, <1>8 DEF ThreadSeekFails, TypeOK, ThreadStates
  <2>2. Attached'
    BY <1>t, <1>8, AttachedKept DEF ThreadSeekFails
  <2>3. Control'
    BY <1>t, <1>8 DEF ThreadSeekFails, Control, Seeking, Due
  <2> QED
    BY <2>1, <2>2, <2>3 DEF Typed
<1>9. CASE SeekDone
  <2>1. TypeOK'
    BY <1>t, <1>9 DEF SeekDone, TypeOK, ThreadStates
  <2>2. Attached'
    BY <1>t, <1>9, AttachedKept DEF SeekDone
  <2>3. Control'
    BY <1>t, <1>9 DEF SeekDone, Control, Seeking, Due
  <2> QED
    BY <2>1, <2>2, <2>3 DEF Typed
<1>10. CASE NeedsForcePush
  <2>1. TypeOK'
    BY <1>t, <1>10 DEF NeedsForcePush, TypeOK, ThreadStates
  <2>2. Attached'
    BY <1>t, <1>10, AttachedKept DEF NeedsForcePush
  <2>3. Control'
    BY <1>t, <1>10 DEF NeedsForcePush, Control, Seeking, Due
  <2> QED
    BY <2>1, <2>2, <2>3 DEF Typed
<1>11. CASE ReadFrame
  <2>0. next < Len(File) => next \in Positions /\ next + 1 \in 0..Len(File)
    BY <1>t, Sizes DEF TypeOK, Positions
  <2>1. TypeOK'
    <3>1. CASE reachEof \/ pending
      BY <1>t, <1>11, <3>1 DEF ReadFrame, TypeOK, ThreadStates
    <3>2. CASE ~(reachEof \/ pending)
      <4>1. idx' \in Nat \cup {SizeMax}
        BY <1>t, <1>11, <3>2, Sizes DEF ReadFrame, TypeOK
      <4>2. cur' \in Packet /\ next' \in 0..Len(File) /\ reachEof' \in BOOLEAN
        BY <1>t, <1>11, <2>0, <3>2, PacketFacts DEF ReadFrame, TypeOK
      <4> QED
        BY <1>t, <1>11, <3>2, <4>1, <4>2 DEF ReadFrame, TypeOK, ThreadStates
    <3> QED
      BY <3>1, <3>2
  <2>2. Attached'
    BY <1>t, <1>11, AttachedKept DEF ReadFrame
  <2>3. Control'
    BY <1>t, <1>11 DEF ReadFrame, Control, Seeking, Due, TypeOK
  <2> QED
    BY <2>1, <2>2, <2>3 DEF Typed
<1>12. CASE ReadFrameFails
  <2>1. TypeOK'
    BY <1>t, <1>12 DEF ReadFrameFails, TypeOK, ThreadStates
  <2>2. Attached'
    BY <1>t, <1>12, AttachedKept DEF ReadFrameFails
  <2>3. Control'
    BY <1>t, <1>12 DEF ReadFrameFails, Control, Seeking, Due
  <2> QED
    BY <2>1, <2>2, <2>3 DEF Typed
<1>13. CASE SendLock
  <2>1. TypeOK'
    BY SMTT(30), <1>t, <1>13, Sizes DEF SendLock, TypeOK, ThreadStates
  <2>2. Attached'
    BY <1>t, <1>13, AttachedKept DEF SendLock
  <2>3. Control'
    BY <1>t, <1>13 DEF SendLock, Control, Seeking, Due
  <2> QED
    BY <2>1, <2>2, <2>3 DEF Typed
<1>14. CASE SendSkip
  <2>1. TypeOK'
    <3>1. at' \in 1..Len(Opened) + 1
      BY <1>t, <1>s, <1>14, Sizes DEF SendSkip, TypeOK
    <3> QED
      BY SMTT(30), <1>t, <1>14, <3>1 DEF SendSkip, TypeOK
  <2>2. Attached'
    BY <1>t, <1>14, AttachedKept DEF SendSkip
  <2>3. Control'
    BY <1>t, <1>14 DEF SendSkip, Control, Seeking, Due
  <2> QED
    BY <2>1, <2>2, <2>3 DEF Typed
<1>15. CASE SendPush
  <2>a. at \in 1..Len(list)
    BY <1>t, <1>s, <1>15 DEF SendPush, TypeOK
  <2>0. at \in 1..Len(list) /\ Here \in Decoders /\ user[Here] # "new"
    BY <1>t, <1>s, <2>a DEF Attached, Members, Here
  <2>1. Append(queue[Here], cur) \in Seq(Packet)
    BY <1>t, <2>0, AppendProperties DEF TypeOK
  <2>2. TypeOK'
    <3>1. queue' \in [Decoders -> Seq(Packet)]
      BY <1>t, <1>15, <2>0, <2>1 DEF SendPush, TypeOK
    <3>a. lastIdx' \in [Decoders -> Nat \cup {SizeMax}]
      BY <1>t, <1>15, <2>0 DEF SendPush, TypeOK
    <3>b. cap' \in [Decoders -> Nat]
      <4>1. cap \in [Decoders -> Nat] /\ cap[Here] \in Nat /\ cap[Here] + 2 \in Nat
        BY <1>t, <2>0 DEF TypeOK
      <4>2. \E n \in {cap[Here] + 2, cap[Here]} : cap' = [cap EXCEPT ![Here] = n]
        BY <1>15 DEF SendPush
      <4> QED
        BY <4>1, <4>2
    <3>2. at' \in 1..Len(Opened) + 1
      BY <1>s, <1>15, <2>a, Sizes DEF SendPush
    <3> QED
      BY ZenonT(40), <1>t, <1>15, <3>1, <3>a, <3>b, <3>2 DEF SendPush, TypeOK
  <2>3. Attached'
    BY <1>t, <1>15, <2>0, AttachedKept DEF SendPush, TypeOK
  <2>4. Control'
    BY <1>t, <1>15 DEF SendPush, Control, Seeking, Due
  <2> QED
    BY <2>2, <2>3, <2>4 DEF Typed
<1>16. ASSUME NEW late \in BOOLEAN, Sent(late) PROVE Typed'
  <2>1. TypeOK'
    BY <1>t, <1>16, PacketFacts DEF Sent, TypeOK, ThreadStates
  <2>2. Attached'
    BY <1>t, <1>16, AttachedKept DEF Sent
  <2>3. Control'
    BY <1>t, <1>16 DEF Sent, Control, Seeking, Due
  <2> QED
    BY <2>1, <2>2, <2>3 DEF Typed
<1>17. CASE SendNothing
  <2>1. TypeOK'
    BY ZenonT(40), <1>t, <1>17, PacketFacts DEF SendNothing, TypeOK, ThreadStates
  <2>2. Attached'
    BY <1>t, <1>17, AttachedKept DEF SendNothing
  <2>3. Control'
    BY <1>t, <1>17 DEF SendNothing, Control, Seeking, Due
  <2> QED
    BY <2>1, <2>2, <2>3 DEF Typed
<1> QED
  BY <1>1, <1>2, <1>3, <1>4, <1>5, <1>6, <1>7, <1>8, <1>9, <1>10, <1>11, <1>12, <1>13, <1>14,
     <1>15, <1>16, <1>17 DEF ThreadStep, SendEnd, SendTimeout, SendFails

\* A user that starts or ends a call stays in the list.
LEMMA UsersMoved ==
  ASSUME TypeOK, Attached, UNCHANGED list, NEW d \in Decoders, user \in [Decoders -> UserStates],
         user' \in [Decoders -> UserStates],
         \A e \in Decoders \ {d} : user'[e] = user[e],
         user[d] \in {"idle", "read"} <=> user'[d] \in {"idle", "read"},
         user[d] # "new", user'[d] # "new",
         \A e \in Decoders \ {d} : queue'[e] = queue[e]
  PROVE  Attached'
BY DEF Attached, Members

LEMMA FeedTyped ==
  ASSUME TypeOK, NEW d \in Decoders, NEW p \in Packet, Feed(d, p)
  PROVE  /\ user' \in [Decoders -> UserStates] /\ user'[d] \in {"idle", "read"}
         /\ \A e \in Decoders \ {d} : user'[e] = user[e]
         /\ codec' \in [Decoders -> {"open", "drained"}]
         /\ target' \in [Decoders -> Positions \cup {None}]
         /\ got' \in [Decoders -> Seq(Packet)]
<1>1. user' = [user EXCEPT ![d] = "idle"] \/ user' = [user EXCEPT ![d] = "read"]
  BY DEF Feed
<1>2. codec' = codec \/ codec' = [codec EXCEPT ![d] = "drained"]
  BY DEF Feed
<1>3. Append(got[d], p) \in Seq(Packet) /\ <<p>> \in Seq(Packet)
  BY AppendProperties DEF TypeOK
<1>4. \E s \in Seq(Packet) : got' = [got EXCEPT ![d] = s]
  BY <1>3 DEF Feed
<1>5. target' = [target EXCEPT ![d] = None]
  BY DEF Feed
<1>6. /\ user \in [Decoders -> UserStates] /\ codec \in [Decoders -> {"open", "drained"}]
      /\ target \in [Decoders -> Positions \cup {None}] /\ got \in [Decoders -> Seq(Packet)]
  BY DEF TypeOK
<1>7. got' \in [Decoders -> Seq(Packet)]
  BY <1>4, <1>6
<1>8. codec' \in [Decoders -> {"open", "drained"}] /\ target' \in [Decoders -> Positions \cup {None}]
  BY <1>2, <1>5, <1>6
<1> QED
  BY <1>1, <1>6, <1>7, <1>8 DEF UserStates

LEMMA OpenAttached ==
  ASSUME TypeOK, Attached, NEW d \in Decoders, Open(d)
  PROVE  Attached'
<1> DEFINE n == Len(list)
<1>1. /\ list \in Seq(Decoders) /\ n \in Nat /\ list' = Append(list, d)
      /\ user \in [Decoders -> UserStates] /\ user' = [user EXCEPT ![d] = "idle"] /\ user[d] = "new"
  BY LenProperties DEF TypeOK, Open, User
<1>2. /\ Len(list') = n + 1 /\ list'[n + 1] = d
      /\ \A i \in 1..n : list'[i] = list[i] /\ list[i] # d
  BY <1>1, AppendProperties DEF Attached, Members
<1>3. \A i, j \in 1..Len(list') : list'[i] = list'[j] => i = j
  BY <1>1, <1>2 DEF Attached
<1>4. Members(list)' = Members(list) \cup {d}
  BY <1>1, <1>2 DEF Members
<1>5. \A e \in Decoders : e \in Members(list)' <=> user'[e] \in {"idle", "read"}
  BY <1>1, <1>4 DEF Attached
<1>6. \A e \in Decoders : user'[e] = "new" => queue'[e] = <<>>
  <2>1. queue' = queue \/ queue' = [queue EXCEPT ![Head(list)] = <<>>]
    BY DEF Open
  <2> QED
    BY <1>1, <2>1 DEF Attached, TypeOK
<1> QED
  BY <1>3, <1>5, <1>6 DEF Attached

LEMMA CloseAttached ==
  ASSUME TypeOK, Attached, NEW d \in Decoders, Close(d)
  PROVE  Attached' /\ list' \in Seq(Decoders) /\ Members(list)' = Members(list) \ {d}
<1> DEFINE n == Len(list)
<1>1. /\ list \in Seq(Decoders) /\ n \in Nat /\ list # <<>> /\ d = Head(list) /\ list' = Tail(list)
      /\ user \in [Decoders -> UserStates] /\ user' = [user EXCEPT ![d] = "unlinked"]
      /\ UNCHANGED queue
  BY LenProperties DEF TypeOK, Close, User, queueVars
<1>2. /\ list' \in Seq(Decoders) /\ Len(list') = n - 1 /\ n >= 1 /\ d = list[1]
      /\ \A i \in 1..n - 1 : list'[i] = list[i + 1]
  BY <1>1, HeadTailProperties, LenProperties
<1>3. \A i, j \in 1..Len(list') : list'[i] = list'[j] => i = j
  BY <1>1, <1>2 DEF Attached
<1>4. \A i \in 2..n : list[i] # d /\ list[i] = list'[i - 1]
  BY <1>1, <1>2 DEF Attached
<1>5. Members(list)' = Members(list) \ {d}
  BY <1>1, <1>2, <1>4 DEF Members
<1>6. \A e \in Decoders : e \in Members(list)' <=> user'[e] \in {"idle", "read"}
  BY <1>1, <1>5 DEF Attached
<1>7. \A e \in Decoders : user'[e] = "new" => queue'[e] = <<>>
  BY <1>1 DEF Attached
<1> QED
  BY <1>2, <1>3, <1>5, <1>6, <1>7 DEF Attached

\* One step of a user keeps the typing and the control.
LEMMA UserTyped ==
  ASSUME Typed, NEW d \in Decoders,
         \/ Open(d) \/ GetFrame(d) \/ UserStep(d) \/ Close(d)
         \/ \E pos \in Positions : Seek(d, pos)
  PROVE  Typed'
<1> USE DEF demuxVars, ctxVars, queueVars, userVars
<1>t. TypeOK /\ Attached /\ Control
  BY DEF Typed
<1>1. CASE Open(d)
  <2>1. list' \in Seq(Decoders)
    BY <1>t, <1>1, AppendProperties DEF Open, TypeOK
  <2>2. queue' \in [Decoders -> Seq(Packet)] /\ cap' \in [Decoders -> Nat]
    <3>1. \/ queue' = [queue EXCEPT ![Head(list)] = <<>>] /\ cap' = [cap EXCEPT ![Head(list)] = Capacity]
          \/ UNCHANGED <<queue, cap>>
      BY <1>1 DEF Open
    <3>2. queue \in [Decoders -> Seq(Packet)] /\ cap \in [Decoders -> Nat] /\ <<>> \in Seq(Packet)
      BY <1>t, EmptySeq DEF TypeOK
    <3> QED
      BY <1>t, <3>1, <3>2, Sizes
  <2>3. user' \in [Decoders -> UserStates]
    BY <1>t, <1>1 DEF Open, User, TypeOK, UserStates
  <2>4. TypeOK'
    BY ZenonT(40), <1>t, <1>1, <2>1, <2>2, <2>3 DEF Open, TypeOK
  <2>5. Attached'
    BY <1>t, <1>1, OpenAttached
  <2>6. \A e \in Decoders : queue[e] = <<>> => queue'[e] = <<>>
    BY <1>t, <1>1 DEF Open, TypeOK
  <2>7. Control'
    BY <1>t, <1>1, <2>6 DEF Open, Control, Due
  <2> QED
    BY <2>4, <2>5, <2>7 DEF Typed
<1>2. CASE GetFrame(d)
  <2>1. TypeOK'
    BY <1>t, <1>2 DEF GetFrame, User, TypeOK, UserStates
  <2>2. Attached'
    BY <1>t, <1>2, <2>1, UsersMoved DEF GetFrame, User, TypeOK
  <2>3. Control'
    BY <1>t, <1>2 DEF GetFrame, Control, Due
  <2> QED
    BY <2>1, <2>2, <2>3 DEF Typed
<1>3. CASE StartThread(d)
  <2>1. TypeOK'
    <3>1. user' \in [Decoders -> UserStates] /\ thread' \in ThreadStates
      BY <1>t, <1>3 DEF StartThread, User, TypeOK, UserStates, ThreadStates
    <3> QED
      BY <1>t, <1>3, <3>1 DEF StartThread, TypeOK
  <2>2. Attached'
    BY <1>t, <1>3, <2>1, UsersMoved DEF StartThread, User, TypeOK
  <2>3. Control'
    BY <1>t, <1>3 DEF StartThread, Control, Due, Seeking
  <2> QED
    BY <2>1, <2>2, <2>3 DEF Typed
<1>4. CASE Pop(d)
  <2>1. /\ Head(queue[d]) \in Packet /\ Tail(queue[d]) \in Seq(Packet)
    BY <1>t, <1>4, HeadTailProperties DEF Pop, TypeOK
  <2>2. queue' \in [Decoders -> Seq(Packet)] /\ \A e \in Decoders \ {d} : queue'[e] = queue[e]
    BY <1>t, <1>4, <2>1 DEF Pop, TypeOK
  <2>3. TypeOK'
    BY ZenonT(40), <1>t, <1>4, <2>1, <2>2, FeedTyped DEF Pop, TypeOK
  <2>4. user[d] = "read" /\ Feed(d, Head(queue[d])) /\ UNCHANGED list
    BY <1>4 DEF Pop
  <2>5. Attached'
    BY <1>t, <2>1, <2>2, <2>3, <2>4, FeedTyped, UsersMoved DEF TypeOK
  <2>6. Control'
    BY <1>t, <1>4 DEF Pop, Control, Due
  <2> QED
    BY <2>3, <2>5, <2>6 DEF Typed
<1>5. CASE PopTimeout(d)
  <2>1. TypeOK'
    BY <1>t, <1>5 DEF PopTimeout, User, TypeOK, UserStates
  <2>2. Attached'
    BY <1>t, <1>5, <2>1, UsersMoved DEF PopTimeout, User, TypeOK
  <2>3. Control'
    BY <1>t, <1>5 DEF PopTimeout, Control, Due
  <2> QED
    BY <2>1, <2>2, <2>3 DEF Typed
<1>6. CASE ReadDirect(d)
  <2>1. next \in Positions /\ next + 1 \in 0..Len(File) /\ DataAt(next) \in Packet
    BY SMTT(30), <1>t, <1>6, Sizes, PacketFacts DEF ReadDirect, TypeOK, Positions
  <2>2. user[d] = "read" /\ Feed(d, DataAt(next)) /\ UNCHANGED <<list, queue>>
    BY <1>6 DEF ReadDirect, Alone
  <2>3. TypeOK'
    BY ZenonT(90), <1>t, <1>6, <2>1, <2>2, FeedTyped DEF ReadDirect, TypeOK
  <2>4. Attached'
    BY <1>t, <2>1, <2>2, <2>3, FeedTyped, UsersMoved DEF TypeOK
  <2>5. Control'
    BY <1>t, <1>6 DEF ReadDirect, Control, Due
  <2> QED
    BY <2>3, <2>4, <2>5 DEF Typed
<1>7. CASE ReadDirectEof(d)
  <2>1. BlankNow(TRUE) \in Packet /\ user[d] = "read" /\ UNCHANGED <<list, queue>>
    BY <1>t, <1>7, PacketFacts DEF ReadDirectEof, Alone, TypeOK
  <2>2. ASSUME reachEof PROVE TypeOK' /\ Attached'
    <3>1. TypeOK'
      BY ZenonT(40), <1>t, <1>7, <2>2 DEF ReadDirectEof, User, TypeOK, UserStates
    <3>2. Attached'
      BY <1>t, <1>7, <2>2, <3>1, UsersMoved DEF ReadDirectEof, User, TypeOK
    <3> QED
      BY <3>1, <3>2
  <2>3. ASSUME ~reachEof PROVE TypeOK' /\ Attached'
    <3>1. Feed(d, BlankNow(TRUE))
      BY <1>7, <2>3 DEF ReadDirectEof
    <3>2. TypeOK'
      BY ZenonT(40), <1>t, <1>7, <2>1, <3>1, FeedTyped DEF ReadDirectEof, TypeOK
    <3>3. Attached'
      BY <1>t, <2>1, <3>1, <3>2, FeedTyped, UsersMoved DEF TypeOK
    <3> QED
      BY <3>2, <3>3
  <2>4. Control'
    BY <1>t, <1>7 DEF ReadDirectEof, Control, Due
  <2> QED
    BY <2>2, <2>3, <2>4 DEF Typed
<1>8. CASE ReadDirectFails(d)
  <2>1. TypeOK'
    BY <1>t, <1>8 DEF ReadDirectFails, User, TypeOK, UserStates
  <2>2. Attached'
    BY <1>t, <1>8, <2>1, UsersMoved DEF ReadDirectFails, User, TypeOK
  <2>3. Control'
    BY <1>t, <1>8 DEF ReadDirectFails, Control, Due
  <2> QED
    BY <2>1, <2>2, <2>3 DEF Typed
<1>9. CASE Unref(d)
  <2>1. /\ queue' = [queue EXCEPT ![d] = <<>>] /\ user[d] = "unlinked" /\ UNCHANGED list
        /\ running' \in BOOLEAN
        /\ \E to \in {"joining", "closed"} : user' = [user EXCEPT ![d] = to]
    BY <1>t, <1>9 DEF Unref, User, TypeOK
  <2>2. /\ queue' \in [Decoders -> Seq(Packet)] /\ user' \in [Decoders -> UserStates]
        /\ \A e \in Decoders : queue[e] = <<>> => queue'[e] = <<>>
    BY <1>t, <2>1, EmptySeq DEF TypeOK, UserStates
  <2>3. TypeOK'
    BY <1>t, <1>9, <2>1, <2>2 DEF Unref, TypeOK
  <2>4. Attached'
    BY <1>t, <2>1, <2>2, UsersMoved DEF TypeOK
  <2>5. Control'
    BY <1>t, <1>9, <2>2 DEF Unref, Control, Due
  <2> QED
    BY <2>3, <2>4, <2>5 DEF Typed
<1>10. CASE Join(d)
  <2>1. TypeOK'
    BY <1>t, <1>10 DEF Join, User, TypeOK, UserStates
  <2>2. Attached'
    BY <1>t, <1>10, <2>1, UsersMoved DEF Join, User, TypeOK
  <2>3. Control'
    BY <1>t, <1>10 DEF Join, Control, Due
  <2> QED
    BY <2>1, <2>2, <2>3 DEF Typed
<1>11. CASE Close(d)
  <2>1. Attached' /\ list' \in Seq(Decoders)
    BY <1>t, <1>11, CloseAttached
  <2>2. TypeOK'
    BY ZenonT(40), <1>t, <1>11, <2>1 DEF Close, User, TypeOK, UserStates
  <2>3. Control'
    BY <1>t, <1>11 DEF Close, Control, Due
  <2> QED
    BY <2>1, <2>2, <2>3 DEF Typed
<1>12. ASSUME NEW pos \in Positions, Seek(d, pos) PROVE Typed'
  <2>1. pos \in 0..Len(File) /\ pos # None
    BY Sizes DEF Positions
  <2>2. /\ target' \in [Decoders -> Positions \cup {None}]
    BY <1>t, <1>12 DEF Seek, Aim, TypeOK
  <2>3. next' \in 0..Len(File) /\ epoch' \in {epoch, epoch + 1}
    <3>1. \/ UNCHANGED <<next, epoch>>
          \/ next' \in 0..pos /\ epoch' = epoch + 1
      BY <1>12 DEF Seek, SeekFile
    <3>2. next \in 0..Len(File) /\ Len(File) \in Nat
      BY <1>t, Sizes DEF TypeOK
    <3>3. next' \in 0..Len(File)
      BY <2>1, <3>1, <3>2
    <3> QED
      BY <3>1, <3>3
  <2>4. Control'
    BY SMTT(30), <1>t, <1>12, <2>1 DEF Seek, SeekFile, Control, Due, Seeking, TypeOK
  <2>5. epoch' \in 0..MaxSeeks /\ asked' \in 0..MaxSeeks
    <3>1. /\ asked \in 0..MaxSeeks /\ epoch \in 0..MaxSeeks /\ asked < MaxSeeks /\ asked' = asked + 1
      BY <1>t, <1>12 DEF Seek, TypeOK
    <3>2. epoch' + 0 <= asked' \/ epoch' + 1 <= asked'
      BY <2>4 DEF Control, Due
    <3>3. epoch' \in Nat /\ asked' \in Nat /\ asked' \in 0..MaxSeeks
      BY <2>3, <3>1, Sizes
    <3>4. epoch' <= asked'
      <4>1. \A e, a \in Nat : e + 0 <= a \/ e + 1 <= a => e <= a
        OBVIOUS
      <4> QED
        BY <3>2, <3>3, <4>1, Zenon
    <3> QED
      BY <3>1, <3>3, <3>4, Sizes
  <2>6. TypeOK'
    BY ZenonT(40), <1>t, <1>12, <2>2, <2>3, <2>5 DEF Seek, TypeOK
  <2>7. Attached'
    BY <1>t, <1>12, AttachedKept DEF Seek
  <2> QED
    BY <2>4, <2>6, <2>7 DEF Typed
<1> QED
  BY <1>1, <1>2, <1>3, <1>4, <1>5, <1>6, <1>7, <1>8, <1>9, <1>10, <1>11, <1>12 DEF UserStep

LEMMA NextTyped == Typed /\ [Next \/ Finished]_vars => Typed'
<1> SUFFICES ASSUME Typed, [Next \/ Finished]_vars PROVE Typed'
  OBVIOUS
<1>1. CASE ThreadStep
  BY <1>1, ThreadTyped
<1>2. CASE UNCHANGED vars
  BY <1>2 DEF vars, demuxVars, ctxVars, queueVars, userVars, Typed, TypeOK, Attached, Members,
     Control, Due, HasData
<1> QED
  BY <1>1, <1>2, UserTyped DEF Next, Finished

----------------------------------------------------------------------------
(* No packet from before a seek is left in a queue.                        *)

LEMMA MemberOf ==
  ASSUME NEW s, NEW x
  PROVE  x \in Members(s) <=> \E i \in 1..Len(s) : s[i] = x
BY DEF Members

LEMMA MembersAppend ==
  ASSUME NEW S, NEW s \in Seq(S), NEW x \in S
  PROVE  Members(Append(s, x)) = Members(s) \cup {x}
<1>1. /\ Len(s) \in Nat /\ Len(Append(s, x)) = Len(s) + 1 /\ Append(s, x)[Len(s) + 1] = x
      /\ \A i \in 1..Len(s) : Append(s, x)[i] = s[i]
  BY AppendProperties, LenProperties
<1>2. \A i \in 1..Len(s) + 1 : i \in 1..Len(s) \/ i = Len(s) + 1
  BY <1>1
<1>3. ASSUME NEW y \in Members(Append(s, x)) PROVE y \in Members(s) \/ y = x
  <2>1. PICK i \in 1..Len(Append(s, x)) : Append(s, x)[i] = y
    BY MemberOf
  <2> QED
    BY <1>1, <1>2, <2>1, MemberOf
<1>4. ASSUME NEW y \in Members(s) PROVE y \in Members(Append(s, x))
  <2>1. PICK i \in 1..Len(s) : s[i] = y
    BY MemberOf
  <2>2. i \in 1..Len(Append(s, x)) /\ Append(s, x)[i] = y
    BY <1>1, <2>1
  <2> QED
    BY <2>2, MemberOf
<1>5. x \in Members(Append(s, x))
  <2>1. Len(s) + 1 \in 1..Len(Append(s, x))
    BY <1>1
  <2> QED
    BY <1>1, <2>1, MemberOf
<1> QED
  BY <1>3, <1>4, <1>5

\* The list holds decoders.
LEMMA MembersOf ==
  ASSUME NEW S, NEW s \in Seq(S)
  PROVE  /\ Members(s) \subseteq S
         /\ \A i \in 1..Len(s) : s[i] \in S /\ s[i] \in Members(s)
         /\ \A x \in Members(s) : \E i \in 1..Len(s) : s[i] = x
<1>1. \A i \in 1..Len(s) : s[i] \in S
  BY ElementOfSeq
<1> QED
  BY <1>1, MemberOf

LEMMA MembersEmpty == Members(<<>>) = {}
BY DEF Members

\* A queue that is not pushed to.
Fewer(d) == queue'[d] \in {queue[d], <<>>} \/ (queue[d] # <<>> /\ queue'[d] = Tail(queue[d]))

LEMMA FewerMembers ==
  ASSUME TypeOK, NEW d \in Decoders, Fewer(d)
  PROVE  /\ Members(queue[d])' \subseteq Members(queue[d])
         /\ queue[d] = <<>> => queue'[d] = <<>>
<1>1. CASE queue'[d] = queue[d]
  BY <1>1 DEF Members
<1>2. CASE queue'[d] = <<>>
  BY <1>2 DEF Members
<1>3. CASE queue[d] # <<>> /\ queue'[d] = Tail(queue[d])
  <2>1. /\ queue[d] \in Seq(Packet) /\ Len(queue'[d]) = Len(queue[d]) - 1 /\ Len(queue[d]) \in Nat
        /\ \A i \in 1..Len(queue'[d]) : queue'[d][i] = queue[d][i + 1]
    BY <1>3, HeadTailProperties, LenProperties DEF TypeOK
  <2>2. \A i \in 1..Len(queue'[d]) : queue'[d][i] \in Members(queue[d])
    BY <2>1 DEF Members
  <2> QED
    BY <1>3, <2>2 DEF Members
<1> QED
  BY <1>1, <1>2, <1>3 DEF Fewer

\* What the users may change of what the thread works with.
UserChange ==
  /\ UNCHANGED <<pending, cur, idx, at, lastIdx>>
  /\ UNCHANGED thread \/ (thread = "off" /\ thread' = "top")
  /\ thread \in {"clear", "sending"} => UNCHANGED list
  /\ useThread => UNCHANGED <<epoch, next>>
  /\ \A e \in Members(list)' : e \in Members(list) \/ queue'[e] = <<>>
  /\ \A e \in Decoders : Fewer(e)

LEMMA UsersChange ==
  ASSUME Typed, NEW d \in Decoders,
         \/ Open(d) \/ GetFrame(d) \/ UserStep(d) \/ Close(d)
         \/ \E pos \in Positions : Seek(d, pos)
  PROVE  UserChange
<1> USE DEF demuxVars, ctxVars, queueVars, userVars
<1>t. /\ TypeOK /\ Attached /\ Control
      /\ list \in Seq(Decoders) /\ Len(list) \in Nat /\ queue \in [Decoders -> Seq(Packet)]
      /\ thread \in {"clear", "sending"} => listLock
      /\ ~useThread => thread = "off"
  BY LenProperties DEF Typed, TypeOK, Control
<1>0. ASSUME UNCHANGED <<pending, cur, idx, at, lastIdx, thread, list, queue>>,
             useThread => UNCHANGED <<epoch, next>>
      PROVE  UserChange
  BY <1>0 DEF UserChange, Fewer
<1>1. CASE Open(d)
  <2>1. list' = Append(list, d) /\ user[d] = "new" /\ queue[d] = <<>> /\ ~listLock
    BY <1>t, <1>1 DEF Open, User, Attached
  <2>2. \A e \in Members(list)' : e \in Members(list) \/ e = d
    BY <1>t, <2>1, AppendProperties DEF Members
  <2>3. queue' = [queue EXCEPT ![Head(list)] = <<>>] \/ queue' = queue
    BY <1>1 DEF Open
  <2>4. \A e \in Decoders : queue'[e] \in {queue[e], <<>>}
    BY <1>t, <2>3
  <2> QED
    BY <1>t, <1>1, <2>1, <2>2, <2>4 DEF Open, UserChange, Fewer
<1>2. CASE GetFrame(d) \/ PopTimeout(d) \/ Join(d)
  BY <1>0, <1>2 DEF GetFrame, PopTimeout, Join
<1>3. CASE StartThread(d)
  <2>1. thread = "off" /\ thread' \in {"off", "top"}
    BY <1>t, <1>3 DEF StartThread
  <2> QED
    BY <1>3, <2>1 DEF StartThread, UserChange, Fewer
<1>4. CASE Pop(d)
  <2>1. \A e \in Decoders : Fewer(e)
    BY <1>t, <1>4 DEF Pop, Fewer
  <2> QED
    BY <1>4, <2>1 DEF Pop, UserChange
<1>5. CASE ReadDirect(d)
  BY <1>0, <1>5 DEF ReadDirect, Alone
<1>6. CASE ReadDirectEof(d)
  BY <1>0, <1>6 DEF ReadDirectEof, Alone
<1>7. CASE ReadDirectFails(d)
  BY <1>0, <1>7 DEF ReadDirectFails
<1>8. CASE Unref(d)
  <2>1. \A e \in Decoders : Fewer(e)
    BY <1>t, <1>8 DEF Unref, Fewer
  <2> QED
    BY <1>8, <2>1 DEF Unref, UserChange
<1>9. CASE Close(d)
  <2>1. Members(list)' = Members(list) \ {d}
    BY <1>t, <1>9, CloseAttached
  <2> QED
    BY <1>t, <1>9, <2>1 DEF Close, UserChange, Fewer
<1>10. ASSUME NEW pos \in Positions, Seek(d, pos) PROVE UserChange
  BY <1>0, <1>10 DEF Seek
<1> QED
  BY <1>1, <1>2, <1>3, <1>4, <1>5, <1>6, <1>7, <1>8, <1>9, <1>10 DEF UserStep

LEMMA UserFresh ==
  ASSUME Typed, Typed', Fresh, Cleared, UserChange
  PROVE  Fresh' /\ Cleared'
<1>t. /\ TypeOK /\ Control /\ TypeOK'
      /\ \A e \in Members(list)' : e \in Decoders
      /\ \A i \in 1..Len(list) : list[i] \in Decoders
  <2>1. list \in Seq(Decoders) /\ list' \in Seq(Decoders)
    BY DEF Typed, TypeOK
  <2> QED
    BY <2>1, MembersOf DEF Typed
<1>1. \A e \in Decoders : /\ Members(queue[e])' \subseteq Members(queue[e])
                          /\ queue[e] = <<>> => queue'[e] = <<>>
  BY <1>t, FewerMembers DEF UserChange
<1>2. CASE useThread
  <2>1. UNCHANGED epoch /\ \A e \in Members(list)' : e \in Members(list) \/ queue'[e] = <<>>
    BY <1>2 DEF UserChange
  <2>2. \A e \in Members(list)' : queue'[e] = <<>> => Members(queue[e])' = {}
    BY DEF Members
  <2>3. Fresh'
    BY <1>t, <1>1, <2>1, <2>2 DEF Fresh
  <2>4. Cleared'
    <3>1. thread' = "clear" => \A i \in 1..Len(list') : i < at' => queue'[list'[i]] = <<>>
      BY <1>t, <1>1 DEF UserChange, Cleared
    <3>2. thread' = "seek" => \A d \in Members(list)' : queue'[d] = <<>>
      BY <1>t, <1>1 DEF UserChange, Cleared
    <3>3. pending' => cur'.epoch = epoch'
      BY <2>1 DEF UserChange, Cleared
    <3> QED
      BY <3>1, <3>2, <3>3 DEF Cleared
  <2> QED
    BY <2>3, <2>4
<1>3. CASE ~useThread
  <2>1. \A e \in Decoders : queue'[e] = <<>>
    BY <1>1, <1>3, <1>t DEF Control
  <2>2. ~pending' /\ thread' \in {"off", "top"}
    BY <1>3, <1>t DEF Control, UserChange
  <2>3. \A e \in Decoders : Members(queue[e])' = {}
    BY <2>1 DEF Members
  <2> QED
    BY <1>t, <2>1, <2>2, <2>3 DEF Fresh, Cleared
<1> QED
  BY <1>2, <1>3

LEMMA ThreadFresh ==
  ASSUME Typed, Typed', Fresh, Cleared, ThreadStep
  PROVE  Fresh' /\ Cleared'
<1> USE DEF Thread, demuxVars, ctxVars, queueVars, userVars
<1>t. /\ TypeOK /\ Attached /\ Control
      /\ list \in Seq(Decoders) /\ Len(list) \in Nat /\ queue \in [Decoders -> Seq(Packet)]
      /\ at \in Nat /\ epoch \in 0..MaxSeeks
      /\ \A i \in 1..Len(list) : list[i] \in Decoders /\ list[i] \in Members(list)
      /\ \A d \in Members(list) : d \in Decoders /\ \E i \in 1..Len(list) : list[i] = d
  BY SMTT(30), MembersOf, LenProperties DEF Typed, TypeOK
\* Queues and epoch stay, and the packet at hand is kept or made now.
<1>0. ASSUME UNCHANGED <<list, queue, epoch>>, thread' \notin {"clear", "seek"},
             pending' => (pending /\ cur' = cur) \/ cur'.epoch = epoch
      PROVE  Fresh' /\ Cleared'
  BY <1>0 DEF Fresh, Cleared, Members
<1>1. CASE LoopExit \/ LoopSeek \/ LoopRead \/ ThreadSeekFails \/ SeekDone \/ NeedsForcePush
  BY <1>0, <1>1 DEF LoopExit, LoopSeek, LoopRead, ThreadSeekFails, SeekDone, NeedsForcePush
<1>2. CASE FlushLock
  <2>1. \A i \in 1..Len(list) : ~(i < 1)
    BY <1>t
  <2> QED
    BY <1>2, <2>1 DEF FlushLock, Fresh, Cleared, Members
<1>3. CASE ClearQueue
  <2>1. at \in 1..Len(list) /\ list[at] \in Decoders
    BY <1>t, <1>3 DEF ClearQueue, TypeOK
  <2>2. queue' = [queue EXCEPT ![list[at]] = <<>>] /\ UNCHANGED <<list, epoch, pending, cur, thread>>
        /\ at' = at + 1 /\ thread = "clear"
    BY <1>3 DEF ClearQueue
  <2>3. Fresh'
    BY <1>t, <2>1, <2>2, MembersEmpty DEF Fresh
  <2>4. \A i \in 1..Len(list) : i < at + 1 => i < at \/ i = at
    BY <1>t
  <2>5. Cleared'
    BY <1>t, <2>1, <2>2, <2>4 DEF Cleared
  <2> QED
    BY <2>3, <2>5
<1>4. CASE FlushUnlock
  <2>1. \A i \in 1..Len(list) : i < at
    BY <1>t, <1>4 DEF FlushUnlock
  <2>2. \A d \in Members(list) : queue[d] = <<>>
    BY <1>t, <1>4, <2>1 DEF FlushUnlock, Cleared
  <2> QED
    BY <1>4, <2>2 DEF FlushUnlock, Fresh, Cleared, Members
<1>5. CASE ThreadSeek
  <2>1. \A d \in Members(list) : queue[d] = <<>>
    BY <1>5 DEF ThreadSeek, Cleared
  <2>2. ~pending
    BY <1>t, <1>5 DEF ThreadSeek, Control, Seeking
  <2> QED
    BY <1>5, <2>1, <2>2 DEF ThreadSeek, Fresh, Cleared, Members
<1>6. CASE ReadFrame
  <2>1. pending' => (pending /\ cur' = cur) \/ cur'.epoch = epoch
    <3>1. (pending' = pending /\ cur' = cur) \/ cur' \in {DataAt(next), BlankNow(TRUE)}
      BY <1>6 DEF ReadFrame
    <3>2. DataAt(next).epoch = epoch /\ BlankNow(TRUE).epoch = epoch
      BY DEF DataAt, BlankNow
    <3> QED
      BY <3>1, <3>2
  <2> QED
    BY <1>0, <1>6, <2>1 DEF ReadFrame
<1>7. CASE ReadFrameFails \/ SendLock \/ SendSkip
  BY <1>0, <1>7 DEF ReadFrameFails, SendLock, SendSkip
<1>8. CASE SendPush
  <2>1. at \in 1..Len(list) /\ Here \in Decoders /\ cur \in Packet
    BY <1>t, <1>8 DEF SendPush, TypeOK, Here
  <2>2. /\ queue' = [queue EXCEPT ![Here] = Append(queue[Here], cur)]
        /\ UNCHANGED <<list, epoch, pending, cur, thread>> /\ thread = "sending" /\ pending
    BY <1>t, <1>8 DEF SendPush, Control
  <2>3. \A d \in Decoders : \A p \in Members(queue[d])' : p \in Members(queue[d]) \/ p = cur
    <3>1. Members(Append(queue[Here], cur)) = Members(queue[Here]) \cup {cur}
      BY <1>t, <2>1, MembersAppend
    <3> QED
      BY <1>t, <2>1, <2>2, <3>1
  <2>4. cur.epoch = epoch
    BY <2>2 DEF Cleared
  <2> QED
    BY <1>t, <2>2, <2>3, <2>4 DEF Fresh, Cleared
<1>9. ASSUME NEW late \in BOOLEAN, Sent(late) PROVE Fresh' /\ Cleared'
  <2>1. pending /\ (cur' = cur \/ cur'.epoch = epoch)
    BY <1>t, <1>9 DEF Sent, BlankNow, Control
  <2> QED
    BY <1>0, <1>9, <2>1 DEF Sent
<1>10. CASE SendNothing
  BY <1>0, <1>10 DEF SendNothing, BlankNow
<1> QED
  BY <1>1, <1>2, <1>3, <1>4, <1>5, <1>6, <1>7, <1>8, <1>9, <1>10
  DEF ThreadStep, SendEnd, SendTimeout, SendFails

LEMMA NextFresh ==
  Typed /\ Typed' /\ Fresh /\ Cleared /\ [Next \/ Finished]_vars => Fresh' /\ Cleared'
<1> SUFFICES ASSUME Typed, Typed', Fresh, Cleared, [Next \/ Finished]_vars
             PROVE  Fresh' /\ Cleared'
  OBVIOUS
<1>1. CASE UNCHANGED vars
  BY <1>1 DEF vars, demuxVars, ctxVars, queueVars, userVars, Fresh, Cleared, Members
<1> QED
  BY <1>1, ThreadFresh, UserFresh, UsersChange DEF Next, Finished

----------------------------------------------------------------------------
(* Each packet once, and in file order.                                    *)

\* The part of Sequence(d) that the decoder has had.
Had(d) == IF got[d] # <<>> /\ got[d][1].epoch = epoch THEN got[d] ELSE <<>>

LEMMA SequenceParts ==
  ASSUME TypeOK, NEW d \in Decoders
  PROVE  /\ Had(d) \in Seq(Packet) /\ queue[d] \in Seq(Packet) /\ got[d] \in Seq(Packet)
         /\ Sequence(d) = Had(d) \o queue[d] /\ Sequence(d) \in Seq(Packet)
<1>1. Had(d) \in Seq(Packet) /\ queue[d] \in Seq(Packet) /\ got[d] \in Seq(Packet)
  BY EmptySeq DEF Had, TypeOK
<1>2. Sequence(d) = Had(d) \o queue[d]
  BY DEF Had, Sequence
<1> QED
  BY <1>1, <1>2, ConcatProperties

LEMMA RisingParts ==
  ASSUME NEW s \in Seq(Packet), NEW t \in Seq(Packet)
  PROVE  /\ Rising(s \o t) => Rising(s) /\ Rising(t)
         /\ Members(s) \subseteq Members(s \o t) /\ Members(t) \subseteq Members(s \o t)
<1> DEFINE n == Len(s)
<1>1. /\ n \in Nat /\ Len(t) \in Nat /\ Len(s \o t) = n + Len(t)
      /\ \A i \in 1..n : (s \o t)[i] = s[i]
      /\ \A i \in 1..Len(t) : i + n \in 1..Len(s \o t) /\ (s \o t)[i + n] = t[i]
  <2>1. n \in Nat /\ Len(t) \in Nat
    BY LenProperties
  <2> QED
    BY <2>1, ConcatProperties
<1>2. Rising(s \o t) => Rising(s)
  <2> SUFFICES ASSUME Rising(s \o t), NEW i \in 1..Len(s), NEW j \in 1..Len(s), i < j, HasData(s[j])
               PROVE  s[i].pos < s[j].pos
    BY DEF Rising
  <2>1. i \in 1..Len(s \o t) /\ j \in 1..Len(s \o t) /\ (s \o t)[i] = s[i] /\ (s \o t)[j] = s[j]
    BY <1>1
  <2> QED
    BY <2>1 DEF Rising
<1>3. Rising(s \o t) => Rising(t)
  <2> SUFFICES ASSUME Rising(s \o t), NEW i \in 1..Len(t), NEW j \in 1..Len(t), i < j, HasData(t[j])
               PROVE  t[i].pos < t[j].pos
    BY DEF Rising
  <2>1. /\ i + n \in 1..Len(s \o t) /\ j + n \in 1..Len(s \o t) /\ i + n < j + n
        /\ (s \o t)[i + n] = t[i] /\ (s \o t)[j + n] = t[j]
    BY <1>1
  <2> QED
    BY <2>1 DEF Rising
<1>4. \A i \in 1..n : s[i] \in Members(s \o t)
  <2>1. \A i \in 1..n : i \in 1..Len(s \o t)
    BY <1>1
  <2> QED
    BY <1>1, <2>1, MemberOf
<1>5. \A i \in 1..Len(t) : t[i] \in Members(s \o t)
  BY <1>1, MemberOf
<1>6. Members(s) \subseteq Members(s \o t)
  BY <1>4, MembersOf
<1>7. Members(t) \subseteq Members(s \o t)
  BY <1>5, MembersOf
<1> QED
  BY <1>2, <1>3, <1>6, <1>7

LEMMA RisingAppend ==
  ASSUME NEW s \in Seq(Packet), NEW p \in Packet, Rising(s),
         HasData(p) => \A q \in Members(s) : q.pos < p.pos
  PROVE  Rising(Append(s, p))
<1>1. /\ Len(s) \in Nat /\ Len(Append(s, p)) = Len(s) + 1 /\ Append(s, p)[Len(s) + 1] = p
      /\ \A i \in 1..Len(s) : Append(s, p)[i] = s[i]
  BY AppendProperties, LenProperties
<1> SUFFICES ASSUME NEW i \in 1..Len(s) + 1, NEW j \in 1..Len(s) + 1, i < j,
                    HasData(Append(s, p)[j])
             PROVE  Append(s, p)[i].pos < Append(s, p)[j].pos
  BY <1>1 DEF Rising
<1>2. i \in 1..Len(s) /\ Append(s, p)[i] = s[i]
  BY <1>1
<1>3. CASE j = Len(s) + 1
  BY <1>1, <1>2, <1>3, MemberOf
<1>4. CASE j # Len(s) + 1
  <2>1. j \in 1..Len(s) /\ Append(s, p)[j] = s[j]
    BY <1>1, <1>4
  <2> QED
    BY <1>2, <2>1 DEF Rising
<1> QED
  BY <1>3, <1>4

LEMMA RisingEmpty == Rising(<<>>)
BY DEF Rising

\* The head of the second part may as well end the first.
LEMMA ConcatMove ==
  ASSUME NEW s \in Seq(Packet), NEW t \in Seq(Packet), t # <<>>
  PROVE  Append(s, Head(t)) \o Tail(t) = s \o t
<1>1. /\ Head(t) \in Packet /\ Head(t) = t[1] /\ Tail(t) \in Seq(Packet)
      /\ Len(Tail(t)) = Len(t) - 1 /\ Len(t) \in Nat \ {0} /\ Len(s) \in Nat
      /\ \A i \in 1..Len(t) - 1 : Tail(t)[i] = t[i + 1]
  BY HeadTailProperties, LenProperties, EmptySeq
<1> DEFINE a == Append(s, Head(t))
<1>2. /\ a \in Seq(Packet) /\ Len(a) = Len(s) + 1 /\ a[Len(s) + 1] = t[1]
      /\ \A i \in 1..Len(s) : a[i] = s[i]
  BY <1>1, AppendProperties
<1> HIDE DEF a
<1>3. /\ a \o Tail(t) \in Seq(Packet) /\ Len(a \o Tail(t)) = Len(s) + Len(t)
      /\ \A i \in 1..Len(s) + Len(t) :
           (a \o Tail(t))[i] = IF i <= Len(s) + 1 THEN a[i] ELSE Tail(t)[i - (Len(s) + 1)]
  <2>1. Len(a) + Len(Tail(t)) = Len(s) + Len(t) /\ Len(a) = Len(s) + 1
    BY <1>1, <1>2
  <2>2. /\ a \o Tail(t) \in Seq(Packet) /\ Len(a \o Tail(t)) = Len(a) + Len(Tail(t))
        /\ \A i \in 1..Len(a) + Len(Tail(t)) :
             (a \o Tail(t))[i] = IF i <= Len(a) THEN a[i] ELSE Tail(t)[i - Len(a)]
    BY <1>1, <1>2, ConcatProperties
  <2> QED
    BY <2>1, <2>2
<1>4. /\ s \o t \in Seq(Packet) /\ Len(s \o t) = Len(s) + Len(t)
      /\ \A i \in 1..Len(s) + Len(t) : (s \o t)[i] = IF i <= Len(s) THEN s[i] ELSE t[i - Len(s)]
  BY ConcatProperties
<1>5. ASSUME NEW i \in 1..Len(s) + Len(t) PROVE (a \o Tail(t))[i] = (s \o t)[i]
  <2>1. CASE i <= Len(s)
    BY <1>1, <1>2, <1>3, <1>4, <2>1
  <2>2. CASE i = Len(s) + 1
    BY <1>1, <1>2, <1>3, <1>4, <2>2
  <2>3. CASE i > Len(s) + 1
    <3>1. i - (Len(s) + 1) \in 1..Len(t) - 1 /\ (i - (Len(s) + 1)) + 1 = i - Len(s)
      BY <1>1, <2>3
    <3> QED
      BY <1>1, <1>3, <1>4, <2>3, <3>1
  <2>4. i <= Len(s) \/ i = Len(s) + 1 \/ i > Len(s) + 1
    BY <1>1
  <2> QED
    BY <2>1, <2>2, <2>3, <2>4
<1>6. a \o Tail(t) = s \o t
  BY <1>3, <1>4, <1>5, SeqEqual
<1> QED
  BY <1>6 DEF a

LEMMA ConcatAppend ==
  ASSUME NEW s \in Seq(Packet), NEW t \in Seq(Packet), NEW p \in Packet
  PROVE  s \o Append(t, p) = Append(s \o t, p)
<1>1. <<p>> \in Seq(Packet) /\ s \o t \in Seq(Packet)
  BY ConcatProperties
<1>2. Append(t, p) = t \o <<p>> /\ Append(s \o t, p) = (s \o t) \o <<p>>
  BY <1>1, AppendIsConcat
<1> QED
  BY <1>1, <1>2, ConcatAssociative

\* What a decoder has, and will have, gets no more and stays in order.
Kept(d) ==
  /\ Members(Sequence(d)') \subseteq Members(Sequence(d))
  /\ Rising(Sequence(d)) => Rising(Sequence(d)')

\* Clearing a queue takes the end of a sequence, a seek its beginning.
LEMMA SequenceKept ==
  ASSUME TypeOK, TypeOK', NEW d \in Decoders,
         queue'[d] \in {queue[d], <<>>}, got'[d] = got[d],
         \/ epoch' = epoch
         \/ epoch' = epoch + 1 /\ (got[d] # <<>> => got[d][1].epoch <= epoch)
  PROVE  Kept(d) /\ (epoch' # epoch => Sequence(d)' = queue'[d])
<1>1. /\ Had(d) \in Seq(Packet) /\ queue[d] \in Seq(Packet) /\ <<>> \in Seq(Packet)
      /\ Sequence(d) = Had(d) \o queue[d]
  BY SequenceParts, EmptySeq
<1>2. Sequence(d)' = Had(d)' \o queue'[d]
  BY DEF Had, Sequence
<1>3. (epoch' = epoch => Had(d)' = Had(d)) /\ (epoch' # epoch => Had(d)' = <<>>)
  <2>1. CASE epoch' = epoch
    BY <2>1 DEF Had
  <2>2. CASE epoch' = epoch + 1 /\ (got[d] # <<>> => got[d][1].epoch <= epoch)
    <3>1. got[d] # <<>> => got[d][1] \in Packet
      <4>1. got[d] \in Seq(Packet) /\ (got[d] # <<>> => 1 \in 1..Len(got[d]))
        BY SequenceParts, EmptySeq, LenProperties
      <4> QED
        BY <4>1, ElementOfSeq
    <3>2. got[d] # <<>> => got[d][1].epoch # epoch + 1
      <4>0. \A p \in Packet : p.epoch \in Nat
        BY Sizes, PacketFacts
      <4>1. epoch \in Nat
        BY Sizes DEF TypeOK
      <4>2. got[d] # <<>> => got[d][1].epoch \in Nat
        BY <3>1, <4>0, Zenon
      <4>3. \A n, m \in Nat : n <= m => n # m + 1
        OBVIOUS
      <4> QED
        BY <2>2, <4>1, <4>2, <4>3
    <3> QED
      BY <2>2, <3>2 DEF Had, TypeOK
  <2> QED
    BY <2>1, <2>2
<1>4. /\ Had(d) \o <<>> = Had(d) /\ <<>> \o queue[d] = queue[d] /\ <<>> \o <<>> = <<>>
  BY <1>1, ConcatEmptySeq
<1>5. Sequence(d)' \in {Sequence(d), Had(d), queue[d], <<>>}
  BY <1>1, <1>2, <1>3, <1>4
<1>6. epoch' # epoch => Sequence(d)' = queue'[d]
  BY <1>2, <1>3, <1>4
<1>7. Kept(d)
  BY ZenonT(40), <1>1, <1>5, RisingParts, RisingEmpty, MembersEmpty DEF Kept
<1> QED
  BY <1>6, <1>7

\* A step of the users that feeds a decoder nothing new.
LEMMA UserKept ==
  ASSUME Typed, Typed', Ordered, Behind, UserChange,
         \A e \in Decoders : Kept(e),
         \A e \in Decoders : got'[e] # <<>> => user'[e] # "new" /\ got'[e][1].epoch <= epoch',
         next' = next \/ (~pending /\ \A e \in Members(list)' : Sequence(e)' = <<>>),
         \A e \in Members(list)' : e \in Members(list) \/ Sequence(e)' = <<>>
  PROVE  Ordered' /\ Behind'
<1>t. TypeOK /\ TypeOK' /\ (\A e \in Members(list)' : e \in Decoders)
  BY MembersOf DEF Typed, TypeOK
<1>1. Ordered'
  <2>1. \A e \in Decoders : Rising(Sequence(e)')
    BY DEF Ordered, Rising, Kept
  <2>2. \A e \in Decoders : Members(queue[e])' \subseteq Members(queue[e])
    BY <1>t, FewerMembers DEF UserChange
  <2>3. \A e \in Decoders : \A p \in Members(queue[e])' : OfStream(e, p)
    BY <2>2 DEF Ordered
  <2> QED
    BY <2>1, <2>3 DEF Ordered, Rising
<1>2. ASSUME ~pending', thread' \notin {"flush", "clear", "seek", "exited"}, next' < Len(File),
             NEW e \in Members(list)', NEW p \in Members(Sequence(e)')
      PROVE  p.pos < next'
  <2>1. Sequence(e)' # <<>>
    BY <1>2, MembersEmpty
  <2>2. next' = next /\ e \in Members(list) /\ p \in Members(Sequence(e))
    BY <1>2, <1>t, <2>1 DEF Kept
  <2>3. ~pending /\ thread \notin {"flush", "clear", "seek", "exited"}
    BY <1>2 DEF UserChange
  <2> QED
    BY <1>2, <2>2, <2>3 DEF Behind
<1>3. ASSUME pending', HasData(cur'), NEW e \in Members(list)', lastIdx'[e] # idx',
             NEW p \in Members(Sequence(e)')
      PROVE  p.pos < cur'.pos
  <2>1. Sequence(e)' # <<>>
    BY <1>3, MembersEmpty
  <2>2. e \in Members(list) /\ p \in Members(Sequence(e))
    BY <1>3, <1>t, <2>1 DEF Kept
  <2>3. UNCHANGED <<pending, cur, idx, lastIdx>>
    BY DEF UserChange
  <2> QED
    BY <1>3, <2>2, <2>3 DEF Behind
<1> QED
  BY <1>1, <1>2, <1>3 DEF Behind

\* A decoder that is fed the packet at the end of its sequence, or the next one.
LEMMA FedEpoch ==
  ASSUME TypeOK, NEW d \in Decoders, NEW p \in Packet, Feed(d, p), p.epoch = epoch, epoch' = epoch,
         user[d] = "read", Behind
  PROVE  /\ \A e \in Decoders : got'[e] # <<>> => user'[e] # "new" /\ got'[e][1].epoch <= epoch'
         /\ \A e \in Decoders \ {d} : got'[e] = got[e]
         /\ Had(d)' = Append(Had(d), p)
<1>0. got[d] \in Seq(Packet) /\ epoch \in Nat /\ got \in [Decoders -> Seq(Packet)]
  BY Sizes DEF TypeOK
<1>1. /\ \A e \in Decoders \ {d} : got'[e] = got[e] /\ user'[e] = user[e]
      /\ user'[d] \in {"idle", "read"}
  BY FeedTyped DEF Feed, TypeOK
<1>2. CASE got[d] = <<>> \/ got[d][1].epoch = p.epoch
  <2>1. got'[d] = Append(got[d], p)
    BY <1>0, <1>2 DEF Feed
  <2>2. got'[d] # <<>> /\ got'[d][1].epoch = epoch
    <3>1. CASE got[d] = <<>>
      BY <1>0, <2>1, <3>1, AppendProperties, EmptySeq
    <3>2. CASE got[d] # <<>>
      <4>1. 1 \in 1..Len(got[d])
        BY <1>0, <3>2, EmptySeq, LenProperties
      <4> QED
        BY <1>0, <1>2, <2>1, <3>2, <4>1, AppendProperties
    <3> QED
      BY <3>1, <3>2
  <2>3. Had(d) = got[d] /\ Had(d)' = got'[d]
    BY <1>2, <2>2 DEF Had
  <2>4. user'[d] # "new" /\ got'[d][1].epoch <= epoch'
    BY <1>0, <1>1, <2>2
  <2>5. \A e \in Decoders \ {d} : got'[e] # <<>> => user'[e] # "new" /\ got'[e][1].epoch <= epoch'
    BY <1>1 DEF Behind
  <2> QED
    BY <1>1, <2>1, <2>3, <2>4, <2>5
<1>3. CASE ~(got[d] = <<>> \/ got[d][1].epoch = p.epoch)
  <2>1. got'[d] = <<p>>
    BY <1>0, <1>3 DEF Feed
  <2>2. <<p>> # <<>> /\ <<p>>[1] = p /\ Append(<<>>, p) = <<p>>
    OBVIOUS
  <2>3. Had(d) = <<>> /\ Had(d)' = <<p>>
    BY <1>3, <2>1, <2>2 DEF Had
  <2>4. user'[d] # "new" /\ got'[d][1].epoch <= epoch'
    BY <1>0, <1>1, <2>1, <2>2
  <2>5. \A e \in Decoders \ {d} : got'[e] # <<>> => user'[e] # "new" /\ got'[e][1].epoch <= epoch'
    BY <1>1 DEF Behind
  <2> QED
    BY <1>1, <2>2, <2>3, <2>4, <2>5
<1> QED
  BY <1>2, <1>3

\* A step of the users that changes no decoder's packets but by clearing queues.
LEMMA UserQuiet ==
  ASSUME Typed, Typed', Ordered, Behind, UserChange, UNCHANGED got,
         \A e \in Decoders : queue'[e] \in {queue[e], <<>>},
         \A e \in Decoders : user'[e] = "new" => user[e] = "new",
         \A e \in Members(list)' : e \in Members(list) \/ user[e] = "new",
         \/ UNCHANGED <<epoch, next>>
         \/ epoch' = epoch + 1 /\ ~useThread
  PROVE  Ordered' /\ Behind'
<1>t. /\ TypeOK /\ TypeOK' /\ Control /\ (\A e \in Members(list)' : e \in Decoders)
      /\ epoch \in Nat /\ epoch' \in Nat
  <2>1. TypeOK /\ TypeOK' /\ Control /\ list' \in Seq(Decoders)
    BY DEF Typed, TypeOK
  <2>2. epoch \in Nat /\ epoch' \in Nat
    BY Sizes DEF Typed, TypeOK
  <2>3. \A e \in Members(list)' : e \in Decoders
    BY <2>1, MembersOf
  <2> QED
    BY <2>1, <2>2, <2>3
<1>1. \A e \in Decoders : got[e] # <<>> => user[e] # "new" /\ got[e][1].epoch <= epoch
  BY DEF Behind
<1>2. \A e \in Decoders : Kept(e) /\ (epoch' # epoch => Sequence(e)' = queue'[e])
  BY <1>t, <1>1, SequenceKept
<1>3. \A e \in Decoders : got'[e] # <<>> => user'[e] # "new" /\ got'[e][1].epoch <= epoch'
  <2>1. \A e \in Decoders : got[e] # <<>> => got[e][1].epoch \in Nat
    <3>1. \A p \in Packet : p.epoch \in Nat
      BY Sizes, PacketFacts
    <3> QED
      BY <1>t, <3>1, SequenceParts, HeadTailProperties, EmptySeq
  <2>2. \A m \in Nat : m <= epoch => m <= epoch'
    BY <1>t
  <2> QED
    BY <1>1, <2>1, <2>2
<1>4. next' = next \/ (~pending /\ \A e \in Members(list)' : Sequence(e)' = <<>>)
  <2>1. CASE epoch' = epoch + 1 /\ ~useThread
    <3>1. ~pending /\ \A e \in Decoders : queue'[e] = <<>>
      BY <1>t, <2>1 DEF Control
    <3>2. epoch' # epoch
      BY <1>t, <2>1
    <3> QED
      BY <1>t, <1>2, <3>1, <3>2
  <2> QED
    BY <2>1
<1>5. ASSUME NEW e \in Members(list)', e \notin Members(list) PROVE Sequence(e)' = <<>>
  <2>1. e \in Decoders /\ got'[e] = <<>> /\ queue'[e] = <<>>
    BY <1>t, <1>1, <1>5 DEF UserChange
  <2>2. <<>> \o <<>> = <<>>
    BY EmptySeq, ConcatEmptySeq
  <2> QED
    BY <2>1, <2>2 DEF Sequence
<1> QED
  BY <1>2, <1>3, <1>4, <1>5, UserKept

LEMMA PopOrdered ==
  ASSUME Typed, Typed', Fresh, Ordered, Behind, UserChange, NEW d \in Decoders, Pop(d)
  PROVE  Ordered' /\ Behind'
<1>t. /\ TypeOK /\ TypeOK' /\ d \in Members(list)
      /\ queue[d] \in Seq(Packet) /\ queue[d] # <<>> /\ queue \in [Decoders -> Seq(Packet)]
  BY DEF Typed, TypeOK, Attached, Pop
<1> DEFINE p == Head(queue[d])
<1>1. p \in Packet /\ p.epoch = epoch
  <2>1. p \in Packet /\ p = queue[d][1] /\ 1 \in 1..Len(queue[d])
    BY <1>t, HeadTailProperties, EmptySeq, LenProperties
  <2> QED
    BY <1>t, <2>1, MemberOf DEF Fresh
<1>2. /\ Feed(d, p) /\ user[d] = "read" /\ UNCHANGED <<epoch, next, list>>
      /\ queue' = [queue EXCEPT ![d] = Tail(queue[d])]
  BY DEF Pop, demuxVars
<1> HIDE DEF p
<1>3. /\ \A e \in Decoders : got'[e] # <<>> => user'[e] # "new" /\ got'[e][1].epoch <= epoch'
      /\ \A e \in Decoders \ {d} : got'[e] = got[e]
      /\ Had(d)' = Append(Had(d), p)
  BY <1>t, <1>1, <1>2, FedEpoch
<1>4. \A e \in Decoders \ {d} : Kept(e)
  BY <1>t, <1>2, <1>3, SequenceKept
<1>5. Sequence(d)' = Sequence(d)
  <2>1. Sequence(d)' = Had(d)' \o queue'[d]
    BY DEF Had, Sequence
  <2>2. Append(Had(d), p) \o Tail(queue[d]) = Had(d) \o queue[d]
    BY <1>t, SequenceParts, ConcatMove DEF p
  <2> QED
    BY <1>t, <1>2, <1>3, <2>1, <2>2, SequenceParts
<1>6. Kept(d)
  BY <1>5 DEF Kept, Rising
<1> QED
  BY <1>2, <1>3, <1>4, <1>6, UserKept

LEMMA DirectOrdered ==
  ASSUME Typed, Typed', Ordered, Behind, UserChange, NEW d \in Decoders, NEW p \in Packet,
         Alone(d), Feed(d, p), p.epoch = epoch, UNCHANGED <<list, queue, epoch, pending>>,
         \/ ~HasData(p) /\ next' = Len(File)
         \/ HasData(p) /\ p.pos = next /\ next < Len(File) /\ next' = next + 1
  PROVE  Ordered' /\ Behind'
<1>t. /\ TypeOK /\ TypeOK' /\ d \in Members(list) /\ ~pending /\ thread = "off"
      /\ \A e \in Decoders : queue[e] = <<>>
      /\ Members(list) \subseteq Decoders /\ next \in Nat
  <2>1. Members(list) \subseteq Decoders
    BY MembersOf DEF Typed, TypeOK
  <2>2. TypeOK /\ TypeOK' /\ Attached /\ Control /\ user[d] = "read" /\ ~useThread
    BY DEF Typed, Alone
  <2>3. next \in Nat
    BY <2>2, Sizes DEF TypeOK
  <2>4. ~pending /\ thread = "off" /\ \A e \in Decoders : queue[e] = <<>>
    BY <2>2 DEF Control
  <2>5. d \in Members(list)
    BY <2>2 DEF Attached
  <2> QED
    BY <2>1, <2>2, <2>3, <2>4, <2>5
<1>1. /\ \A e \in Decoders : got'[e] # <<>> => user'[e] # "new" /\ got'[e][1].epoch <= epoch'
      /\ \A e \in Decoders \ {d} : got'[e] = got[e]
      /\ Had(d)' = Append(Had(d), p)
  BY <1>t, FedEpoch DEF Alone
<1>2. \A e \in Decoders \ {d} : Kept(e)
  BY <1>t, <1>1, SequenceKept
<1>3. /\ Sequence(d) \in Seq(Packet) /\ Sequence(d)' = Append(Sequence(d), p)
      /\ Members(Append(Sequence(d), p)) = Members(Sequence(d)) \cup {p}
  <2>1. Sequence(d)' = Had(d)' \o queue'[d] /\ queue'[d] = <<>>
    BY <1>t DEF Had, Sequence
  <2>2. /\ Had(d) \in Seq(Packet) /\ Sequence(d) = Had(d) \o <<>>
        /\ Append(Had(d), p) \in Seq(Packet)
    BY <1>t, SequenceParts, AppendProperties
  <2>3. Sequence(d) = Had(d) /\ Sequence(d)' = Append(Had(d), p)
    BY <1>1, <2>1, <2>2, ConcatEmptySeq
  <2> QED
    BY <2>2, <2>3, MembersAppend
<1>4. HasData(p) => \A q \in Members(Sequence(d)) : q.pos < p.pos
  BY <1>t DEF Behind
<1>5. Rising(Sequence(d)')
  <2>1. Rising(Sequence(d))
    BY DEF Ordered, Rising
  <2> QED
    BY <1>3, <1>4, <2>1, RisingAppend
<1>6. \A e \in Decoders : Rising(Sequence(e)')
  BY <1>2, <1>5 DEF Kept, Ordered, Rising
<1>7. Ordered'
  <2>1. \A e \in Decoders : \A q \in Members(queue[e])' : FALSE
    BY <1>t, MembersEmpty DEF Members
  <2> QED
    BY <1>6, <2>1 DEF Ordered, Rising
<1>8. Members(list) \subseteq {d}
  <2>1. list \in Seq(Decoders) /\ Len(list) = 1
    BY <1>t DEF Alone, TypeOK
  <2>2. \A i \in 1..Len(list) : i = 1
    BY <2>1
  <2>3. \A e \in Members(list) : e = list[1]
    BY <2>1, <2>2, MembersOf
  <2> QED
    BY <1>t, <2>3
<1>9. ASSUME next' < Len(File), NEW e \in Members(list)', NEW q \in Members(Sequence(e)')
      PROVE  q.pos < next'
  <2>1. HasData(p) /\ p.pos = next /\ next' = next + 1 /\ e = d
    BY <1>t, <1>8, <1>9, Sizes
  <2>2. q \in Members(Sequence(d)) \/ q = p
    BY <1>3, <1>9, <2>1
  <2>3. CASE q = p
    BY <1>t, <2>1, <2>3
  <2>4. CASE q \in Members(Sequence(d))
    <3>1. q.pos < p.pos /\ q \in Packet
      BY <1>3, <1>4, <2>1, <2>4, MembersOf
    <3>2. q.pos \in Nat
      BY <3>1, PacketFacts, Sizes
    <3> QED
      BY <1>t, <2>1, <3>1, <3>2
  <2> QED
    BY <2>2, <2>3, <2>4
<1>10. Behind'
  BY <1>t, <1>1, <1>9 DEF Behind
<1> QED
  BY <1>7, <1>10

LEMMA UserOrdered ==
  ASSUME Typed, Typed', Fresh, Ordered, Behind, NEW d \in Decoders,
         \/ Open(d) \/ GetFrame(d) \/ UserStep(d) \/ Close(d)
         \/ \E pos \in Positions : Seek(d, pos)
  PROVE  Ordered' /\ Behind'
<1> USE DEF demuxVars, ctxVars, queueVars, userVars
<1>t. /\ TypeOK /\ UserChange /\ list \in Seq(Decoders)
      /\ queue \in [Decoders -> Seq(Packet)] /\ user \in [Decoders -> UserStates]
      /\ next \in 0..Len(File) /\ epoch \in 0..MaxSeeks
  BY UsersChange DEF Typed, TypeOK
\* Callers move on, and nothing else.
<1>0. ASSUME UNCHANGED <<list, epoch, next, got, queue>>,
             \A e \in Decoders : user'[e] = "new" => user[e] = "new"
      PROVE  Ordered' /\ Behind'
  <2>1. \A e \in Members(list)' : e \in Members(list)
    BY <1>0 DEF Members
  <2> QED
    BY <1>0, <1>t, <2>1, UserQuiet
<1>1. CASE Open(d)
  <2>1. /\ list' = Append(list, d) /\ user[d] = "new" /\ UNCHANGED <<epoch, next, got>>
        /\ user' = [user EXCEPT ![d] = "idle"]
    BY <1>1 DEF Open, User
  <2>2. \A e \in Members(list)' : e \in Members(list) \/ user[e] = "new"
    BY <1>t, <2>1, MembersAppend
  <2>3. queue' = [queue EXCEPT ![Head(list)] = <<>>] \/ queue' = queue
    BY <1>1 DEF Open
  <2>4. \A e \in Decoders : queue'[e] \in {queue[e], <<>>}
    BY <1>t, <2>3
  <2>5. \A e \in Decoders : user'[e] = "new" => user[e] = "new"
    BY <1>t, <2>1
  <2> QED
    BY <1>t, <2>1, <2>2, <2>4, <2>5, UserQuiet
<1>2. CASE GetFrame(d) \/ PopTimeout(d) \/ Join(d)
  BY <1>0, <1>2, <1>t DEF GetFrame, PopTimeout, Join, User
<1>3. CASE StartThread(d)
  BY <1>0, <1>3, <1>t DEF StartThread, User
<1>4. CASE Pop(d)
  BY <1>t, <1>4, PopOrdered
<1>5. CASE ReadDirect(d)
  <2>1. next \in Positions /\ next < Len(File)
    BY <1>t, <1>5, Sizes DEF ReadDirect, Positions
  <2>2. /\ DataAt(next) \in Packet /\ HasData(DataAt(next)) /\ DataAt(next).pos = next
        /\ DataAt(next).epoch = epoch
    BY <1>t, <2>1, PacketFacts
  <2>3. /\ Alone(d) /\ Feed(d, DataAt(next)) /\ next' = next + 1
        /\ UNCHANGED <<list, queue, epoch, pending>>
    BY <1>5 DEF ReadDirect
  <2> QED
    BY <1>t, <2>1, <2>2, <2>3, DirectOrdered
<1>6. CASE ReadDirectEof(d)
  <2>1. CASE reachEof
    BY <1>0, <1>6, <1>t, <2>1 DEF ReadDirectEof, User
  <2>2. CASE ~reachEof
    <3>1. BlankNow(TRUE) \in Packet /\ ~HasData(BlankNow(TRUE)) /\ BlankNow(TRUE).epoch = epoch
      BY <1>t, PacketFacts
    <3>2. /\ Alone(d) /\ Feed(d, BlankNow(TRUE)) /\ next' = Len(File)
          /\ UNCHANGED <<list, queue, epoch, pending>>
      BY <1>6, <2>2 DEF ReadDirectEof
    <3> QED
      BY <1>t, <3>1, <3>2, DirectOrdered
  <2> QED
    BY <2>1, <2>2
<1>7. CASE ReadDirectFails(d)
  BY <1>0, <1>7, <1>t DEF ReadDirectFails, User
<1>8. CASE Unref(d)
  <2>1. /\ queue' = [queue EXCEPT ![d] = <<>>] /\ UNCHANGED <<list, epoch, next, got>>
        /\ \E to \in {"joining", "closed"} : user' = [user EXCEPT ![d] = to]
    BY <1>8 DEF Unref, User
  <2>2. \A e \in Decoders : queue'[e] \in {queue[e], <<>>} /\ (user'[e] = "new" => user[e] = "new")
    BY <1>t, <2>1
  <2>3. \A e \in Members(list)' : e \in Members(list)
    BY <2>1 DEF Members
  <2> QED
    BY <1>t, <2>1, <2>2, <2>3, UserQuiet
<1>9. CASE Close(d)
  <2>1. \A e \in Members(list)' : e \in Members(list)
    BY <1>t, <1>9, CloseAttached DEF Typed
  <2>2. /\ UNCHANGED <<queue, epoch, next, got>> /\ user' = [user EXCEPT ![d] = "unlinked"]
    BY <1>9 DEF Close, User
  <2>3. \A e \in Decoders : queue'[e] \in {queue[e], <<>>} /\ (user'[e] = "new" => user[e] = "new")
    BY <1>t, <2>2
  <2> QED
    BY <1>t, <2>1, <2>2, <2>3, UserQuiet
<1>10. ASSUME NEW pos \in Positions, Seek(d, pos) PROVE Ordered' /\ Behind'
  <2>1. UNCHANGED <<list, queue, got, user>>
    BY <1>10 DEF Seek
  <2>2. UNCHANGED <<epoch, next>> \/ (epoch' = epoch + 1 /\ ~useThread)
    BY <1>10 DEF Seek, SeekFile
  <2>3. \A e \in Members(list)' : e \in Members(list)
    BY <2>1 DEF Members
  <2>4. \A e \in Decoders : queue'[e] \in {queue[e], <<>>} /\ (user'[e] = "new" => user[e] = "new")
    BY <2>1
  <2> QED
    BY <1>t, <2>1, <2>2, <2>3, <2>4, UserQuiet
<1> QED
  BY <1>1, <1>2, <1>3, <1>4, <1>5, <1>6, <1>7, <1>8, <1>9, <1>10 DEF UserStep

\* Where the thread is about to seek, or has given up.
Away == {"flush", "clear", "seek", "exited"}

\* A step of the thread that leaves the queues alone: it may read a packet.
LEMMA ThreadQuiet ==
  ASSUME Ordered, Behind, UNCHANGED <<list, queue, epoch, user, got>>,
         \/ pending' \/ thread' \in Away
         \/ (~pending /\ thread \notin Away /\ UNCHANGED next),
         \/ ~pending' \/ ~HasData(cur)'
         \/ (pending /\ UNCHANGED <<cur, idx, lastIdx>>)
         \/ (~pending /\ thread \notin Away /\ next < Len(File) /\ cur'.pos = next)
  PROVE  Ordered' /\ Behind'
<1>1. \A e : UNCHANGED Sequence(e)
  BY DEF Sequence
<1>2. (\A s : UNCHANGED Members(s)) /\ Members(list)' = Members(list) 
      /\ \A e : Members(queue[e])' = Members(queue[e]) /\ Members(Sequence(e))' = Members(Sequence(e))
  BY <1>1 DEF Members
<1>3. Ordered'
  BY <1>1, <1>2 DEF Ordered, OfStream, HasData
<1>4. \A d \in Decoders : got'[d] # <<>> => user'[d] # "new" /\ got'[d][1].epoch <= epoch'
  BY DEF Behind
<1>5. ASSUME ~pending', thread' \notin Away, next' < Len(File),
             NEW d \in Members(list)', NEW p \in Members(Sequence(d))'
      PROVE  p.pos < next'
  BY <1>2, <1>5 DEF Behind, Away
<1>6. ASSUME pending', HasData(cur)', NEW d \in Members(list)', lastIdx'[d] # idx',
             NEW p \in Members(Sequence(d))'
      PROVE  p.pos < cur'.pos
  <2>1. d \in Members(list) /\ p \in Members(Sequence(d))
    BY <1>2, <1>6
  <2>2. CASE pending /\ UNCHANGED <<cur, idx, lastIdx>>
    BY <1>6, <2>1, <2>2 DEF Behind, HasData
  <2>3. CASE ~pending /\ thread \notin Away /\ next < Len(File) /\ cur'.pos = next
    BY <2>1, <2>3 DEF Behind, Away
  <2> QED
    BY <1>6, <2>2, <2>3
<1> QED
  BY <1>3, <1>4, <1>5, <1>6 DEF Behind, Away

\* Clearing a queue, and the seek that comes after all are cleared.
LEMMA FlushOrdered ==
  ASSUME Typed, Typed', Cleared, Ordered, Behind, UNCHANGED <<list, user, got, pending>>,
         \/ ClearQueue
         \/ ThreadSeek
  PROVE  Ordered' /\ Behind'
<1>t. /\ TypeOK /\ TypeOK' /\ ~pending /\ list \in Seq(Decoders) /\ at \in Nat
      /\ queue \in [Decoders -> Seq(Packet)] /\ epoch \in Nat
      /\ Members(list) \subseteq Decoders /\ Members(list)' = Members(list)
  <2>1. TypeOK /\ TypeOK' /\ ~pending
    BY DEF Typed, Control, Seeking, ClearQueue, ThreadSeek, Thread
  <2>2. /\ list \in Seq(Decoders) /\ at \in Nat /\ queue \in [Decoders -> Seq(Packet)]
        /\ epoch \in Nat
    BY <2>1, Sizes DEF TypeOK
  <2>3. Members(list)' = Members(list)
    BY DEF Members
  <2> QED
    BY <2>1, <2>2, <2>3, MembersOf
<1>1. /\ \A e \in Decoders : queue'[e] \in {queue[e], <<>>}
      /\ epoch' = epoch \/ epoch' = epoch + 1
      /\ thread' \in {"clear", "sought"}
      /\ thread' = "sought" => epoch' # epoch /\ UNCHANGED queue /\ thread = "seek"
  <2>1. CASE ClearQueue
    <3>1. queue' = [queue EXCEPT ![list[at]] = <<>>] /\ UNCHANGED <<epoch, thread>> /\ thread = "clear"
      BY <2>1 DEF ClearQueue
    <3> QED
      BY <1>t, <3>1
  <2>2. CASE ThreadSeek
    <3>1. UNCHANGED queue /\ epoch' = epoch + 1 /\ thread = "seek" /\ thread' = "sought"
      BY <2>2 DEF ThreadSeek, SeekFile, Thread, queueVars
    <3> QED
      BY <1>t, <3>1
  <2> QED
    BY <2>1, <2>2
<1>2. \A e \in Decoders : got[e] # <<>> => user[e] # "new" /\ got[e][1].epoch <= epoch
  BY DEF Behind
<1>3. \A e \in Decoders : Kept(e) /\ (epoch' # epoch => Sequence(e)' = queue'[e])
  BY <1>t, <1>1, <1>2, SequenceKept
<1>4. Ordered'
  <2>1. \A e \in Decoders : Rising(Sequence(e)')
    BY <1>3 DEF Kept, Ordered, Rising
  <2>2. \A e \in Decoders : Members(queue[e])' \subseteq Members(queue[e])
    BY <1>t, <1>1, FewerMembers DEF Fewer
  <2> QED
    BY <2>1, <2>2 DEF Ordered, Rising, OfStream
<1>5. \A e \in Decoders : got'[e] # <<>> => user'[e] # "new" /\ got'[e][1].epoch <= epoch'
  <2>1. \A e \in Decoders : got[e] # <<>> => got[e][1].epoch \in Nat
    <3>1. \A p \in Packet : p.epoch \in Nat
      BY Sizes, PacketFacts
    <3> QED
      BY <1>t, <3>1, SequenceParts, HeadTailProperties, EmptySeq
  <2>2. \A m \in Nat : m <= epoch => m <= epoch'
    BY <1>t, <1>1
  <2> QED
    BY <1>2, <2>1, <2>2
<1>6. ASSUME thread' = "sought", NEW e \in Members(list)' PROVE Sequence(e)' = <<>>
  <2>1. queue[e] = <<>> /\ e \in Decoders
    BY <1>t, <1>1, <1>6 DEF Cleared
  <2> QED
    BY <1>1, <1>3, <1>6, <2>1
<1>7. ASSUME thread' \notin Away, NEW e \in Members(list)', NEW p \in Members(Sequence(e)')
      PROVE  FALSE
  BY <1>1, <1>6, <1>7, MembersEmpty DEF Away
<1> QED
  BY <1>t, <1>4, <1>5, <1>7 DEF Behind, Away

LEMMA PushOrdered ==
  ASSUME Typed, Typed', Ordered, Behind, SendPush, NEW d \in Decoders, d = Here
  PROVE  Ordered' /\ Behind'
<1>t. /\ TypeOK /\ pending /\ cur \in Packet /\ d \in Decoders /\ list \in Seq(Decoders)
      /\ queue \in [Decoders -> Seq(Packet)] /\ lastIdx \in [Decoders -> Nat \cup {SizeMax}]
      /\ d \in Members(list) /\ Members(list) \subseteq Decoders
  <2>0. TypeOK /\ pending
    BY DEF Typed, Control, SendPush
  <2>1. /\ TypeOK /\ pending /\ cur \in Packet /\ list \in Seq(Decoders) /\ at \in Nat \ {0}
        /\ queue \in [Decoders -> Seq(Packet)] /\ lastIdx \in [Decoders -> Nat \cup {SizeMax}]
    BY SMTT(30), <2>0, Sizes DEF TypeOK
  <2>2. at \in 1..Len(list)
    BY <2>1, LenProperties DEF SendPush
  <2> QED
    BY <2>1, <2>2, MembersOf DEF Here
<1>1. /\ UNCHANGED <<list, user, got, epoch, pending, cur, idx>>
      /\ queue' = [queue EXCEPT ![d] = Append(queue[d], cur)]
      /\ lastIdx' = [lastIdx EXCEPT ![d] = idx]
      /\ OfStream(d, cur) /\ lastIdx[d] # idx
  BY DEF SendPush, Skips, OfStream, userVars
<1>2. \A e \in Decoders \ {d} : UNCHANGED <<queue[e], lastIdx[e], Sequence(e)>>
  BY <1>t, <1>1 DEF Sequence
<1>3. /\ Sequence(d) \in Seq(Packet) /\ Sequence(d)' = Append(Sequence(d), cur)
  <2>1. Had(d)' = Had(d) /\ Sequence(d)' = Had(d)' \o queue'[d] /\ queue'[d] = Append(queue[d], cur)
    BY <1>t, <1>1 DEF Had, Sequence
  <2>2. /\ Had(d) \in Seq(Packet) /\ queue[d] \in Seq(Packet) /\ Sequence(d) \in Seq(Packet)
        /\ Sequence(d) = Had(d) \o queue[d]
    BY <1>t, SequenceParts
  <2> QED
    BY <1>t, <2>1, <2>2, ConcatAppend
<1>4. Rising(Sequence(d)')
  <2>1. Rising(Sequence(d)) /\ (HasData(cur) => \A q \in Members(Sequence(d)) : q.pos < cur.pos)
    BY <1>t, <1>1 DEF Ordered, Rising, Behind
  <2> QED
    BY <1>t, <1>3, <2>1, RisingAppend
<1>5. \A e \in Decoders : Rising(Sequence(e)')
  BY <1>2, <1>4 DEF Ordered, Rising
<1>6. \A e \in Decoders : \A p \in Members(queue[e])' : OfStream(e, p)
  <2>1. Members(queue[d])' = Members(queue[d]) \cup {cur}
    <3>1. Members(Append(queue[d], cur)) = Members(queue[d]) \cup {cur}
      BY <1>t, MembersAppend
    <3> QED
      BY <1>t, <1>1, <3>1
  <2>2. \A e \in Decoders \ {d} : Members(queue[e])' = Members(queue[e])
    BY <1>2 DEF Members
  <2>3. \A e \in Decoders : \A p \in Members(queue[e]) : OfStream(e, p)
    BY DEF Ordered
  <2> QED
    BY <1>1, <2>1, <2>2, <2>3
<1>7. Ordered'
  BY <1>5, <1>6 DEF Ordered, Rising, OfStream
<1>8. \A e \in Decoders : got'[e] # <<>> => user'[e] # "new" /\ got'[e][1].epoch <= epoch'
  BY <1>1 DEF Behind
<1>9. ASSUME HasData(cur)', NEW e \in Members(list)', lastIdx'[e] # idx',
             NEW p \in Members(Sequence(e)')
      PROVE  p.pos < cur'.pos
  <2>1. e \in Members(list) /\ e \in Decoders /\ e # d
    BY <1>t, <1>1, <1>9 DEF Members
  <2> QED
    BY <1>t, <1>1, <1>2, <1>9, <2>1 DEF Behind, HasData
<1> QED
  BY <1>t, <1>1, <1>7, <1>8, <1>9 DEF Behind

LEMMA ThreadOrdered ==
  ASSUME Typed, Typed', Cleared, Ordered, Behind, ThreadStep
  PROVE  Ordered' /\ Behind'
<1> USE DEF Thread, demuxVars, ctxVars, queueVars, userVars
<1>t. TypeOK /\ Control
  BY DEF Typed
<1>1. CASE LoopExit \/ LoopSeek \/ LoopRead \/ FlushLock \/ FlushUnlock \/ ThreadSeekFails
  <2>1. CASE LoopExit
    BY <2>1, ThreadQuiet DEF LoopExit, Away
  <2>2. CASE LoopSeek
    BY <2>2, ThreadQuiet DEF LoopSeek, Away
  <2>3. CASE LoopRead
    BY <2>3, ThreadQuiet DEF LoopRead, Away
  <2>4. CASE FlushLock
    BY <2>4, ThreadQuiet DEF FlushLock, Away
  <2>5. CASE FlushUnlock
    BY <2>5, ThreadQuiet DEF FlushUnlock, Away
  <2>6. CASE ThreadSeekFails
    BY <2>6, ThreadQuiet DEF ThreadSeekFails, Away
  <2> QED
    BY <1>1, <2>1, <2>2, <2>3, <2>4, <2>5, <2>6
<1>2. CASE ClearQueue \/ ThreadSeek
  BY <1>2, FlushOrdered DEF ClearQueue, ThreadSeek
<1>3. CASE SeekDone \/ NeedsForcePush \/ ReadFrameFails \/ SendLock \/ SendSkip
  <2>1. CASE SeekDone
    BY <2>1, ThreadQuiet DEF SeekDone, Away
  <2>2. CASE NeedsForcePush
    BY <2>2, ThreadQuiet DEF NeedsForcePush, Away
  <2>3. CASE ReadFrameFails
    BY <2>3, ThreadQuiet DEF ReadFrameFails, Away
  <2>4. CASE SendLock
    BY <2>4, ThreadQuiet DEF SendLock, Away
  <2>5. CASE SendSkip
    BY <2>5, ThreadQuiet DEF SendSkip, Away
  <2> QED
    BY <1>3, <2>1, <2>2, <2>3, <2>4, <2>5
<1>4. CASE ReadFrame
  <2>1. CASE reachEof \/ pending
    BY <1>4, <2>1, ThreadQuiet DEF ReadFrame, Away
  <2>2. CASE ~(reachEof \/ pending)
    <3>1. \/ next < Len(File) /\ cur' = DataAt(next)
          \/ cur' = BlankNow(TRUE)
      BY <1>4, <2>2 DEF ReadFrame
    <3>2. DataAt(next).pos = next /\ BlankNow(TRUE).pos = Blank
      BY DEF DataAt, BlankNow
    <3>3. /\ UNCHANGED <<list, queue, epoch, user, got>> /\ pending' /\ ~pending
          /\ thread \notin Away
      BY <1>4, <2>2 DEF ReadFrame, Away
    <3>4. ~HasData(cur)' \/ (next < Len(File) /\ cur'.pos = next)
      BY <3>1, <3>2 DEF HasData
    <3> QED
      BY <3>3, <3>4, ThreadQuiet
  <2> QED
    BY <2>1, <2>2
<1>5. CASE SendPush
  <2>1. at \in 1..Len(list) /\ list \in Seq(Decoders)
    BY <1>t, <1>5, LenProperties, Sizes DEF SendPush, TypeOK
  <2>2. Here \in Decoders
    BY <2>1, MembersOf DEF Here
  <2> QED
    BY <1>5, <2>2, PushOrdered
<1>6. ASSUME NEW late \in BOOLEAN, Sent(late) PROVE Ordered' /\ Behind'
  <2>1. UNCHANGED <<list, queue, epoch, user, got, idx, lastIdx>> /\ pending' /\ pending
    BY <1>t, <1>6 DEF Sent, Control
  <2>2. cur' = cur \/ ~HasData(cur)'
    BY <1>6 DEF Sent, BlankNow, HasData
  <2> QED
    BY <2>1, <2>2, ThreadQuiet
<1>7. CASE SendNothing
  <2>1. ~HasData(cur)'
    BY <1>7 DEF SendNothing, BlankNow, HasData
  <2>2. UNCHANGED <<list, queue, epoch, user, got>> /\ pending'
    BY <1>7 DEF SendNothing
  <2> QED
    BY <2>1, <2>2, ThreadQuiet
<1> QED
  BY <1>1, <1>2, <1>3, <1>4, <1>5, <1>6, <1>7 DEF ThreadStep, SendEnd, SendTimeout, SendFails

LEMMA NextOrdered ==
  Typed /\ Typed' /\ Fresh /\ Cleared /\ Ordered /\ Behind /\ [Next \/ Finished]_vars
    => Ordered' /\ Behind'
<1> SUFFICES ASSUME Typed, Typed', Fresh, Cleared, Ordered, Behind, [Next \/ Finished]_vars
             PROVE  Ordered' /\ Behind'
  OBVIOUS
<1>1. CASE UNCHANGED vars
  BY <1>1, ThreadQuiet DEF vars, demuxVars, ctxVars, queueVars, userVars
<1> QED
  BY <1>1, ThreadOrdered, UserOrdered DEF Next, Finished

LEMMA InitReading == Init => Reading
<1> SUFFICES ASSUME Init PROVE Reading
  OBVIOUS
<1>1. Typed
  BY InitTyped
<1>2. \A d \in Decoders : queue[d] = <<>> /\ got[d] = <<>>
  BY DEF Init
<1>3. \A d \in Decoders : Sequence(d) = <<>>
  BY <1>2, EmptySeq, ConcatEmptySeq DEF Sequence
<1>4. Members(list) \subseteq Decoders
  BY <1>1, MembersOf DEF Typed, TypeOK
<1>5. Fresh /\ Cleared
  BY <1>2, <1>4, MembersEmpty DEF Fresh, Cleared, Init
<1>6. Ordered
  BY <1>2, <1>3, MembersEmpty DEF Ordered
<1>7. Behind
  BY <1>2, <1>3, <1>4, MembersEmpty DEF Behind, Init
<1> QED
  BY <1>1, <1>5, <1>6, <1>7 DEF Reading

LEMMA AlwaysReading == Spec => []Reading
<1>1. Reading /\ [Next \/ Finished]_vars => Reading'
  BY NextTyped, NextFresh, NextOrdered DEF Reading
<1> QED
  BY <1>1, InitReading, PTL DEF Spec

\* Every field keeps its type: the packet thread's index and the positions in
\* the file stay in range, and no packet is made up.
THEOREM Typing == Spec => []TypeOK
<1>1. Reading => TypeOK
  BY DEF Reading, Typed
<1> QED
  BY <1>1, AlwaysReading, PTL

\* No packet from before a seek is left in the queue of an attached decoder
\* once the file has been sought.
THEOREM NothingStale == Spec => []Fresh
<1>1. Reading => Fresh
  BY DEF Reading
<1> QED
  BY <1>1, AlwaysReading, PTL

\* A decoder has each packet of the file at most once and in file order, and its
\* queue holds packets of its stream only.
THEOREM InFileOrder == Spec => []Ordered
<1>1. Reading => Ordered
  BY DEF Reading
<1> QED
  BY <1>1, AlwaysReading, PTL

----------------------------------------------------------------------------
(* A timeout drops no packet.                                              *)

LEMMA NextPassed ==
  ASSUME Typed, Passed, [Next \/ Finished]_vars
  PROVE  Passed'
<1>t. /\ TypeOK /\ list \in Seq(Decoders) /\ Len(list) \in Nat /\ at \in Nat \ {0}
      /\ lastIdx \in [Decoders -> Nat \cup {SizeMax}]
      /\ \A i \in 1..Len(list) : list[i] \in Decoders
  <2>1. TypeOK
    BY DEF Typed
  <2>2. list \in Seq(Decoders) /\ at \in Nat \ {0} /\ lastIdx \in [Decoders -> Nat \cup {SizeMax}]
    BY <2>1, Sizes DEF TypeOK
  <2> QED
    BY <2>1, <2>2, MembersOf, LenProperties
\* Where the loop is not at work, or nothing it works with changes.
<1>0. ASSUME \/ thread' # "sending"
             \/ UNCHANGED <<thread, list, cur, idx, at, lastIdx>>
      PROVE  Passed'
  BY <1>0 DEF Passed, OfStream, HasData
<1>1. CASE UNCHANGED vars
  BY <1>0, <1>1 DEF vars, ctxVars, queueVars
<1>2. ASSUME NEW d \in Decoders,
             \/ Open(d) \/ GetFrame(d) \/ UserStep(d) \/ Close(d)
             \/ \E pos \in Positions : Seek(d, pos)
      PROVE  Passed'
  <2>1. UserChange
    BY <1>2, UsersChange
  <2> QED
    BY <1>0, <2>1 DEF UserChange
<1>3. CASE LoopExit \/ LoopSeek \/ LoopRead \/ FlushLock \/ FlushUnlock \/ ThreadSeek \/ ThreadSeekFails
  BY <1>0, <1>3 DEF LoopExit, LoopSeek, LoopRead, FlushLock, FlushUnlock, ThreadSeek, ThreadSeekFails, Thread
<1>4. CASE SeekDone \/ NeedsForcePush \/ ReadFrame \/ ReadFrameFails
  BY <1>0, <1>4 DEF SeekDone, NeedsForcePush, ReadFrame, ReadFrameFails, Thread
<1>5. CASE ClearQueue \/ SendNothing \/ \E late \in BOOLEAN : Sent(late)
  BY <1>0, <1>5 DEF ClearQueue, SendNothing, Sent, Thread
<1>6. CASE SendLock
  <2>1. at' = 1
    BY <1>6 DEF SendLock
  <2> QED
    BY <1>t, <2>1 DEF Passed
<1>7. CASE SendSkip \/ SendPush
  <2>1. /\ thread = "sending" /\ at \in 1..Len(list) /\ at' = at + 1
        /\ UNCHANGED <<list, cur, idx>>
    BY <1>t, <1>7 DEF SendSkip, SendPush
  <2>2. OfStream(Here, cur) => lastIdx'[Here] = idx
    BY <1>t, <1>7, <2>1 DEF SendSkip, SendPush, Skips, OfStream, Here, queueVars
  <2>3. \A d \in Decoders : lastIdx[d] = idx => lastIdx'[d] = idx
    BY <1>t, <1>7 DEF SendSkip, SendPush, queueVars
  <2>4. ASSUME NEW i \in 1..Len(list), i < at + 1, OfStream(list[i], cur)
        PROVE  lastIdx'[list[i]] = idx
    <3>1. CASE i < at
      BY <1>t, <2>1, <2>3, <2>4, <3>1 DEF Passed
    <3>2. CASE i = at
      BY <2>2, <2>4, <3>2 DEF Here
    <3> QED
      BY <1>t, <2>4, <3>1, <3>2
  <2>5. \A d : OfStream(d, cur)' <=> OfStream(d, cur)
    BY <2>1 DEF OfStream, HasData
  <2> QED
    BY <2>1, <2>4, <2>5 DEF Passed
<1> QED
  BY <1>1, <1>2, <1>3, <1>4, <1>5, <1>6, <1>7
  DEF Next, ThreadStep, SendEnd, SendTimeout, SendFails, Finished

\* A packet with data leaves the thread's hands only when every decoder of its
\* stream has it or a seek makes it void, however often its push timed out, as
\* long as no push fails for want of memory.
THEOREM TimeoutsDropNothing ==
  ASSUME "push" \notin Faults
  PROVE  Spec => NoDrop
<1> DEFINE Step ==
      HasData(cur) /\ cur' # cur =>
        \/ thread = "top" /\ seekRequest # None
        \/ \A d \in Members(list) : OfStream(d, cur) => lastIdx[d] = idx
<1>1. Init => Passed
  BY DEF Init, Passed
<1>2. Typed /\ Passed /\ [Next \/ Finished]_vars => Step
  <2> SUFFICES ASSUME Typed, Passed, [Next \/ Finished]_vars, HasData(cur), cur' # cur
               PROVE  \/ thread = "top" /\ seekRequest # None
                      \/ \A d \in Members(list) : OfStream(d, cur) => lastIdx[d] = idx
    OBVIOUS
  <2>1. pending /\ list \in Seq(Decoders) /\ at \in Nat
    <3>1. TypeOK /\ Control
      BY DEF Typed
    <3> QED
      BY <3>1, Sizes DEF TypeOK, Control
  <2>2. ThreadStep
    <3>1. \A d \in Decoders : \/ Open(d) \/ GetFrame(d) \/ UserStep(d) \/ Close(d)
                              \/ \E pos \in Positions : Seek(d, pos)
                              => UNCHANGED cur
      BY UsersChange DEF UserChange
    <3> QED
      BY <3>1 DEF Next, Finished, vars, ctxVars
  <2>3. LoopSeek \/ SendEnd
    BY <2>1, <2>2
    DEF ThreadStep, LoopExit, LoopRead, FlushLock, ClearQueue, FlushUnlock, ThreadSeek,
        ThreadSeekFails, SeekDone, NeedsForcePush, ReadFrame, ReadFrameFails, SendLock, SendSkip,
        SendPush, SendTimeout, SendFails, SendNothing, Sent, ctxVars
  <2>4. CASE LoopSeek
    BY <2>4 DEF LoopSeek, Thread
  <2>5. CASE SendEnd
    <3>1. thread = "sending" /\ at > Len(list) /\ Len(list) \in Nat
      BY <2>1, <2>5, LenProperties DEF SendEnd, Sent, Thread
    <3>2. \A i \in 1..Len(list) : OfStream(list[i], cur) => lastIdx[list[i]] = idx
      BY <2>1, <3>1 DEF Passed
    <3> QED
      BY <2>1, <3>2, MembersOf
  <2> QED
    BY <2>3, <2>4, <2>5
<1>3. Typed /\ Passed /\ [Next \/ Finished]_vars => Typed' /\ Passed'
  BY NextTyped, NextPassed
<1>4. Init => Typed
  BY InitTyped
<1>5. Spec => [][HasData(cur) /\ cur' # cur =>
                   \/ thread = "top" /\ seekRequest # None
                   \/ \A d \in Members(list) : OfStream(d, cur) => lastIdx[d] = idx]_vars
  BY <1>1, <1>2, <1>3, <1>4, PTL DEF Spec
<1> QED
  BY <1>5 DEF NoDrop

----------------------------------------------------------------------------
(* A seek without the thread lands at or before its target.                *)

\* Whoever reads the file alone is the only decoder of the list.
LEMMA AloneInList ==
  ASSUME Typed, NEW d \in Decoders, Alone(d)
  PROVE  Members(list) = {d}
<1>1. list \in Seq(Decoders) /\ Len(list) = 1 /\ d \in Members(list)
  BY DEF Typed, TypeOK, Attached, Alone
<1>2. \A i \in 1..Len(list) : i = 1
  BY <1>1
<1>3. \A e \in Members(list) : e = list[1]
  BY <1>1, <1>2, MembersOf
<1> QED
  BY <1>1, <1>3

LEMMA NextAimed ==
  ASSUME Typed, Aimed, [Next \/ Finished]_vars
  PROVE  Aimed'
<1> USE DEF demuxVars, ctxVars, queueVars, userVars
<1>t. /\ TypeOK /\ Control /\ target \in [Decoders -> Positions \cup {None}] /\ next \in Nat
      /\ user \in [Decoders -> UserStates] /\ list \in Seq(Decoders)
  <2>1. TypeOK /\ Control
    BY DEF Typed
  <2> QED
    BY SMTT(30), <2>1, Sizes DEF TypeOK
<1>0. ASSUME UNCHANGED target, \A e \in Decoders : user'[e] = "new" => user[e] = "new",
             useThread' \/ (~useThread /\ UNCHANGED next),
             \A e \in Members(list)' : e \in Members(list) \/ target[e] = None
      PROVE  Aimed'
  BY <1>0 DEF Aimed
<1>1. CASE UNCHANGED vars
  BY <1>1 DEF vars, Aimed, Members
<1>2. CASE ThreadStep
  <2>1. useThread \/ thread = "off"
    BY <1>t DEF Control
  <2>2. useThread /\ UNCHANGED <<useThread, target, user, list>>
    BY <1>2, <2>1
    DEF ThreadStep, LoopExit, LoopSeek, LoopRead, FlushLock, ClearQueue, FlushUnlock, ThreadSeek,
        ThreadSeekFails, SeekDone, NeedsForcePush, ReadFrame, ReadFrameFails, SendLock, SendSkip,
        SendPush, SendEnd, SendTimeout, SendFails, SendNothing, Sent, Thread
  <2> QED
    BY <1>0, <2>2 DEF Members
<1>3. ASSUME NEW d \in Decoders, Open(d) PROVE Aimed'
  <2>1. /\ list' = Append(list, d) /\ user[d] = "new" /\ user' = [user EXCEPT ![d] = "idle"]
        /\ UNCHANGED <<target, next, useThread>>
    BY <1>3 DEF Open, User
  <2>2. \A e \in Members(list)' : e \in Members(list) \/ target[e] = None
    BY <1>t, <2>1, MembersAppend DEF Aimed
  <2> QED
    BY <1>0, <1>t, <2>1, <2>2
<1>4. ASSUME NEW d \in Decoders, GetFrame(d) \/ StartThread(d) \/ PopTimeout(d) \/ ReadDirectFails(d)
      PROVE  Aimed'
  <2>1. UNCHANGED <<target, next, list>> /\ (useThread' \/ (~useThread /\ UNCHANGED next))
    BY <1>4 DEF GetFrame, StartThread, PopTimeout, ReadDirectFails
  <2>2. \A e \in Decoders : user'[e] = "new" => user[e] = "new"
    BY <1>t, <1>4 DEF GetFrame, StartThread, PopTimeout, ReadDirectFails, User
  <2> QED
    BY <1>0, <2>1, <2>2 DEF Members
<1>5. ASSUME NEW d \in Decoders, Unref(d) \/ Join(d) \/ Close(d) PROVE Aimed'
  <2>1. UNCHANGED <<target, next, useThread>>
    BY <1>5 DEF Unref, Join, Close
  <2>2. \A e \in Decoders : user'[e] = "new" => user[e] = "new"
    BY <1>t, <1>5 DEF Unref, Join, Close, User
  <2>3. \A e \in Members(list)' : e \in Members(list)
    <3>1. CASE Close(d)
      BY <1>t, <3>1, CloseAttached DEF Typed
    <3>2. CASE Unref(d) \/ Join(d)
      BY <3>2 DEF Unref, Join, Members
    <3> QED
      BY <1>5, <3>1, <3>2
  <2> QED
    BY <1>0, <2>1, <2>2, <2>3
<1>6. ASSUME NEW d \in Decoders, NEW p \in Packet, Feed(d, p), user[d] = "read", UNCHANGED list,
             useThread' \/ Alone(d)
      PROVE  Aimed'
  <2>1. target' = [target EXCEPT ![d] = None] /\ \A e \in Decoders : user'[e] = "new" => user[e] = "new"
    BY <1>t, <1>6, FeedTyped DEF Feed
  <2>2. Alone(d) => Members(list)' = {d}
    BY <1>6, AloneInList DEF Members
  <2> QED
    BY <1>t, <1>6, <2>1, <2>2 DEF Aimed
<1>7. ASSUME NEW d \in Decoders, Pop(d) PROVE Aimed'
  <2>1. Head(queue[d]) \in Packet
    BY <1>t, <1>7, HeadTailProperties, EmptySeq DEF Pop, TypeOK
  <2> QED
    BY <1>6, <1>7, <2>1 DEF Pop
<1>8. ASSUME NEW d \in Decoders, ReadDirect(d) PROVE Aimed'
  <2>1. DataAt(next) \in Packet
    BY <1>t, <1>8, PacketFacts, Sizes DEF ReadDirect, TypeOK, Positions
  <2> QED
    BY <1>6, <1>8, <2>1 DEF ReadDirect, Alone
<1>9. ASSUME NEW d \in Decoders, ReadDirectEof(d) PROVE Aimed'
  <2>1. BlankNow(TRUE) \in Packet
    BY <1>t, PacketFacts DEF TypeOK
  <2>2. CASE ~reachEof
    BY <1>6, <1>9, <2>1, <2>2 DEF ReadDirectEof, Alone
  <2>3. CASE reachEof
    <3>1. UNCHANGED <<target, next, list, useThread>> /\ user' = [user EXCEPT ![d] = "idle"]
      BY <1>9, <2>3 DEF ReadDirectEof, User
    <3> QED
      BY <1>0, <1>t, <3>1 DEF Members
  <2> QED
    BY <2>2, <2>3
<1>10. ASSUME NEW d \in Decoders, NEW pos \in Positions, Seek(d, pos) PROVE Aimed'
  <2>1. UNCHANGED <<list, user, useThread>>
    BY <1>10 DEF Seek
  <2>2. CASE useThread \/ UNCHANGED <<next, target>>
    <3>1. \A e \in Decoders : user[e] = "new" => target'[e] = None
      BY <1>10, <2>2 DEF Seek, Aim, Aimed
    <3> QED
      BY <2>1, <2>2, <3>1 DEF Aimed, Members
  <2>3. CASE ~useThread /\ SeekFile(pos) /\ Aim(pos)
    <3>1. next' \in 0..pos
      BY <2>3 DEF SeekFile
    <3>2. \A e \in Decoders : target'[e] \in {pos, None} /\ (user[e] = "new" => target'[e] = None)
      BY <2>3 DEF Aim
    <3>3. Members(list)' \subseteq Decoders
      BY <1>t, <2>1, MembersOf DEF Members
    <3>4. next' <= pos
      BY <3>1
    <3> QED
      BY <2>1, <3>2, <3>3, <3>4 DEF Aimed
  <2> QED
    BY <1>10, <2>2, <2>3 DEF Seek
<1> QED
  BY <1>1, <1>2, <1>3, <1>4, <1>5, <1>7, <1>8, <1>9, <1>10 DEF Next, UserStep, Finished

\* As long as the callers read the file themselves, the first packet that a
\* decoder has after a seek is not from behind the position asked for.
THEOREM SeekNotBeyond == Spec => SeekLands
<1> DEFINE Lands(d) ==
      got'[d] # got[d] /\ target[d] # None =>
        LET p == got'[d][Len(got'[d])] IN HasData(p) => p.pos <= target[d]
<1>1. Init => Typed /\ Aimed
  <2>1. Typed => Members(list) \subseteq Decoders
    BY MembersOf DEF Typed, TypeOK
  <2>2. Init => \A d \in Decoders : target[d] = None
    BY DEF Init
  <2> QED
    BY <2>1, <2>2, InitTyped DEF Aimed
<1>2. Typed /\ Aimed /\ [Next \/ Finished]_vars => Typed' /\ Aimed'
  BY NextTyped, NextAimed
<1>3. Typed /\ Aimed /\ [Next \/ Finished]_vars => (~useThread' => \A d \in Decoders : Lands(d))
  <2> SUFFICES ASSUME Typed, Aimed, [Next \/ Finished]_vars, ~useThread', NEW d \in Decoders,
                      got'[d] # got[d], target[d] # None, HasData(got'[d][Len(got'[d])])
               PROVE  got'[d][Len(got'[d])].pos <= target[d]
    OBVIOUS
  <2>t. TypeOK /\ got \in [Decoders -> Seq(Packet)] /\ got[d] \in Seq(Packet)
    BY DEF Typed, TypeOK
  <2>1. ASSUME NEW e \in Decoders, Pop(e) \/ ReadDirect(e) \/ (ReadDirectEof(e) /\ ~reachEof)
        PROVE  e = d /\ ~useThread /\ Alone(d)
    <3>1. ReadDirect(e) \/ (ReadDirectEof(e) /\ ~reachEof)
      BY <2>1 DEF Pop, demuxVars
    <3>2. Alone(e) /\ \E p : Feed(e, p)
      BY <3>1 DEF ReadDirect, ReadDirectEof
    <3>3. \A x \in Decoders \ {e} : got'[x] = got[x]
      BY <2>t, <3>2 DEF Feed
    <3> QED
      BY <3>2, <3>3 DEF Alone
  <2>2. ASSUME NEW p \in Packet, Feed(d, p) PROVE got'[d][Len(got'[d])] = p
    <3>1. got'[d] \in {Append(got[d], p), <<p>>}
      BY <2>t, <2>2 DEF Feed
    <3>2. Append(got[d], p)[Len(Append(got[d], p))] = p
      BY <2>t, AppendProperties, LenProperties
    <3> QED
      BY <3>1, <3>2
  <2>3. \E e \in Decoders : Pop(e) \/ ReadDirect(e) \/ (ReadDirectEof(e) /\ ~reachEof)
    <3>1. ThreadStep => UNCHANGED got
      BY DEF ThreadStep, LoopExit, LoopSeek, LoopRead, FlushLock, ClearQueue, FlushUnlock, ThreadSeek,
        ThreadSeekFails, SeekDone, NeedsForcePush, ReadFrame, ReadFrameFails, SendLock, SendSkip,
        SendPush, SendEnd, SendTimeout, SendFails, SendNothing, Sent, userVars
    <3>2. \A e \in Decoders : Open(e) \/ GetFrame(e) \/ Close(e) \/ StartThread(e) \/ PopTimeout(e)
                              \/ ReadDirectFails(e) \/ Unref(e) \/ Join(e) => UNCHANGED got
      BY DEF Open, GetFrame, Close, StartThread, PopTimeout, ReadDirectFails, Unref, Join
    <3>3. \A e \in Decoders : \A pos \in Positions : Seek(e, pos) => UNCHANGED got
      BY DEF Seek
    <3>4. \A e \in Decoders : ReadDirectEof(e) /\ reachEof => UNCHANGED got
      BY DEF ReadDirectEof
    <3> QED
      BY <3>1, <3>2, <3>3, <3>4 DEF Next, UserStep, Finished, vars, userVars
  <2>4. Pop(d) \/ ReadDirect(d) \/ (ReadDirectEof(d) /\ ~reachEof)
    BY <2>1, <2>3
  <2>5. ~useThread /\ d \in Members(list) /\ next <= target[d]
    BY <2>1, <2>4, AloneInList DEF Aimed
  <2>6. CASE ReadDirect(d)
    <3>1. next \in Positions
      BY <2>t, <2>6, Sizes DEF ReadDirect, TypeOK, Positions
    <3>2. DataAt(next) \in Packet /\ DataAt(next).pos = next
      BY <2>t, <3>1, PacketFacts DEF TypeOK
    <3> QED
      BY <2>2, <2>5, <2>6, <3>2 DEF ReadDirect
  <2>7. CASE ReadDirectEof(d) /\ ~reachEof
    <3>1. BlankNow(TRUE) \in Packet /\ ~HasData(BlankNow(TRUE)) /\ Feed(d, BlankNow(TRUE))
      BY <2>t, <2>7, PacketFacts DEF TypeOK, ReadDirectEof
    <3> QED
      BY <2>2, <3>1
  <2> QED
    BY <2>4, <2>5, <2>6, <2>7 DEF Pop
<1>4. Spec => [][~useThread' => \A d \in Decoders : Lands(d)]_vars
  BY <1>1, <1>2, <1>3, PTL DEF Spec
<1> QED
  BY <1>4 DEF SeekLands
=============================================================================
