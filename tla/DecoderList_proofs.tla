------------------------- MODULE DecoderList_proofs -------------------------
(***************************************************************************)
(* Proofs about DecoderList: for any number of decoders, opened and closed *)
(* at the same time, the list, the reference count and the queues agree.   *)
(***************************************************************************)
EXTENDS DecoderList, FiniteSetTheorems, TLAPS

\* The history `order` says which decoders are open, each once.
OrderIsOpen ==
  /\ \A i \in 1..Len(order) : pc[order[i]] = "open"
  /\ \A i, j \in 1..Len(order) : order[i] = order[j] => i = j
  /\ \A d \in Decoders : pc[d] = "open" => Linked(d)

\* Stages of a decoder that never was in the list.
Unlisted == {"none", "kept", "inner", "unwind", "unwound", "destruct", "destructed"}

\* What is true of the list on every call, the untidy ones included: nobody
\* ever sets prev, and last_decoder is an open decoder without a successor.
Pointers ==
  /\ \A d \in Decoders : prev[d] = Null
  /\ last # Null => pc[last] = "open" /\ succ[last] = Null
  /\ \A d \in Decoders : pc[d] \in Unlisted => succ[d] = Null

\* Only decoders that were added are pointed to.
Added ==
  /\ first # Null => pc[first] \notin Unlisted
  /\ \A d \in Decoders : succ[d] # Null => pc[succ[d]] \notin Unlisted

\* No reference is left that nobody gives up.
Counted ==
  /\ refs <= Cardinality(Holders)
  /\ demuxer = "alive" => refs > 0

\* A FIFO that the next decoder to be added will overwrite, or that the next
\* but one will: there is at most one, and it takes a decoder's close to get it.
Doomed ==
  \/ first # Null /\ first = last /\ queue[first]
  \/ first # Null /\ last = Null

Gone == {d \in Decoders : pc[d] \in {"unlinked", "closed"}}

LostFew ==
  /\ \A d \in Decoders : pc[d] \in {"none", "kept", "inner"} => ~queue[d]
  /\ lost + (IF Doomed THEN 1 ELSE 0) <= Cardinality(Gone)

QueuesGone == \A d \in Decoders : pc[d] \in {"destruct", "destructed", "closed"} => ~queue[d]

\* What is true as long as no open failed and the oldest decoder closed first.
Tidy ==
  tidy =>
    /\ \A d \in Decoders : pc[d] \in {"none", "kept", "inner", "open", "unlinked", "closed"}
    /\ refs = Cardinality(Holders)
    /\ demuxer # "alive" => Holders = {}
    /\ ~misused

\* The inductive invariant.
Inv ==
  /\ ListTypeOK /\ OrderIsOpen /\ Pointers /\ Added /\ Counted /\ QueuesGone /\ Tidy
  /\ ListIsOpenDecoders /\ QueuesReady /\ LostFew

----------------------------------------------------------------------------
\* Taking a decoder out of the list leaves the others, each once; taking out
\* the oldest leaves the tail.
LEMMA WithoutOne ==
  ASSUME ListTypeOK, OrderIsOpen, NEW d \in Decoders
  PROVE  /\ Without(d) \in Seq(Decoders)
         /\ \A e : (\E i \in 1..Len(Without(d)) : Without(d)[i] = e) <=> (Linked(e) /\ e # d)
         /\ \A i, j \in 1..Len(Without(d)) : Without(d)[i] = Without(d)[j] => i = j
         /\ order # <<>> /\ d = Head(order) => Without(d) = Tail(order)
         /\ ~Linked(d) => Without(d) = order
<1> DEFINE k == CHOOSE i \in 1..Len(order) : order[i] = d
<1>0. order \in Seq(Decoders)
  BY DEF ListTypeOK
<1>1. CASE ~Linked(d)
  <2>1. Without(d) = order
    BY <1>1 DEF Without
  <2>2. order # <<>> => Linked(Head(order))
    BY <1>0 DEF Linked
  <2> QED
    BY <1>0, <1>1, <2>1, <2>2 DEF OrderIsOpen, Linked
<1>2. CASE Linked(d)
  <2>1. k \in 1..Len(order) /\ order[k] = d
    BY <1>2 DEF Linked
  <2> HIDE DEF k
  <2>2. Without(d) = SubSeq(order, 1, k - 1) \o SubSeq(order, k + 1, Len(order))
    BY <1>2 DEF Without, RemoveAt, k
  <2>3. /\ Without(d) \in Seq(Decoders)
        /\ Len(Without(d)) = Len(order) - 1
        /\ \A i \in 1..Len(Without(d)) : Without(d)[i] = IF i < k THEN order[i] ELSE order[i + 1]
    <3> DEFINE front == SubSeq(order, 1, k - 1)
               back == SubSeq(order, k + 1, Len(order))
    <3>1. /\ front \in Seq(Decoders) /\ Len(front) = k - 1
          /\ \A i \in 1..(k - 1) : front[i] = order[i]
      BY <1>0, <2>1
    <3>2. /\ back \in Seq(Decoders) /\ Len(back) = Len(order) - k
          /\ \A i \in 1..(Len(order) - k) : back[i] = order[i + k]
      BY <1>0, <2>1
    <3>3. Without(d) = front \o back
      BY <2>2
    <3> HIDE DEF front, back
    <3>4. Without(d) \in Seq(Decoders) /\ Len(Without(d)) = Len(order) - 1
      BY <1>0, <2>1, <3>1, <3>2, <3>3
    <3>5. ASSUME NEW i \in 1..Len(Without(d))
          PROVE  Without(d)[i] = IF i < k THEN order[i] ELSE order[i + 1]
      <4>1. Without(d)[i] = IF i <= Len(front) THEN front[i] ELSE back[i - Len(front)]
        BY <1>0, <2>1, <3>1, <3>2, <3>3, <3>4
      <4> QED
        BY <1>0, <2>1, <3>1, <3>2, <3>4, <4>1
    <3> QED
      BY <3>4, <3>5
  <2>4. \A i, j \in 1..Len(Without(d)) : Without(d)[i] = Without(d)[j] => i = j
    BY <1>0, <2>1, <2>3 DEF OrderIsOpen
  <2>5. ASSUME NEW e, Linked(e), e # d
        PROVE  \E i \in 1..Len(Without(d)) : Without(d)[i] = e
    <3>1. PICK i \in 1..Len(order) : order[i] = e
      BY <2>5 DEF Linked
    <3>2. CASE i < k
      BY <1>0, <2>1, <2>3, <3>1, <3>2
    <3>3. CASE i > k
      <4>1. i - 1 \in 1..Len(Without(d)) /\ Without(d)[i - 1] = e
        BY <1>0, <2>1, <2>3, <3>1, <3>3
      <4> QED
        BY <4>1
    <3> QED
      BY <1>0, <2>1, <2>5, <3>1, <3>2, <3>3
  <2>6. ASSUME NEW i \in 1..Len(Without(d))
        PROVE  Linked(Without(d)[i]) /\ Without(d)[i] # d
    BY <1>0, <2>1, <2>3 DEF OrderIsOpen, Linked
  <2>7. ASSUME order # <<>>, d = Head(order)
        PROVE  Without(d) = Tail(order)
    <3>1. k = 1
      BY <1>0, <2>1, <2>7 DEF OrderIsOpen
    <3> QED
      BY <1>0, <2>2, <3>1
  <2>8. \A e : (\E i \in 1..Len(Without(d)) : Without(d)[i] = e) <=> (Linked(e) /\ e # d)
    BY <2>5, <2>6
  <2>9. order # <<>> /\ d = Head(order) => Without(d) = Tail(order)
    BY <2>7
  <2>10. Without(d) \in Seq(Decoders)
    BY <2>3
  <2> QED
    BY <1>2, <2>4, <2>8, <2>9, <2>10, Zenon
<1> QED
  BY <1>1, <1>2

\* How the number of holders changes when a decoder goes from one stage to
\* another.
Holding == {"kept", "inner", "open", "unlinked", "unwind", "unwound"}

LEMMA HoldersChange ==
  ASSUME ListTypeOK, NEW d \in Decoders, NEW b \in Stages, pc' = [pc EXCEPT ![d] = b]
  PROVE  /\ Cardinality(Holders) \in Nat
         /\ (Cardinality(Holders) = 0) = (Holders = {})
         /\ (pc[d] \in Holding <=> b \in Holding) => Holders' = Holders
         /\ pc[d] \notin Holding /\ b \in Holding =>
              d \in Holders' /\ Cardinality(Holders') = Cardinality(Holders) + 1
         /\ pc[d] \in Holding /\ b \notin Holding =>
              /\ d \in Holders /\ Cardinality(Holders') = Cardinality(Holders) - 1
              /\ (Cardinality(Holders') = 0) = (Holders' = {})
<1>1. pc \in [Decoders -> Stages] /\ IsFiniteSet(Decoders)
  BY DecodersAssumption DEF ListTypeOK
<1>2. IsFiniteSet(Holders) /\ IsFiniteSet(Holders')
  BY <1>1, FS_Subset DEF Holders
<1>3. CASE pc[d] \in Holding <=> b \in Holding
  <2>1. Holders' = Holders
    BY <1>1, <1>3 DEF Holders, Holding
  <2> QED
    BY <1>2, <1>3, <2>1, FS_CardinalityType, FS_EmptySet
<1>4. CASE pc[d] \notin Holding /\ b \in Holding
  <2>1. Holders' = Holders \cup {d} /\ d \notin Holders
    BY <1>1, <1>4 DEF Holders, Holding
  <2> QED
    BY <1>2, <1>4, <2>1, FS_AddElement, FS_CardinalityType, FS_EmptySet
<1>5. CASE pc[d] \in Holding /\ b \notin Holding
  <2>1. Holders' = Holders \ {d} /\ d \in Holders
    BY <1>1, <1>5 DEF Holders, Holding
  <2> QED
    BY <1>2, <1>5, <2>1, FS_RemoveElement, FS_CardinalityType, FS_EmptySet
<1> QED
  BY <1>3, <1>4, <1>5

\* What a step that leaves the list alone keeps of it.
LEMMA OffList ==
  ASSUME Inv, NEW d \in Decoders, NEW b \in Stages \ {"open"}, pc[d] # "open",
         b \in Unlisted => pc[d] \in Unlisted, b # "none",
         pc' = [pc EXCEPT ![d] = b], UNCHANGED <<list, order>>, tidy' => tidy
  PROVE  OrderIsOpen' /\ Pointers' /\ Added' /\ ListIsOpenDecoders'
<1>1. pc \in [Decoders -> Stages] /\ order \in Seq(Decoders) /\ last \in Decoders \cup {Null}
  BY DEF Inv, ListTypeOK, Pointer
<1>2. \A e \in Decoders : (pc'[e] = "open") = (pc[e] = "open")
  BY <1>1
<1>3. OrderIsOpen'
  BY <1>1, <1>2 DEF Inv, OrderIsOpen, Linked
<1>4. Pointers' /\ Added'
  <2>1. \A e \in Decoders : pc'[e] \in Unlisted => pc[e] \in Unlisted
    BY <1>1
  <2>2. \A e \in Decoders : pc[e] \notin Unlisted => pc'[e] \notin Unlisted
    BY <2>1
  <2>3. UNCHANGED <<first, last, prev, succ>>
    BY DEF list
  <2>4. Pointers'
    BY <1>1, <1>2, <2>1, <2>3 DEF Inv, Pointers
  <2>5. Added'
    BY <1>1, <2>2, <2>3 DEF Inv, Added, ListTypeOK, Pointer
  <2> QED
    BY <2>4, <2>5
<1>5. ListIsOpenDecoders'
  BY DEF Inv, ListIsOpenDecoders, list
<1> QED
  BY <1>3, <1>4, <1>5

LEMMA Few ==
  ASSUME NEW a \in Nat, NEW b \in Nat, NEW c \in Nat, NEW e \in Nat, NEW g \in Nat, NEW h \in Nat,
         a + b <= c + e, c + e <= g, g <= h
  PROVE  a + b <= h
OBVIOUS

\* How the number of decoders that left changes likewise.
LEMMA GoneChange ==
  ASSUME ListTypeOK, NEW d \in Decoders, NEW b \in Stages, pc' = [pc EXCEPT ![d] = b]
  PROVE  /\ Cardinality(Gone) \in Nat /\ Cardinality(Gone') \in Nat
         /\ (d \in Gone => b \in {"unlinked", "closed"}) =>
              Cardinality(Gone) <= Cardinality(Gone')
         /\ d \notin Gone /\ b \in {"unlinked", "closed"} =>
              Cardinality(Gone') = Cardinality(Gone) + 1
<1>1. pc \in [Decoders -> Stages] /\ IsFiniteSet(Decoders)
  BY DecodersAssumption DEF ListTypeOK
<1>2. IsFiniteSet(Gone) /\ IsFiniteSet(Gone')
  BY <1>1, FS_Subset DEF Gone
<1>3. Cardinality(Gone) \in Nat /\ Cardinality(Gone') \in Nat
  BY <1>2, FS_CardinalityType
<1>4. ASSUME d \in Gone => b \in {"unlinked", "closed"}
      PROVE  Cardinality(Gone) <= Cardinality(Gone')
  <2>1. Gone \subseteq Gone'
    BY <1>1, <1>4 DEF Gone
  <2> QED
    BY <1>2, <2>1, FS_Subset
<1>5. ASSUME d \notin Gone, b \in {"unlinked", "closed"}
      PROVE  Cardinality(Gone') = Cardinality(Gone) + 1
  <2>1. Gone' = Gone \cup {d}
    BY <1>1, <1>5 DEF Gone
  <2> QED
    BY <1>2, <1>5, <2>1, FS_AddElement
<1> QED
  BY <1>3, <1>4, <1>5

\* A step that neither makes a queue nor touches the list loses no FIFO.
LEMMA OffQueues ==
  ASSUME Inv, NEW d \in Decoders, NEW b \in Stages, pc' = [pc EXCEPT ![d] = b],
         b \in {"none", "kept", "inner"} => pc[d] \in {"none", "kept", "inner"},
         pc[d] \in {"unlinked", "closed"} => b \in {"unlinked", "closed"},
         UNCHANGED <<list, lost>>,
         queue' = queue \/ queue' = [queue EXCEPT ![d] = FALSE]
  PROVE  LostFew'
<1>1. /\ pc \in [Decoders -> Stages] /\ queue \in [Decoders -> BOOLEAN] /\ lost \in Nat
      /\ first \in Decoders \cup {Null} /\ ListTypeOK
  BY DEF Inv, ListTypeOK, Pointer
<1>2. \A e \in Decoders : queue'[e] => queue[e]
  BY <1>1
<1>3. Doomed' => Doomed
  BY <1>1, <1>2 DEF Doomed, list
<1>4. /\ Cardinality(Gone) \in Nat /\ Cardinality(Gone') \in Nat
      /\ Cardinality(Gone) <= Cardinality(Gone')
  BY <1>1, GoneChange DEF Gone
<1>5. \A e \in Decoders : pc'[e] \in {"none", "kept", "inner"} => ~queue'[e]
  BY <1>1, <1>2 DEF Inv, LostFew
<1>6. lost + (IF Doomed THEN 1 ELSE 0) <= Cardinality(Gone)
  BY DEF Inv, LostFew
<1>7. lost' + (IF Doomed' THEN 1 ELSE 0) <= Cardinality(Gone')
  BY <1>1, <1>3, <1>4, <1>6
<1> QED
  BY <1>5, <1>7 DEF LostFew

\* Which FIFOs are lost when queues are made: the one of a decoder that is
\* alone and has one.
LEMMA Overwritten ==
  ASSUME Inv, NEW ds \in SUBSET Decoders, NEW d \in Decoders, pc[d] = "inner",
         \/ ds = {} \/ ds = {d}
         \/ first \in Decoders /\ ds \in {{first}, {first, d}},
         Overwrite(ds)
  PROVE  lost' = lost + (IF first \in ds /\ first # Null /\ queue[first] THEN 1 ELSE 0)
<1> DEFINE gone == {e \in ds : queue[e]}
<1>1. ~queue[d] /\ Null \notin Decoders /\ (first # Null => first # d)
  BY DecodersAssumption DEF Inv, LostFew, Added, Unlisted
<1>2. CASE first \in ds /\ first # Null /\ queue[first]
  <2>1. gone = {first}
    BY <1>1, <1>2
  <2> QED
    BY <1>2, <2>1, FS_Singleton DEF Overwrite
<1>3. CASE ~(first \in ds /\ first # Null /\ queue[first])
  <2>1. gone = {}
    BY <1>1, <1>3, DecodersAssumption
  <2> QED
    BY <1>3, <2>1, FS_EmptySet DEF Overwrite
<1> QED
  BY <1>2, <1>3

\* Unlinking a decoder: prev is Null, so the head of the list becomes its
\* successor, and its end is lost when it was the end.
LEMMA Unlinking ==
  ASSUME Inv, NEW d \in Decoders, Unlink(d)
  PROVE  /\ prev' = prev /\ succ' = succ /\ first' = succ[d]
         /\ last' = IF succ[d] = Null THEN Null ELSE last
         /\ order' = Without(d)
<1>1. prev \in [Decoders -> Pointer] /\ succ \in [Decoders -> Pointer] /\ prev[d] = Null
  BY DEF Inv, ListTypeOK, Pointers
<1>2. succ[d] # Null => succ[d] \in Decoders /\ prev[succ[d]] = Null
  BY <1>1 DEF Inv, Pointers, Pointer
<1>3. prev' = prev
  BY <1>1, <1>2 DEF Unlink
<1> QED
  BY <1>1, <1>3 DEF Unlink

----------------------------------------------------------------------------
\* The invariant holds at first.
THEOREM Initially == ListInit => Inv
<1> SUFFICES ASSUME ListInit PROVE Inv
  OBVIOUS
<1>1. ListTypeOK
  <2>1. order = <<>> /\ order \in Seq(Decoders)
    BY DEF ListInit
  <2>2. /\ prev \in [Decoders -> Pointer] /\ succ \in [Decoders -> Pointer]
        /\ first \in Pointer /\ last \in Pointer
    BY DEF ListInit, Pointer
  <2>3. /\ queue \in [Decoders -> BOOLEAN] /\ own \in [Decoders -> BOOLEAN]
        /\ pc \in [Decoders -> Stages]
    BY DEF ListInit, Stages
  <2>4. refs \in Int /\ lost \in Nat /\ demuxer = "none"
    BY DEF ListInit
  <2>5. misused \in BOOLEAN /\ tidy \in BOOLEAN
    BY Zenon DEF ListInit
  <2> QED
    BY <2>1, <2>2, <2>3, <2>4, <2>5 DEF ListTypeOK
<1>2. Holders = {} /\ Cardinality(Holders) = 0 /\ Cardinality(Gone) = 0
  <2>1. Holders = {} /\ Gone = {}
    BY DEF ListInit, Holders, Gone
  <2> QED
    BY <2>1, FS_EmptySet
<1> QED
  BY <1>1, <1>2 DEF ListInit, Inv, OrderIsOpen, Pointers, Counted, QueuesGone, Tidy, Unlisted,
     ListIsOpenDecoders, QueuesReady, Linked, Added, LostFew, Doomed, Gone

\* Every step keeps the invariant.
THEOREM Inductive == Inv /\ [ListNext]_listVars => Inv'
<1> SUFFICES ASSUME Inv, [ListNext]_listVars PROVE Inv'
  OBVIOUS
<1> USE DecodersAssumption
<1>0. ListTypeOK /\ OrderIsOpen /\ Pointers /\ Added /\ Counted /\ QueuesGone /\ Tidy
      /\ ListIsOpenDecoders /\ QueuesReady /\ LostFew
  BY DEF Inv
<1>1. ASSUME NEW d \in Decoders, OpenOwn(d) PROVE Inv'
  <2>1. pc[d] = "none" /\ pc' = [pc EXCEPT ![d] = "inner"] /\ "inner" \in Stages
    BY <1>1 DEF OpenOwn, Move, Stages
  <2>2. /\ Cardinality(Holders) \in Nat /\ (Cardinality(Holders) = 0) = (Holders = {})
        /\ d \in Holders' /\ Cardinality(Holders') = Cardinality(Holders) + 1
    BY <1>0, <2>1, HoldersChange DEF Holding
  <2>3. ListTypeOK'
    BY <1>0, <1>1, <2>1 DEF OpenOwn, Unref, Uses, ListTypeOK, list, queues
  <2>4. OrderIsOpen' /\ Pointers' /\ Added' /\ ListIsOpenDecoders'
    BY <1>1, <2>1, OffList DEF OpenOwn, Unlisted, Stages, queues
  <2>5. Counted'
    BY <1>0, <1>1, <2>2 DEF OpenOwn, Unref, Counted, ListTypeOK
  <2>6. QueuesGone'
    BY <1>0, <1>1, <2>1 DEF OpenOwn, QueuesGone, ListTypeOK, queues
  <2>7. Tidy'
    BY <1>0, <1>1, <2>1, <2>2 DEF OpenOwn, Unref, Tidy, ListTypeOK, Stages, Counted, OrderIsOpen
  <2>8. QueuesReady'
    BY <1>0, <1>1, <2>1 DEF OpenOwn, QueuesReady, Linked, ListTypeOK, list, queues
  <2>9. LostFew'
    BY <1>1, <2>1, OffQueues DEF OpenOwn, list, queues
  <2> QED
    BY <2>3, <2>4, <2>5, <2>6, <2>7, <2>8, <2>9 DEF Inv
<1>2. ASSUME NEW d \in Decoders, OpenShared(d) PROVE Inv'
  <2>1. pc[d] = "none" /\ pc' = [pc EXCEPT ![d] = "inner"] /\ "inner" \in Stages
    BY <1>2 DEF OpenShared, Move, Stages
  <2>2. /\ Cardinality(Holders) \in Nat /\ (Cardinality(Holders) = 0) = (Holders = {})
        /\ d \in Holders' /\ Cardinality(Holders') = Cardinality(Holders) + 1
    BY <1>0, <2>1, HoldersChange DEF Holding
  <2>3. ListTypeOK'
    BY <1>0, <1>2, <2>1 DEF OpenShared, Unref, Uses, ListTypeOK, list, queues
  <2>4. OrderIsOpen' /\ Pointers' /\ Added' /\ ListIsOpenDecoders'
    BY <1>2, <2>1, OffList DEF OpenShared, Unlisted, Stages, queues
  <2>5. Counted'
    BY <1>0, <1>2, <2>2 DEF OpenShared, Unref, Counted, ListTypeOK
  <2>6. QueuesGone'
    BY <1>0, <1>2, <2>1 DEF OpenShared, QueuesGone, ListTypeOK, queues
  <2>7. Tidy'
    BY <1>0, <1>2, <2>1, <2>2 DEF OpenShared, Unref, Tidy, ListTypeOK, Stages, Counted, OrderIsOpen
  <2>8. QueuesReady'
    BY <1>0, <1>2, <2>1 DEF OpenShared, QueuesReady, Linked, ListTypeOK, list, queues
  <2>9. LostFew'
    BY <1>2, <2>1, OffQueues DEF OpenShared, list, queues
  <2> QED
    BY <2>3, <2>4, <2>5, <2>6, <2>7, <2>8, <2>9 DEF Inv
<1>3. ASSUME NEW d \in Decoders, Add(d) PROVE Inv'
  <2>1. pc[d] = "inner" /\ pc' = [pc EXCEPT ![d] = "open"] /\ "open" \in Stages
    BY <1>3 DEF Add, Move, Stages
  <2>2. Cardinality(Holders) \in Nat /\ Holders' = Holders /\ d \in Holders
    BY <1>0, <2>1, HoldersChange DEF Holding, Holders
  <2>4. /\ order \in Seq(Decoders) /\ order' = Append(order, d) /\ Len(order') = Len(order) + 1
        /\ \A i \in 1..Len(order') : order'[i] = IF i <= Len(order) THEN order[i] ELSE d
        /\ ~Linked(d)
    BY <1>0, <1>3, <2>1 DEF Add, ListTypeOK, OrderIsOpen, Linked
  <2>5. OrderIsOpen'
    <3>1. \A i \in 1..Len(order') : pc'[order'[i]] = "open"
      BY <1>0, <2>1, <2>4 DEF OrderIsOpen, ListTypeOK
    <3>2. \A i, j \in 1..Len(order') : order'[i] = order'[j] => i = j
      BY <1>0, <2>4 DEF OrderIsOpen, Linked
    <3>3. ASSUME NEW e \in Decoders, pc'[e] = "open" PROVE Linked(e)'
      <4>1. e = d \/ Linked(e)
        BY <1>0, <2>1, <3>3 DEF OrderIsOpen, ListTypeOK
      <4> QED
        BY <2>4, <4>1 DEF Linked
    <3> QED
      BY <3>1, <3>2, <3>3 DEF OrderIsOpen
  <2>6. Pointers' /\ Added'
    <3>1. Pointers'
      BY <1>0, <1>3, <2>1 DEF Add, Pointers, ListTypeOK, Pointer, Unlisted
    <3>2. \A e \in Decoders : pc[e] \notin Unlisted => pc'[e] \notin Unlisted
      BY <1>0, <2>1 DEF ListTypeOK, Unlisted
    <3>3. pc'[d] \notin Unlisted
      BY <1>0, <2>1 DEF ListTypeOK, Unlisted
    <3>4. first' # Null => pc'[first'] \notin Unlisted
      BY <1>0, <1>3, <3>2, <3>3 DEF Add, Added, ListTypeOK, Pointer
    <3>5. ASSUME NEW e \in Decoders, succ'[e] # Null PROVE pc'[succ'[e]] \notin Unlisted
      <4>1. succ'[e] = d \/ succ'[e] = succ[e]
        BY <1>0, <1>3 DEF Add, ListTypeOK
      <4>2. succ[e] \in Decoders \cup {Null}
        BY <1>0 DEF ListTypeOK, Pointer
      <4> QED
        BY <1>0, <3>2, <3>3, <3>5, <4>1, <4>2 DEF Added
    <3> QED
      BY <3>1, <3>4, <3>5 DEF Added
  <2>n. first # Null => first \in Decoders /\ first # d
    BY <1>0, <2>1 DEF Added, Unlisted, ListTypeOK, Pointer
  <2>o. NeedQueue(d) \in SUBSET Decoders
    BY <2>n DEF NeedQueue
  <2>7. Counted' /\ QueuesGone'
    <3>1. Counted'
      BY <1>0, <1>3, <2>2 DEF Add, Counted
    <3>2. ASSUME NEW e \in Decoders, pc'[e] \in {"destruct", "destructed", "closed"} PROVE ~queue'[e]
      <4>1. pc[e] = pc'[e] /\ e # d
        BY <1>0, <2>1, <3>2 DEF ListTypeOK
      <4>2. ~queue[e]
        BY <1>0, <3>2, <4>1 DEF QueuesGone
      <4>3. first = last => e # first
        BY <1>0, <2>n, <3>2, <4>1 DEF Pointers
      <4> QED
        BY <1>3, <4>1, <4>2, <4>3 DEF Add, NeedQueue
    <3> QED
      BY <3>1, <3>2 DEF QueuesGone
  <2>l. lost' = lost + (IF first # Null /\ first = last /\ queue[first] THEN 1 ELSE 0)
    <3>1. Overwrite(NeedQueue(d))
      BY <1>3 DEF Add
    <3>2. lost' = lost + (IF first \in NeedQueue(d) /\ first # Null /\ queue[first] THEN 1 ELSE 0)
      BY <2>1, <2>n, <2>o, <3>1, Overwritten DEF NeedQueue
    <3>3. first \in NeedQueue(d) /\ first # Null <=> first # Null /\ first = last
      BY <2>n DEF NeedQueue
    <3> QED
      BY <3>2, <3>3
  <2>11. LostFew'
    <3>1. /\ Cardinality(Gone) \in Nat /\ Cardinality(Gone') \in Nat
          /\ Cardinality(Gone) <= Cardinality(Gone')
      BY <1>0, <2>1, GoneChange DEF Gone
    <3>2. /\ lost \in Nat /\ queue \in [Decoders -> BOOLEAN]
          /\ lost + (IF Doomed THEN 1 ELSE 0) <= Cardinality(Gone)
      BY <1>0 DEF ListTypeOK, LostFew
    <3>3. lost' + (IF Doomed' THEN 1 ELSE 0) <= lost + (IF Doomed THEN 1 ELSE 0)
      <4>1. CASE first = Null
        <5>1. ~Doomed'
          <6>1. CASE last = Null
            <7>1. first' = d /\ last' = d /\ queue'[d] = queue[d]
              BY <1>3, <3>2, <4>1, <6>1 DEF Add, NeedQueue
            <7>2. ~queue[d]
              BY <1>0, <2>1 DEF LostFew
            <7> QED
              BY <7>1, <7>2 DEF Doomed
          <6>2. CASE last # Null
            BY <1>3, <4>1, <6>2 DEF Add, Doomed
          <6> QED
            BY <6>1, <6>2
        <5> QED
          BY <2>l, <3>2, <4>1, <5>1
      <4>2. CASE first # Null /\ last = Null
        BY <2>l, <3>2, <4>2 DEF Doomed
      <4>3. CASE first # Null /\ last # Null
        <5>1. first' = first /\ last' = d
          BY <1>3, <4>3 DEF Add
        <5>2. ~Doomed'
          BY <2>n, <4>3, <5>1 DEF Doomed
        <5> QED
          BY <2>l, <3>2, <4>3, <5>2 DEF Doomed
      <4> QED
        BY <4>1, <4>2, <4>3
    <3>4. lost' \in Nat
      BY <2>l, <3>2
    <3>5. ASSUME NEW e \in Decoders, pc'[e] \in {"none", "kept", "inner"} PROVE ~queue'[e]
      <4>1. e # d /\ pc[e] = pc'[e]
        BY <1>0, <2>1, <3>5 DEF ListTypeOK
      <4>2. ~queue[e] /\ (first # Null => e # first)
        BY <1>0, <3>5, <4>1 DEF LostFew, Added, Unlisted
      <4> QED
        BY <1>3, <4>1, <4>2 DEF Add, NeedQueue
    <3>6. lost' + (IF Doomed' THEN 1 ELSE 0) <= Cardinality(Gone')
      <4> DEFINE D == IF Doomed THEN 1 ELSE 0
                 E == IF Doomed' THEN 1 ELSE 0
      <4>1. /\ D \in Nat /\ E \in Nat
            /\ lost' + E <= lost + D /\ lost + D <= Cardinality(Gone)
        BY <3>2, <3>3
      <4> HIDE DEF D, E
      <4>2. lost' + E <= Cardinality(Gone')
        BY <3>1, <3>2, <3>4, <4>1, Few
      <4> QED
        BY <4>2 DEF E
    <3> QED
      BY <3>5, <3>6 DEF LostFew
  <2>8. Tidy'
    BY <1>0, <1>3, <2>1, <2>2 DEF Add, Uses, Tidy, ListTypeOK
  <2>9. ASSUME tidy PROVE ListIsOpenDecoders' /\ QueuesReady'
    <3>1. CASE order = <<>>
      <4>1. first = Null /\ last = Null /\ first' = d /\ last' = d /\ succ' = succ
        BY <1>0, <1>3, <2>9, <3>1 DEF Add, ListIsOpenDecoders
      <4>2. succ[d] = Null
        BY <1>0, <2>1 DEF Pointers, Unlisted
      <4> QED
        BY <2>4, <3>1, <4>1, <4>2 DEF ListIsOpenDecoders, QueuesReady
    <3>2. CASE order # <<>>
      <4>1. /\ first = order[1] /\ last = order[Len(order)] /\ Len(order) \in Nat \ {0}
            /\ first \in Decoders /\ last \in Decoders
            /\ \A i \in 1..Len(order) : succ[order[i]] = IF i = Len(order) THEN Null ELSE order[i + 1]
        BY <1>0, <2>4, <2>9, <3>2 DEF ListIsOpenDecoders
      <4>2. first' = first /\ last' = d /\ succ' = [succ EXCEPT ![last] = d] /\ succ \in [Decoders -> Pointer]
        BY <1>0, <1>3, <4>1 DEF Add, ListTypeOK
      <4>3. succ[d] = Null /\ d # last
        BY <1>0, <2>1, <2>4, <4>1 DEF Pointers, Linked, Unlisted
      <4>4. ASSUME NEW i \in 1..Len(order')
            PROVE  succ'[order'[i]] = IF i = Len(order') THEN Null ELSE order'[i + 1]
        <5>1. CASE i = Len(order')
          BY <2>4, <4>2, <4>3, <5>1
        <5>2. CASE i = Len(order)
          BY <2>4, <4>1, <4>2, <5>2
        <5>3. CASE i < Len(order)
          <6>1. order[i] # last /\ order[i] \in Decoders
            BY <1>0, <2>4, <4>1, <5>3 DEF OrderIsOpen
          <6> QED
            BY <2>4, <4>1, <4>2, <5>3, <6>1
        <5> QED
          BY <2>4, <5>1, <5>2, <5>3
      <4>5. ListIsOpenDecoders'
        BY <2>4, <4>1, <4>2, <4>4 DEF ListIsOpenDecoders
      <4>6. ASSUME NEW e \in Decoders, Linked(e)' PROVE queue'[e]
        <5>1. e = d \/ Linked(e)
          BY <2>4, <4>6 DEF Linked
        <5>2. CASE first = last
          <6>1. Len(order) = 1
            <7>1. 1 \in 1..Len(order) /\ Len(order) \in 1..Len(order)
              BY <4>1
            <7>2. order[1] = order[Len(order)]
              BY <4>1, <5>2
            <7> QED
              BY <1>0, <7>1, <7>2 DEF OrderIsOpen
          <6>2. e \in {first, d}
            BY <4>1, <5>1, <6>1 DEF Linked
          <6> QED
            BY <1>0, <1>3, <4>1, <5>2, <6>2 DEF Add, NeedQueue
        <5>3. CASE first # last
          BY <1>0, <1>3, <2>9, <4>1, <5>1, <5>3 DEF Add, NeedQueue, QueuesReady
        <5> QED
          BY <5>2, <5>3
      <4> QED
        BY <4>5, <4>6 DEF QueuesReady
    <3> QED
      BY <3>1, <3>2
  <2>3. ListTypeOK'
    <3>1. lost' \in Nat
      BY <1>0, <2>l DEF ListTypeOK
    <3> QED
      BY <1>0, <1>3, <2>1, <3>1 DEF Add, NeedQueue, Uses, ListTypeOK, Pointer
  <2>10. tidy' = tidy
    BY <1>3 DEF Add
  <2> QED
    BY <2>3, <2>5, <2>6, <2>7, <2>8, <2>9, <2>10, <2>11 DEF Inv, ListIsOpenDecoders, QueuesReady
<1>4. ASSUME NEW d \in Decoders, CodecFails(d) PROVE Inv'
  <2>1. pc[d] = "inner" /\ pc' = [pc EXCEPT ![d] = "unwind"] /\ "unwind" \in Stages
    BY <1>4 DEF CodecFails, Move, Stages
  <2>2. /\ Cardinality(Holders) \in Nat /\ (Cardinality(Holders) = 0) = (Holders = {})
        /\ Holders' = Holders
    BY <1>0, <2>1, HoldersChange DEF Holding
  <2>3. ListTypeOK'
    BY <1>0, <1>4, <2>1 DEF CodecFails, Unref, Uses, ListTypeOK, list, queues
  <2>4. OrderIsOpen' /\ Pointers' /\ Added' /\ ListIsOpenDecoders'
    BY <1>4, <2>1, OffList DEF CodecFails, Unlisted, Stages, queues
  <2>5. Counted'
    BY <1>0, <1>4, <2>2 DEF CodecFails, Unref, Counted, ListTypeOK
  <2>6. QueuesGone'
    BY <1>0, <1>4, <2>1 DEF CodecFails, QueuesGone, ListTypeOK, queues
  <2>7. Tidy'
    BY <1>0, <1>4, <2>1, <2>2 DEF CodecFails, Unref, Tidy, ListTypeOK, Stages, Counted, OrderIsOpen
  <2>8. QueuesReady'
    BY <1>0, <1>4, <2>1 DEF CodecFails, QueuesReady, Linked, ListTypeOK, list, queues
  <2>9. LostFew'
    BY <1>4, <2>1, OffQueues DEF CodecFails, list, queues
  <2> QED
    BY <2>3, <2>4, <2>5, <2>6, <2>7, <2>8, <2>9 DEF Inv
<1>5. ASSUME NEW d \in Decoders, AddFails(d) PROVE Inv'
  <2>1. pc[d] = "inner" /\ pc' = [pc EXCEPT ![d] = "unwind"] /\ "unwind" \in Stages
    BY <1>5 DEF AddFails, Move, Stages
  <2>2. /\ Cardinality(Holders) \in Nat /\ (Cardinality(Holders) = 0) = (Holders = {})
        /\ Holders' = Holders
    BY <1>0, <2>1, HoldersChange DEF Holding
  <2>n. /\ first # Null /\ first \in Decoders /\ first # d
        /\ lost \in Nat /\ queue \in [Decoders -> BOOLEAN]
    BY <1>0, <1>5, <2>1 DEF AddFails, Added, Unlisted, ListTypeOK, Pointer
  <2>l. lost' = lost + (IF first = last /\ queue[first] THEN 1 ELSE 0)
    <3>1. CASE first = last
      <4>1. Overwrite({first})
        BY <1>5, <3>1 DEF AddFails
      <4> QED
        BY <2>1, <2>n, <3>1, <4>1, Overwritten
    <3>2. CASE first # last
      <4>1. Overwrite({})
        BY <1>5, <3>2 DEF AddFails
      <4> QED
        BY <2>1, <2>n, <3>2, <4>1, Overwritten
    <3> QED
      BY <3>1, <3>2
  <2>q. /\ queue' \in [Decoders -> BOOLEAN]
        /\ \A e \in Decoders : queue'[e] => queue[e] /\ (first = last => e # first)
    BY <1>5, <2>n DEF AddFails
  <2>m. lost' \in Nat
    BY <2>l, <2>n
  <2>9. LostFew'
    <3>1. /\ Cardinality(Gone) \in Nat /\ Cardinality(Gone') \in Nat
          /\ Cardinality(Gone) <= Cardinality(Gone')
      BY <1>0, <2>1, GoneChange DEF Gone
    <3>2. UNCHANGED <<first, last>>
      BY <1>5 DEF AddFails, list
    <3>3. lost' + (IF Doomed' THEN 1 ELSE 0) <= lost + (IF Doomed THEN 1 ELSE 0)
      <4>1. CASE first = last
        <5>1. ~Doomed'
          BY <2>n, <2>q, <3>2, <4>1 DEF Doomed
        <5> QED
          BY <2>l, <2>n, <4>1, <5>1 DEF Doomed
      <4>2. CASE first # last
        <5>1. Doomed' = Doomed
          BY <3>2, <4>2 DEF Doomed
        <5> QED
          BY <2>l, <2>n, <4>2, <5>1
      <4> QED
        BY <4>1, <4>2
    <3>4. lost + (IF Doomed THEN 1 ELSE 0) <= Cardinality(Gone)
      BY <1>0 DEF LostFew
    <3>5. lost' + (IF Doomed' THEN 1 ELSE 0) <= Cardinality(Gone')
      <4> DEFINE D == IF Doomed THEN 1 ELSE 0
                 E == IF Doomed' THEN 1 ELSE 0
      <4>1. /\ D \in Nat /\ E \in Nat
            /\ lost' + E <= lost + D /\ lost + D <= Cardinality(Gone)
        BY <3>3, <3>4
      <4> HIDE DEF D, E
      <4>2. lost' + E <= Cardinality(Gone')
        BY <2>m, <2>n, <3>1, <4>1, Few
      <4> QED
        BY <4>2 DEF E
    <3>6. \A e \in Decoders : pc'[e] \in {"none", "kept", "inner"} => ~queue'[e]
      BY <1>0, <2>1, <2>q DEF LostFew, ListTypeOK
    <3> QED
      BY <3>5, <3>6 DEF LostFew
  <2>3. ListTypeOK'
    BY <1>0, <1>5, <2>1, <2>q, <2>m DEF AddFails, Unref, Uses, ListTypeOK, list
  <2>4. OrderIsOpen' /\ Pointers' /\ Added' /\ ListIsOpenDecoders'
    BY <1>5, <2>1, OffList DEF AddFails, Unlisted, Stages, queues
  <2>5. Counted'
    BY <1>0, <1>5, <2>2 DEF AddFails, Unref, Counted, ListTypeOK
  <2>6. QueuesGone'
    BY <1>0, <2>1, <2>q DEF QueuesGone, ListTypeOK
  <2>7. Tidy'
    BY <1>0, <1>5, <2>1, <2>2 DEF AddFails, Unref, Tidy, ListTypeOK, Stages, Counted, OrderIsOpen
  <2>8. QueuesReady'
    BY <1>0, <1>5, <2>1 DEF AddFails, QueuesReady, Linked, ListTypeOK, list, queues
  <2> QED
    BY <2>3, <2>4, <2>5, <2>6, <2>7, <2>8, <2>9 DEF Inv
<1>6. ASSUME NEW d \in Decoders, CloseInner(d) PROVE Inv'
  <2>1. pc[d] = "open" /\ pc' = [pc EXCEPT ![d] = "unlinked"] /\ "unlinked" \in Stages
    BY <1>6 DEF CloseInner, Move, Stages
  <2>2. Cardinality(Holders) \in Nat /\ Holders' = Holders /\ d \in Holders
    BY <1>0, <2>1, HoldersChange DEF Holding, Holders
  <2>3. /\ prev' = prev /\ succ' = succ /\ first' = succ[d]
        /\ last' = IF succ[d] = Null THEN Null ELSE last
        /\ order' = Without(d)
    BY <1>6, Unlinking DEF CloseInner
  <2>4. /\ Without(d) \in Seq(Decoders)
        /\ \A e : (\E i \in 1..Len(Without(d)) : Without(d)[i] = e) <=> (Linked(e) /\ e # d)
        /\ \A i, j \in 1..Len(Without(d)) : Without(d)[i] = Without(d)[j] => i = j
        /\ order # <<>> /\ d = Head(order) => Without(d) = Tail(order)
    BY <1>0, WithoutOne
  <2>5. Linked(d) /\ order \in Seq(Decoders)
    BY <1>0, <2>1 DEF OrderIsOpen, ListTypeOK
  <2>6. ListTypeOK'
    BY <1>0, <1>6, <2>1, <2>3, <2>4 DEF CloseInner, Unlink, Uses, ListTypeOK, Pointer, queues
  <2>7. OrderIsOpen'
    <3>1. ASSUME NEW i \in 1..Len(order') PROVE pc'[order'[i]] = "open"
      <4>1. Linked(order'[i]) /\ order'[i] # d /\ order'[i] \in Decoders
        BY <2>3, <2>4, <3>1
      <4>2. pc[order'[i]] = "open"
        BY <1>0, <4>1 DEF OrderIsOpen, Linked
      <4> QED
        BY <1>0, <2>1, <4>1, <4>2 DEF ListTypeOK
    <3>2. ASSUME NEW e \in Decoders, pc'[e] = "open" PROVE Linked(e)'
      <4>1. Linked(e) /\ e # d
        BY <1>0, <2>1, <3>2 DEF OrderIsOpen, ListTypeOK
      <4> QED
        BY <2>3, <2>4, <4>1 DEF Linked
    <3> QED
      BY <2>3, <2>4, <3>1, <3>2 DEF OrderIsOpen
  <2>8. Pointers'
    BY <1>0, <2>1, <2>3 DEF Pointers, ListTypeOK, Pointer, Unlisted
  <2>9. Counted' /\ QueuesGone'
    BY <1>0, <1>6, <2>1, <2>2 DEF CloseInner, Counted, QueuesGone, ListTypeOK, queues
  <2>10. Tidy'
    BY <1>0, <1>6, <2>1, <2>2 DEF CloseInner, Unlink, Uses, Tidy, ListTypeOK
  <2>11. ASSUME tidy' PROVE ListIsOpenDecoders' /\ QueuesReady'
    <3>1. order # <<>> /\ tidy /\ d = order[1] /\ order' = Tail(order)
      <4>1. order # <<>>
        BY <2>5 DEF Linked
      <4>2. tidy /\ d = Head(order)
        BY <1>6, <2>11 DEF CloseInner
      <4>3. Head(order) = order[1]
        BY <2>5, <4>1
      <4> QED
        BY <2>3, <2>4, <4>1, <4>2, <4>3
    <3>2. /\ Len(order) \in Nat \ {0} /\ Len(order') = Len(order) - 1
          /\ \A i \in 1..Len(order') : order'[i] = order[i + 1]
          /\ order' = <<>> <=> Len(order) = 1
      <4>1. Len(order) \in Nat \ {0}
        BY <2>5, <3>1
      <4>2. Tail(order) \in Seq(Decoders) /\ Len(Tail(order)) = Len(order) - 1
        BY <2>5, <3>1
      <4>3. \A i \in 1..Len(Tail(order)) : Tail(order)[i] = order[i + 1]
        BY <2>5, <3>1
      <4>4. Tail(order) = <<>> <=> Len(order) = 1
        <5>1. Tail(order) = <<>> <=> Len(Tail(order)) = 0
          BY <4>2
        <5> QED
          BY <4>1, <4>2, <5>1
      <4> QED
        BY <3>1, <4>1, <4>2, <4>3, <4>4
    <3>3. /\ first = d /\ last = order[Len(order)]
          /\ \A i \in 1..Len(order) : succ[order[i]] = IF i = Len(order) THEN Null ELSE order[i + 1]
      BY <1>0, <2>5, <3>1 DEF ListIsOpenDecoders
    <3>4. \A i \in 1..Len(order') : succ'[order'[i]] = IF i = Len(order') THEN Null ELSE order'[i + 1]
      BY SMTT(30), <2>3, <3>2, <3>3
    <3>5. CASE Len(order) = 1
      BY <2>3, <3>1, <3>2, <3>3, <3>5 DEF ListIsOpenDecoders, QueuesReady
    <3>6. CASE Len(order) > 1
      <4>1. succ[d] = order[2] /\ order[2] \in Decoders /\ last \in Decoders
        BY <2>5, <3>1, <3>3, <3>6
      <4>2. first' = order'[1] /\ last' = order'[Len(order')]
        BY <2>3, <3>2, <3>3, <3>6, <4>1, DecodersAssumption
      <4>3. first # last
        BY <1>0, <3>1, <3>3, <3>6 DEF OrderIsOpen
      <4>4. \A e : Linked(e)' => Linked(e)
        BY <2>3, <2>4 DEF Linked
      <4>5. ListIsOpenDecoders'
        BY <3>2, <3>4, <3>6, <4>2 DEF ListIsOpenDecoders
      <4> QED
        BY <1>0, <1>6, <3>1, <4>3, <4>4, <4>5 DEF CloseInner, QueuesReady, queues
    <3> QED
      BY <3>2, <3>5, <3>6
  <2>12. Added'
    BY <1>0, <2>1, <2>3 DEF Added, Unlisted, ListTypeOK, Pointer
  <2>13. LostFew'
    <3>1. /\ Cardinality(Gone) \in Nat /\ Cardinality(Gone') = Cardinality(Gone) + 1
      BY <1>0, <2>1, GoneChange DEF Gone
    <3>2. lost' = lost /\ queue' = queue /\ lost \in Nat /\ lost <= Cardinality(Gone)
      BY <1>0, <1>6, <3>1 DEF CloseInner, queues, LostFew, ListTypeOK
    <3>3. \A e \in Decoders : pc'[e] \in {"none", "kept", "inner"} => ~queue'[e]
      BY <1>0, <2>1, <3>2 DEF LostFew, ListTypeOK
    <3>4. lost' + (IF Doomed' THEN 1 ELSE 0) <= Cardinality(Gone')
      BY <3>1, <3>2
    <3> QED
      BY <3>3, <3>4 DEF LostFew
  <2> QED
    BY <2>6, <2>7, <2>8, <2>9, <2>10, <2>11, <2>12, <2>13 DEF Inv, ListIsOpenDecoders, QueuesReady
<1>7. ASSUME NEW d \in Decoders, Release(d) PROVE Inv'
  <2>1. pc[d] = "unlinked" /\ pc' = [pc EXCEPT ![d] = "closed"] /\ "closed" \in Stages
    BY <1>7 DEF Release, Move, Stages
  <2>2. /\ Cardinality(Holders) \in Nat /\ (Cardinality(Holders) = 0) = (Holders = {})
        /\ d \in Holders /\ Cardinality(Holders') = Cardinality(Holders) - 1
        /\ (Cardinality(Holders') = 0) = (Holders' = {})
    BY <1>0, <2>1, HoldersChange DEF Holding
  <2>3. ListTypeOK'
    BY <1>0, <1>7, <2>1 DEF Release, Unref, Uses, ListTypeOK, list, queues
  <2>4. OrderIsOpen' /\ Pointers' /\ Added' /\ ListIsOpenDecoders'
    BY <1>7, <2>1, OffList DEF Release, Unlisted, Stages, queues
  <2>5. Counted'
    BY <1>0, <1>7, <2>2 DEF Release, Unref, Counted, ListTypeOK
  <2>6. QueuesGone'
    BY <1>0, <1>7, <2>1 DEF Release, QueuesGone, ListTypeOK, queues
  <2>7. Tidy'
    BY <1>0, <1>7, <2>1, <2>2 DEF Release, Unref, Tidy, ListTypeOK, Stages, Counted, OrderIsOpen
  <2>8. QueuesReady'
    <3>1. ASSUME NEW e \in Decoders, Linked(e) PROVE e # d
      BY <1>0, <2>1, <3>1 DEF OrderIsOpen, Linked
    <3> QED
      BY <1>0, <1>7, <3>1 DEF Release, QueuesReady, Linked, ListTypeOK, list, queues
  <2>9. LostFew'
    BY <1>7, <2>1, OffQueues DEF Release, list, queues
  <2> QED
    BY <2>3, <2>4, <2>5, <2>6, <2>7, <2>8, <2>9 DEF Inv
<1>8. ASSUME NEW d \in Decoders, UnwindInner(d) PROVE Inv'
  <2>1. pc[d] = "unwind" /\ pc' = [pc EXCEPT ![d] = "unwound"] /\ "unwound" \in Stages
    BY <1>8 DEF UnwindInner, Move, Stages
  <2>2. Cardinality(Holders) \in Nat /\ Holders' = Holders
    BY <1>0, <2>1, HoldersChange DEF Holding
  <2>3. /\ prev' = prev /\ succ' = succ /\ first' = succ[d]
        /\ last' = IF succ[d] = Null THEN Null ELSE last
    BY <1>8, Unlinking DEF UnwindInner
  <2>4. order' = order /\ order \in Seq(Decoders)
    <3>1. ~Linked(d)
      BY <1>0, <2>1 DEF OrderIsOpen, Linked
    <3> QED
      BY <1>0, <1>8, <3>1, Unlinking, WithoutOne DEF UnwindInner, ListTypeOK
  <2>5. ~tidy /\ ~tidy'
    BY <1>0, <1>8, <2>1 DEF UnwindInner, Tidy
  <2>6. ListTypeOK'
    BY <1>0, <1>8, <2>1, <2>3, <2>4 DEF UnwindInner, Unlink, Uses, ListTypeOK, Pointer, queues
  <2>7. OrderIsOpen'
    BY <1>0, <2>1, <2>4 DEF OrderIsOpen, Linked, ListTypeOK
  <2>8. Pointers'
    BY <1>0, <2>1, <2>3 DEF Pointers, ListTypeOK, Pointer, Unlisted
  <2>9. Counted' /\ QueuesGone'
    BY <1>0, <1>8, <2>1, <2>2 DEF UnwindInner, Counted, QueuesGone, ListTypeOK, queues
  <2>12. Added'
    BY <1>0, <2>1, <2>3 DEF Added, Unlisted, ListTypeOK, Pointer
  <2>13. LostFew'
    <3>1. /\ Cardinality(Gone) \in Nat /\ Cardinality(Gone') \in Nat
          /\ Cardinality(Gone) <= Cardinality(Gone')
      BY <1>0, <2>1, GoneChange DEF Gone
    <3>2. lost' = lost /\ queue' = queue /\ lost \in Nat /\ lost <= Cardinality(Gone)
      BY <1>0, <1>8, <3>1 DEF UnwindInner, queues, LostFew, ListTypeOK
    <3>3. \A e \in Decoders : pc'[e] \in {"none", "kept", "inner"} => ~queue'[e]
      BY <1>0, <2>1, <3>2 DEF LostFew, ListTypeOK
    <3>4. succ[d] = Null
      BY <1>0, <2>1 DEF Pointers, Unlisted
    <3>5. ~Doomed'
      BY <2>3, <3>4 DEF Doomed
    <3>6. lost' + (IF Doomed' THEN 1 ELSE 0) <= Cardinality(Gone')
      BY <3>1, <3>2, <3>5
    <3> QED
      BY <3>3, <3>6 DEF LostFew
  <2> QED
    BY <2>5, <2>6, <2>7, <2>8, <2>9, <2>12, <2>13 DEF Inv, Tidy, ListIsOpenDecoders, QueuesReady
<1>9. ASSUME NEW d \in Decoders, UnwindRelease(d) PROVE Inv'
  <2>1. pc[d] = "unwound" /\ pc' = [pc EXCEPT ![d] = "destruct"] /\ "destruct" \in Stages
    BY <1>9 DEF UnwindRelease, Move, Stages
  <2>2. /\ Cardinality(Holders) \in Nat /\ (Cardinality(Holders) = 0) = (Holders = {})
        /\ d \in Holders /\ Cardinality(Holders') = Cardinality(Holders) - 1
        /\ (Cardinality(Holders') = 0) = (Holders' = {})
    BY <1>0, <2>1, HoldersChange DEF Holding
  <2>3. ListTypeOK'
    BY <1>0, <1>9, <2>1 DEF UnwindRelease, Unref, Uses, ListTypeOK, list, queues
  <2>4. OrderIsOpen' /\ Pointers' /\ Added' /\ ListIsOpenDecoders'
    BY <1>9, <2>1, OffList DEF UnwindRelease, Unlisted, Stages, queues
  <2>5. Counted'
    BY <1>0, <1>9, <2>2 DEF UnwindRelease, Unref, Counted, ListTypeOK
  <2>6. QueuesGone'
    BY <1>0, <1>9, <2>1 DEF UnwindRelease, QueuesGone, ListTypeOK, queues
  <2>7. Tidy'
    BY <1>0, <1>9, <2>1, <2>2 DEF UnwindRelease, Unref, Tidy, ListTypeOK, Stages, Counted, OrderIsOpen
  <2>8. QueuesReady'
    <3>1. ASSUME NEW e \in Decoders, Linked(e) PROVE e # d
      BY <1>0, <2>1, <3>1 DEF OrderIsOpen, Linked
    <3> QED
      BY <1>0, <1>9, <3>1 DEF UnwindRelease, QueuesReady, Linked, ListTypeOK, list, queues
  <2>9. LostFew'
    BY <1>9, <2>1, OffQueues DEF UnwindRelease, list, queues
  <2> QED
    BY <2>3, <2>4, <2>5, <2>6, <2>7, <2>8, <2>9 DEF Inv
<1>10. ASSUME NEW d \in Decoders, UnwindAgain(d) PROVE Inv'
  <2>1. pc[d] = "destruct" /\ pc' = [pc EXCEPT ![d] = "destructed"] /\ "destructed" \in Stages
    BY <1>10 DEF UnwindAgain, Move, Stages
  <2>2. Cardinality(Holders) \in Nat /\ Holders' = Holders
    BY <1>0, <2>1, HoldersChange DEF Holding
  <2>3. /\ prev' = prev /\ succ' = succ /\ first' = succ[d]
        /\ last' = IF succ[d] = Null THEN Null ELSE last
    BY <1>10, Unlinking DEF UnwindAgain
  <2>4. order' = order /\ order \in Seq(Decoders)
    <3>1. ~Linked(d)
      BY <1>0, <2>1 DEF OrderIsOpen, Linked
    <3> QED
      BY <1>0, <1>10, <3>1, Unlinking, WithoutOne DEF UnwindAgain, ListTypeOK
  <2>5. ~tidy /\ ~tidy'
    BY <1>0, <1>10, <2>1 DEF UnwindAgain, Tidy
  <2>6. ListTypeOK'
    BY <1>0, <1>10, <2>1, <2>3, <2>4 DEF UnwindAgain, Unlink, Uses, ListTypeOK, Pointer, queues
  <2>7. OrderIsOpen'
    BY <1>0, <2>1, <2>4 DEF OrderIsOpen, Linked, ListTypeOK
  <2>8. Pointers'
    BY <1>0, <2>1, <2>3 DEF Pointers, ListTypeOK, Pointer, Unlisted
  <2>9. Counted' /\ QueuesGone'
    BY <1>0, <1>10, <2>1, <2>2 DEF UnwindAgain, Counted, QueuesGone, ListTypeOK, queues
  <2>12. Added'
    BY <1>0, <2>1, <2>3 DEF Added, Unlisted, ListTypeOK, Pointer
  <2>13. LostFew'
    <3>1. /\ Cardinality(Gone) \in Nat /\ Cardinality(Gone') \in Nat
          /\ Cardinality(Gone) <= Cardinality(Gone')
      BY <1>0, <2>1, GoneChange DEF Gone
    <3>2. lost' = lost /\ queue' = queue /\ lost \in Nat /\ lost <= Cardinality(Gone)
      BY <1>0, <1>10, <3>1 DEF UnwindAgain, queues, LostFew, ListTypeOK
    <3>3. \A e \in Decoders : pc'[e] \in {"none", "kept", "inner"} => ~queue'[e]
      BY <1>0, <2>1, <3>2 DEF LostFew, ListTypeOK
    <3>4. succ[d] = Null
      BY <1>0, <2>1 DEF Pointers, Unlisted
    <3>5. ~Doomed'
      BY <2>3, <3>4 DEF Doomed
    <3>6. lost' + (IF Doomed' THEN 1 ELSE 0) <= Cardinality(Gone')
      BY <3>1, <3>2, <3>5
    <3> QED
      BY <3>3, <3>6 DEF LostFew
  <2> QED
    BY <2>5, <2>6, <2>7, <2>8, <2>9, <2>12, <2>13 DEF Inv, Tidy, ListIsOpenDecoders, QueuesReady
<1>11. ASSUME NEW d \in Decoders, UnwindLast(d) PROVE Inv'
  <2>1. pc[d] = "destructed" /\ pc' = [pc EXCEPT ![d] = "closed"] /\ "closed" \in Stages
    BY <1>11 DEF UnwindLast, Move, Stages
  <2>2. /\ Cardinality(Holders) \in Nat /\ (Cardinality(Holders) = 0) = (Holders = {})
        /\ Holders' = Holders
    BY <1>0, <2>1, HoldersChange DEF Holding
  <2>3. ListTypeOK'
    BY <1>0, <1>11, <2>1 DEF UnwindLast, Unref, Uses, ListTypeOK, list, queues
  <2>4. OrderIsOpen' /\ Pointers' /\ Added' /\ ListIsOpenDecoders'
    BY <1>11, <2>1, OffList DEF UnwindLast, Unlisted, Stages, queues
  <2>5. Counted'
    BY <1>0, <1>11, <2>2 DEF UnwindLast, Unref, Counted, ListTypeOK
  <2>6. QueuesGone'
    BY <1>0, <1>11, <2>1 DEF UnwindLast, QueuesGone, ListTypeOK, queues
  <2>7. Tidy'
    BY <1>0, <1>11, <2>1, <2>2 DEF UnwindLast, Unref, Tidy, ListTypeOK, Stages, Counted, OrderIsOpen
  <2>8. QueuesReady'
    BY <1>0, <1>11, <2>1 DEF UnwindLast, QueuesReady, Linked, ListTypeOK, list, queues
  <2>9. LostFew'
    BY <1>11, <2>1, OffQueues DEF UnwindLast, list, queues
  <2> QED
    BY <2>3, <2>4, <2>5, <2>6, <2>7, <2>8, <2>9 DEF Inv
<1>13. ASSUME NEW d \in Decoders, OpenRefused(d) PROVE Inv'
  <2>1. pc[d] = "none" /\ pc' = [pc EXCEPT ![d] = "kept"] /\ "kept" \in Stages
    BY <1>13 DEF OpenRefused, Move, Stages
  <2>2. /\ Cardinality(Holders) \in Nat /\ (Cardinality(Holders) = 0) = (Holders = {})
        /\ d \in Holders' /\ Cardinality(Holders') = Cardinality(Holders) + 1
    BY <1>0, <2>1, HoldersChange DEF Holding
  <2>3. ListTypeOK'
    BY <1>0, <1>13, <2>1 DEF OpenRefused, Unref, Uses, ListTypeOK, list, queues
  <2>4. OrderIsOpen' /\ Pointers' /\ Added' /\ ListIsOpenDecoders'
    BY <1>13, <2>1, OffList DEF OpenRefused, Unlisted, Stages, queues
  <2>5. Counted'
    BY <1>0, <1>13, <2>2 DEF OpenRefused, Unref, Counted, ListTypeOK
  <2>6. QueuesGone'
    BY <1>0, <1>13, <2>1 DEF OpenRefused, QueuesGone, ListTypeOK, queues
  <2>7. Tidy'
    BY <1>0, <1>13, <2>1, <2>2 DEF OpenRefused, Unref, Tidy, ListTypeOK, Stages, Counted, OrderIsOpen
  <2>8. QueuesReady'
    BY <1>0, <1>13, <2>1 DEF OpenRefused, QueuesReady, Linked, ListTypeOK, list, queues
  <2>9. LostFew'
    BY <1>13, <2>1, OffQueues DEF OpenRefused, list, queues
  <2> QED
    BY <2>3, <2>4, <2>5, <2>6, <2>7, <2>8, <2>9 DEF Inv
<1>14. ASSUME NEW d \in Decoders, OpenAgain(d) PROVE Inv'
  <2>1. pc[d] = "kept" /\ pc' = [pc EXCEPT ![d] = "inner"] /\ "inner" \in Stages
    BY <1>14 DEF OpenAgain, Move, Stages
  <2>2. /\ Cardinality(Holders) \in Nat /\ (Cardinality(Holders) = 0) = (Holders = {})
        /\ Holders' = Holders
    BY <1>0, <2>1, HoldersChange DEF Holding
  <2>3. ListTypeOK'
    BY <1>0, <1>14, <2>1 DEF OpenAgain, Unref, Uses, ListTypeOK, list, queues
  <2>4. OrderIsOpen' /\ Pointers' /\ Added' /\ ListIsOpenDecoders'
    BY <1>14, <2>1, OffList DEF OpenAgain, Unlisted, Stages, queues
  <2>5. Counted'
    BY <1>0, <1>14, <2>2 DEF OpenAgain, Unref, Counted, ListTypeOK
  <2>6. QueuesGone'
    BY <1>0, <1>14, <2>1 DEF OpenAgain, QueuesGone, ListTypeOK, queues
  <2>7. Tidy'
    <3>1. Holders # {}
      BY <2>1 DEF Holders
    <3>2. ASSUME tidy PROVE ~misused' /\ demuxer = "alive"
      BY <1>0, <1>14, <3>1, <3>2 DEF OpenAgain, Uses, Tidy
    <3> QED
      BY <1>0, <1>14, <2>1, <2>2, <3>2 DEF OpenAgain, Tidy, ListTypeOK, Stages
  <2>8. QueuesReady'
    BY <1>0, <1>14, <2>1 DEF OpenAgain, QueuesReady, Linked, ListTypeOK, list, queues
  <2>9. LostFew'
    BY <1>14, <2>1, OffQueues DEF OpenAgain, list, queues
  <2> QED
    BY <2>3, <2>4, <2>5, <2>6, <2>7, <2>8, <2>9 DEF Inv
<1>15. ASSUME NEW d \in Decoders, GiveUp(d) PROVE Inv'
  <2>1. pc[d] = "kept" /\ pc' = [pc EXCEPT ![d] = "closed"] /\ "closed" \in Stages
    BY <1>15 DEF GiveUp, Move, Stages
  <2>2. /\ Cardinality(Holders) \in Nat /\ (Cardinality(Holders) = 0) = (Holders = {})
        /\ d \in Holders /\ Cardinality(Holders') = Cardinality(Holders) - 1
        /\ (Cardinality(Holders') = 0) = (Holders' = {})
    BY <1>0, <2>1, HoldersChange DEF Holding
  <2>3. ListTypeOK'
    BY <1>0, <1>15, <2>1 DEF GiveUp, Unref, Uses, ListTypeOK, list, queues
  <2>4. OrderIsOpen' /\ Pointers' /\ Added' /\ ListIsOpenDecoders'
    BY <1>15, <2>1, OffList DEF GiveUp, Unlisted, Stages, queues
  <2>5. Counted'
    BY <1>0, <1>15, <2>2 DEF GiveUp, Unref, Counted, ListTypeOK
  <2>6. QueuesGone'
    BY <1>0, <1>15, <2>1 DEF GiveUp, QueuesGone, LostFew, ListTypeOK, queues
  <2>7. Tidy'
    BY <1>0, <1>15, <2>1, <2>2 DEF GiveUp, Unref, Tidy, ListTypeOK, Stages, Counted, OrderIsOpen
  <2>8. QueuesReady'
    BY <1>0, <1>15, <2>1 DEF GiveUp, QueuesReady, Linked, ListTypeOK, list, queues
  <2>9. LostFew'
    BY <1>15, <2>1, OffQueues DEF GiveUp, list, queues
  <2> QED
    BY <2>3, <2>4, <2>5, <2>6, <2>7, <2>8, <2>9 DEF Inv
<1>12. CASE UNCHANGED listVars
  <2>1. Holders' = Holders /\ Gone' = Gone
    BY <1>12 DEF listVars, Holders, Gone
  <2> QED
    BY <1>0, <1>12, <2>1 DEF listVars, Inv, ListTypeOK, OrderIsOpen, Linked, Pointers, Counted, QueuesGone,
       Tidy, ListIsOpenDecoders, QueuesReady, Added, LostFew, Doomed
<1> QED
  BY <1>1, <1>2, <1>3, <1>4, <1>5, <1>6, <1>7, <1>8, <1>9, <1>10, <1>11, <1>12,
     <1>13, <1>14, <1>15 DEF ListNext, Finished

THEOREM Invariance == ListSpec => []Inv
BY Initially, Inductive, PTL DEF ListSpec

----------------------------------------------------------------------------
\* Every reachable state is well typed.
THEOREM Typing == ListSpec => []ListTypeOK
<1>1. Inv => ListTypeOK
  BY DEF Inv
<1> QED
  BY <1>1, Invariance, PTL

\* What the packet thread walks is the open decoders, each once, in the order
\* in which they were opened.
THEOREM ListCorrect == ListSpec => []ListIsOpenDecoders
<1>1. Inv => ListIsOpenDecoders
  BY DEF Inv
<1> QED
  BY <1>1, Invariance, PTL

\* The demuxer is destroyed when the last decoder gives it up, with an empty
\* list, and is not used after that.
THEOREM CountCorrect == ListSpec => []RefsAreHolders
<1>1. Inv => RefsAreHolders
  <2> SUFFICES ASSUME Inv, tidy
               PROVE  refs = Cardinality(Holders) /\ EmptyWhenDestroyed /\ FreedFirst
    BY DEF RefsAreHolders
  <2>1. ASSUME demuxer = "destroyed" PROVE first = Null /\ last = Null /\ \A d \in Decoders : pc[d] # "open"
    <3>1. \A d \in Decoders : pc[d] # "open"
      BY <2>1 DEF Inv, Tidy, Holders
    <3>2. order = <<>>
      BY <3>1 DEF Inv, OrderIsOpen, ListTypeOK
    <3> QED
      BY <3>1, <3>2 DEF Inv, ListIsOpenDecoders
  <2> QED
    BY <2>1 DEF Inv, Tidy, EmptyWhenDestroyed, FreedFirst
<1> QED
  BY <1>1, Invariance, PTL

\* No reference is left that nobody holds and no queue of a closed decoder,
\* whatever fails and in whatever order decoders close; and of the FIFOs that
\* are overwritten there are no more than decoders that closed.
THEOREM NoLeak == ListSpec => []NothingLeaks
<1>1. Inv => NothingLeaks
  <2> SUFFICES ASSUME Inv PROVE NothingLeaks
    OBVIOUS
  <2>1. Holders = {} => Cardinality(Holders) = 0
    BY FS_EmptySet
  <2>2. IsFiniteSet(Gone) /\ lost \in Nat
    BY DecodersAssumption, FS_Subset DEF Inv, ListTypeOK, Gone
  <2>3. lost <= Cardinality(Gone)
    BY <2>2, FS_CardinalityType DEF Inv, LostFew
  <2> QED
    BY <2>1, <2>3 DEF Inv, Counted, QueuesGone, NothingLeaks, ListTypeOK, Gone
<1> QED
  BY <1>1, Invariance, PTL

\* With two decoders or more every one of them has a queue.
THEOREM QueuesThere == ListSpec => []QueuesReady
<1>1. Inv => QueuesReady
  BY DEF Inv
<1> QED
  BY <1>1, Invariance, PTL
=============================================================================
