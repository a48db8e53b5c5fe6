------------------------ MODULE LogRegistry_proofs -------------------------
(***************************************************************************)
(* Proofs about LogRegistry: for any number of threads and loggers, the    *)
(* list that a log call walks is whole, no logger is used after it was     *)
(* freed, and only an add that was overtaken spoils a predecessor.         *)
(***************************************************************************)
EXTENDS LogRegistry, TLAPS

\* A call's argument: a logger on its way into the list is in it nowhere and
\* nobody else's, one on its way out is in it, and has one remover.
Arguments ==
  /\ \A t \in Threads : pc[t] = "add" => arg[t] \in alive /\ ~Linked(arg[t])
  /\ \A t \in Threads : pc[t] = "remove" => Linked(arg[t])
  /\ \A t, u \in Threads :
       pc[t] = pc[u] /\ pc[t] \in {"add", "remove"} /\ arg[t] = arg[u] => t = u

\* Destruction is alone, and before the next log_init nothing goes on.
Alone ==
  /\ \A t, u \in Threads : pc[t] = "destroy" /\ t # u => pc[u] = "idle"
  /\ ~live => \A t \in Threads : pc[t] = "idle"

Locked == \A t \in Threads : pc[t] = "walk" <=> mutex = t

\* The history `order` has allocated loggers, each once.
OrderIsAlive ==
  /\ \A i \in 1..Len(order) : order[i] \in alive
  /\ \A i, j \in 1..Len(order) : order[i] = order[j] => i = j

\* The pointers forward, and what hangs on them.
Forward ==
  /\ first = IF order = <<>> THEN Null ELSE order[1]
  /\ last = IF order = <<>> THEN Null ELSE order[Len(order)]
  /\ \A i \in 1..Len(order) :
       succ[order[i]] = IF i = Len(order) THEN Null ELSE order[i + 1]

Whole ==
  /\ Forward
  /\ \A l \in alive : Linked(l) \/ \E t \in Threads : pc[t] = "add" /\ arg[t] = l
  /\ \A t \in Threads : pc[t] = "add" => succ[arg[t]] = Null
  /\ \A t \in Threads : pc[t] = "walk" => arg[t] = Null \/ Linked(arg[t])
  /\ ~live => first = Null
  /\ ~misused

\* The pointers backward, and what those who add take for the end of the list.
Backward ==
  /\ \A i \in 1..Len(order) : prev[order[i]] = IF i = 1 THEN Null ELSE order[i - 1]
  /\ \A t \in Threads : pc[t] = "add" /\ t \notin stale => prev[arg[t]] = last

\* The inductive invariant.
Inv ==
  /\ TypeOK /\ Arguments /\ Alone /\ Locked /\ OrderIsAlive
  /\ ~broken => Whole
  /\ ~raced => ~broken /\ Backward

----------------------------------------------------------------------------
\* The k-th logger taken out of the order.
LEMMA WithoutOne ==
  ASSUME TypeOK, OrderIsAlive, NEW k \in 1..Len(order)
  PROVE  /\ Without(order[k]) \in Seq(Logs)
         /\ Len(Without(order[k])) = Len(order) - 1
         /\ \A i \in 1..Len(Without(order[k])) :
              Without(order[k])[i] = IF i < k THEN order[i] ELSE order[i + 1]
<1> DEFINE m == CHOOSE i \in 1..Len(order) : order[i] = order[k]
           front == SubSeq(order, 1, k - 1)
           back == SubSeq(order, k + 1, Len(order))
           both == front \o back
<1>0. order \in Seq(Logs)
  BY DEF TypeOK
<1>1. m = k
  <2>1. m \in 1..Len(order) /\ order[m] = order[k]
    OBVIOUS
  <2> QED
    BY <2>1 DEF OrderIsAlive
<1> HIDE DEF m
<1>2. Without(order[k]) = both
  BY <1>1 DEF Without, RemoveAt, Linked, m
<1>3. /\ front \in Seq(Logs) /\ Len(front) = k - 1
      /\ \A i \in 1..(k - 1) : front[i] = order[i]
  BY <1>0
<1>4. /\ back \in Seq(Logs) /\ Len(back) = Len(order) - k
      /\ \A i \in 1..(Len(order) - k) : back[i] = order[i + k]
  BY <1>0
<1> HIDE DEF front, back
<1>5. both \in Seq(Logs) /\ Len(both) = Len(order) - 1
  <2>1. both \in Seq(Logs) /\ Len(both) = Len(front) + Len(back)
    <3>1. \A a, b \in Seq(Logs) : a \o b \in Seq(Logs) /\ Len(a \o b) = Len(a) + Len(b)
      OBVIOUS
    <3>2. front \in Seq(Logs) /\ back \in Seq(Logs)
      BY <1>3, <1>4
    <3> QED
      BY <3>1, <3>2
  <2>2. Len(order) \in Nat /\ k \in Nat
    BY <1>0
  <2> QED
    BY <1>3, <1>4, <2>1, <2>2
<1>6. \A i \in 1..Len(both) : both[i] = IF i <= k - 1 THEN front[i] ELSE back[i - (k - 1)]
  <2>1. \A a, b \in Seq(Logs) : \A i \in 1..Len(a \o b) :
          (a \o b)[i] = IF i <= Len(a) THEN a[i] ELSE b[i - Len(a)]
    OBVIOUS
  <2>2. front \in Seq(Logs) /\ back \in Seq(Logs) /\ Len(front) = k - 1
    BY <1>3, <1>4
  <2> QED
    BY <2>1, <2>2
<1> HIDE DEF both
<1>7. ASSUME NEW i \in 1..Len(both) PROVE both[i] = IF i < k THEN order[i] ELSE order[i + 1]
  <2>1. CASE i < k
    <3>1. i \in 1..(k - 1) /\ i <= k - 1
      BY <1>0, <1>5, <2>1
    <3> QED
      BY <1>3, <1>6, <2>1, <3>1
  <2>2. CASE i >= k
    <3>1. i - (k - 1) \in 1..(Len(order) - k) /\ i - (k - 1) + k = i + 1
      BY <1>0, <1>5, <2>2
    <3> QED
      BY <1>0, <1>4, <1>5, <1>6, <2>2, <3>1
  <2> QED
    BY <1>0, <1>5, <2>1, <2>2
<1> QED
  BY <1>2, <1>5, <1>7

\* Taking out a logger leaves the others, each once.
LEMMA Others ==
  ASSUME TypeOK, OrderIsAlive, NEW l, order' = Without(l)
  PROVE  /\ order' \in Seq(Logs)
         /\ \A e : Linked(e)' <=> Linked(e) /\ e # l
         /\ \A i, j \in 1..Len(order') : order'[i] = order'[j] => i = j
<1>0. order \in Seq(Logs)
  BY DEF TypeOK
<1>1. CASE ~Linked(l)
  <2>1. order' = order
    BY <1>1 DEF Without
  <2> QED
    BY <1>0, <1>1, <2>1 DEF OrderIsAlive, Linked
<1>2. CASE Linked(l)
  <2>1. PICK k \in 1..Len(order) : order[k] = l
    BY <1>2 DEF Linked
  <2>2. /\ order' \in Seq(Logs) /\ Len(order') = Len(order) - 1
        /\ \A i \in 1..Len(order') : order'[i] = IF i < k THEN order[i] ELSE order[i + 1]
    BY <2>1, WithoutOne
  <2>3. \A i, j \in 1..Len(order') : order'[i] = order'[j] => i = j
    BY <1>0, <2>2 DEF OrderIsAlive
  <2>4. ASSUME NEW e, Linked(e), e # l PROVE Linked(e)'
    <3>1. PICK i \in 1..Len(order) : order[i] = e
      BY <2>4 DEF Linked
    <3>2. CASE i < k
      <4>1. i \in 1..Len(order') /\ order'[i] = e
        BY <1>0, <2>2, <3>1, <3>2
      <4> QED
        BY <4>1 DEF Linked
    <3>3. CASE i > k
      <4>1. i - 1 \in 1..Len(order') /\ order'[i - 1] = e
        BY <1>0, <2>2, <3>1, <3>3
      <4> QED
        BY <4>1 DEF Linked
    <3> QED
      BY <1>0, <2>1, <2>4, <3>1, <3>2, <3>3
  <2>5. ASSUME NEW e, Linked(e)' PROVE Linked(e) /\ e # l
    <3>1. PICK i \in 1..Len(order') : order'[i] = e
      BY <2>5 DEF Linked
    <3> QED
      BY <1>0, <2>1, <2>2, <3>1 DEF OrderIsAlive, Linked
  <2> QED
    BY <2>2, <2>3, <2>4, <2>5
<1> QED
  BY <1>1, <1>2

\* The predecessor in the order.
LEMMA BeforeIs ==
  ASSUME TypeOK, OrderIsAlive, NEW k \in 1..Len(order)
  PROVE  Before(order[k]) = IF k = 1 THEN Null ELSE order[k - 1]
<1> DEFINE m == CHOOSE i \in 1..Len(order) : order[i] = order[k]
<1>1. m \in 1..Len(order) /\ order[m] = order[k]
  OBVIOUS
<1>2. m = k
  BY <1>1 DEF OrderIsAlive
<1> HIDE DEF m
<1> QED
  BY <1>2 DEF Before, m

\* Unlinking a logger whose predecessor is right keeps the list.
LEMMA Unlinking ==
  ASSUME Inv, Forward, NEW l, Linked(l), prev[l] = Before(l), Unlink(l), order' = Without(l)
  PROVE  /\ Forward' /\ (first' = Null <=> order' = <<>>)
         /\ ~Dead(l) /\ ~Dead(prev[l]) /\ ~Dead(succ[l])
         /\ (\A i \in 1..Len(order) : prev[order[i]] = IF i = 1 THEN Null ELSE order[i - 1])
              => \A i \in 1..Len(order') : prev'[order'[i]] = IF i = 1 THEN Null ELSE order'[i - 1]
<1> USE RegistryAssumption
<1>0. /\ TypeOK /\ OrderIsAlive /\ order \in Seq(Logs) /\ Len(order) \in Nat
      /\ prev \in [Logs -> Pointer] /\ succ \in [Logs -> Pointer] /\ alive \subseteq Logs
  BY DEF Inv, TypeOK
<1>1. PICK k \in 1..Len(order) : order[k] = l
  BY DEF Linked
<1>2. /\ order' \in Seq(Logs) /\ Len(order') = Len(order) - 1
      /\ \A i \in 1..Len(order') : order'[i] = IF i < k THEN order[i] ELSE order[i + 1]
  BY <1>0, <1>1, WithoutOne
<1>3. prev[l] = IF k = 1 THEN Null ELSE order[k - 1]
  BY <1>0, <1>1, BeforeIs
<1>4. succ[l] = IF k = Len(order) THEN Null ELSE order[k + 1]
  BY <1>1 DEF Forward
<1>5. \A i \in 1..Len(order) : order[i] \in Logs /\ order[i] # Null
  BY <1>0
<1>6. \A i, j \in 1..Len(order) : order[i] = order[j] => i = j
  BY <1>0 DEF OrderIsAlive
<1>7. \A e \in Logs :
        succ'[e] = IF e = l THEN Null ELSE IF e = prev[l] THEN succ[l] ELSE succ[e]
  BY <1>1, <1>3, <1>5, <1>6 DEF Unlink
<1>8. \A e \in Logs :
        prev'[e] = IF e = l THEN Null ELSE IF e = succ[l] THEN prev[l] ELSE prev[e]
  BY <1>1, <1>4, <1>5, <1>6 DEF Unlink
<1>9. order' = <<>> <=> Len(order) = 1
  BY <1>0, <1>2
<1>10. first' = IF order' = <<>> THEN Null ELSE order'[1]
  BY <1>0, <1>1, <1>2, <1>3, <1>4, <1>5, <1>9 DEF Unlink, Forward
<1>11. last' = IF order' = <<>> THEN Null ELSE order'[Len(order')]
  <2>1. last' = IF succ[l] # Null THEN last ELSE prev[l]
    BY DEF Unlink
  <2>2. last = order[Len(order)]
    BY <1>0, <1>1 DEF Forward
  <2>3. CASE k = Len(order)
    BY <1>0, <1>2, <1>3, <1>4, <1>9, <2>1, <2>3
  <2>4. CASE k < Len(order)
    <3>1. last' = order[Len(order)] /\ order' # <<>>
      BY <1>0, <1>4, <1>5, <1>9, <2>1, <2>2, <2>4
    <3>2. Len(order') \in 1..Len(order') /\ Len(order') >= k
      BY <1>0, <1>2, <2>4
    <3> QED
      BY <1>0, <1>2, <2>4, <3>1, <3>2
  <2> QED
    BY <1>0, <2>3, <2>4
<1>12. ASSUME NEW i \in 1..Len(order')
       PROVE  succ'[order'[i]] = IF i = Len(order') THEN Null ELSE order'[i + 1]
  <2>1. CASE i < k - 1
    <3>1. order'[i] = order[i] /\ order'[i + 1] = order[i + 1] /\ i < Len(order')
      BY SMTT(30), <1>0, <1>2, <2>1
    <3>2. order[i] # l /\ order[i] # prev[l]
      BY <1>0, <1>1, <1>3, <1>5, <1>6, <2>1
    <3>3. succ[order[i]] = order[i + 1]
      BY <1>0, <2>1 DEF Forward
    <3> QED
      BY <1>0, <1>5, <1>7, <2>1, <3>1, <3>2, <3>3
  <2>2. CASE i = k - 1
    <3>1. order'[i] = order[i] /\ order[i] = prev[l] /\ order[i] # l
      BY <1>0, <1>1, <1>2, <1>3, <1>6, <2>2
    <3>2. succ'[order'[i]] = succ[l]
      BY <1>0, <1>5, <1>7, <2>2, <3>1
    <3> QED
      BY <1>0, <1>2, <1>4, <2>2, <3>2
  <2>3. CASE i >= k
    <3>1. order'[i] = order[i + 1] /\ i + 1 \in 1..Len(order)
      <4>1. order'[i] = order[i + 1] /\ Len(order') = Len(order) - 1
        BY <1>2, <2>3
      <4>2. Len(order) \in Nat
        BY <1>0
      <4> QED
        BY <4>1, <4>2
    <3>2. order[i + 1] # l /\ order[i + 1] # prev[l]
      BY <1>0, <1>1, <1>3, <1>5, <1>6, <2>3, <3>1
    <3>3. succ[order[i + 1]] = IF i + 1 = Len(order) THEN Null ELSE order[i + 2]
      BY <1>0, <3>1 DEF Forward
    <3>4. succ'[order'[i]] = IF i = Len(order') THEN Null ELSE order[i + 2]
      BY <1>0, <1>2, <1>5, <1>7, <3>1, <3>2, <3>3
    <3>5. i # Len(order') => i + 1 \in 1..Len(order') /\ order'[i + 1] = order[i + 2]
      <4>1. i # Len(order') => i + 1 \in 1..Len(order')
        BY <1>2
      <4>2. ~(i + 1 < k) /\ (i + 1) + 1 = i + 2
        BY <1>0, <2>3
      <4> QED
        BY <1>2, <4>1, <4>2
    <3> QED
      BY <3>4, <3>5
  <2> QED
    BY <1>0, <1>1, <1>2, <2>1, <2>2, <2>3
<1>13. ASSUME \A i \in 1..Len(order) : prev[order[i]] = IF i = 1 THEN Null ELSE order[i - 1],
              NEW i \in 1..Len(order')
       PROVE  prev'[order'[i]] = IF i = 1 THEN Null ELSE order'[i - 1]
  <2>1. CASE i < k
    BY SMTT(30), <1>0, <1>1, <1>2, <1>4, <1>5, <1>6, <1>8, <1>13, <2>1
  <2>2. CASE i = k
    BY SMTT(30), <1>0, <1>1, <1>2, <1>3, <1>4, <1>5, <1>6, <1>8, <2>2
  <2>3. CASE i > k
    <3>1. order'[i] = order[i + 1] /\ order'[i - 1] = order[i] /\ i + 1 \in 1..Len(order)
      <4>1. i - 1 \in 1..Len(order') /\ ~(i - 1 < k) /\ (i - 1) + 1 = i
        BY <1>0, <1>2, <2>3
      <4>2. order'[i - 1] = order[(i - 1) + 1]
        BY <1>2, <4>1
      <4>3. order'[i] = order[i + 1] /\ Len(order') = Len(order) - 1
        BY <1>2, <2>3
      <4>4. Len(order) \in Nat
        BY <1>0
      <4>5. i + 1 \in 1..Len(order)
        BY <4>3, <4>4
      <4> QED
        BY <4>1, <4>2, <4>3, <4>5
    <3>2. order[i + 1] # l /\ order[i + 1] # succ[l]
      BY <1>0, <1>1, <1>4, <1>5, <1>6, <2>3, <3>1
    <3>3. prev[order[i + 1]] = order[i]
      BY <1>0, <1>13, <2>3, <3>1
    <3> QED
      BY <1>0, <1>5, <1>8, <2>3, <3>1, <3>2, <3>3
  <2> QED
    BY <1>0, <1>1, <1>2, <2>1, <2>2, <2>3
<1>14. ~Dead(l) /\ ~Dead(prev[l]) /\ ~Dead(succ[l])
  BY <1>0, <1>1, <1>3, <1>4 DEF Dead, OrderIsAlive
<1>15. first' = Null <=> order' = <<>>
  BY <1>2, <1>5, <1>9, <1>10
<1> QED
  BY <1>10, <1>11, <1>12, <1>13, <1>14, <1>15 DEF Forward

----------------------------------------------------------------------------
\* The invariant holds at first.
THEOREM Initially == Init => Inv
<1> SUFFICES ASSUME Init PROVE Inv
  OBVIOUS
<1> USE RegistryAssumption
<1>1. NoLevel \in Levels
  BY DEF NoLevel
<1>2. TypeOK
  <2>1. order = <<>> /\ order \in Seq(Logs) /\ seen = [t \in Threads |-> <<>>] /\ seen \in [Threads -> Seq(Logs)]
    BY DEF Init
  <2>2. /\ prev \in [Logs -> Pointer] /\ succ \in [Logs -> Pointer]
        /\ first \in Pointer /\ last \in Pointer /\ arg \in [Threads -> Pointer]
    BY DEF Init, Pointer
  <2>3. /\ alive \subseteq Logs /\ level \in [Logs -> Levels] /\ record \in [Threads -> Levels]
        /\ stale \subseteq Threads
    BY <1>1 DEF Init
  <2>4. /\ pc \in [Threads -> {"idle", "add", "remove", "destroy", "log", "walk"}]
        /\ mutex \in Threads \cup {NoThread}
    BY DEF Init
  <2>5. live \in BOOLEAN /\ raced \in BOOLEAN /\ broken \in BOOLEAN /\ misused \in BOOLEAN
    BY Zenon DEF Init
  <2> QED
    BY <2>1, <2>2, <2>3, <2>4, <2>5 DEF TypeOK
<1>3. order = <<>> /\ Len(order) = 0 /\ \A t \in Threads : pc[t] = "idle"
  BY DEF Init
<1>4. Arguments /\ Alone /\ Locked /\ OrderIsAlive
  BY <1>3 DEF Init, Arguments, Alone, Locked, OrderIsAlive, Linked
<1>5. Whole /\ Backward
  BY <1>3 DEF Init, Whole, Forward, Backward
<1> QED
  BY <1>2, <1>4, <1>5 DEF Init, Inv

\* What a call keeps that changes neither the list nor the heap, and leaves
\* the mutex as it was: it begins.
LEMMA Beginning ==
  ASSUME Inv, NEW t \in Threads, NEW to \in {"destroy", "log"}, Enter(t, to),
         to = "destroy" => \A u \in Threads : pc[u] = "idle",
         UNCHANGED <<live, mutex, list, heap, arg, history>>, record' \in [Threads -> Levels]
  PROVE  Inv'
<1> USE RegistryAssumption
<1>0. TypeOK /\ Arguments /\ Alone /\ Locked /\ OrderIsAlive /\ ~broken /\ Whole /\ (~raced => Backward)
  BY DEF Inv, Enter
<1>1. pc[t] = "idle" /\ pc' = [pc EXCEPT ![t] = to]
  BY DEF Enter
<1>2. TypeOK'
  BY <1>0, <1>1 DEF TypeOK, list, heap, history
<1>3. Arguments'
  BY <1>0, <1>1 DEF TypeOK, Arguments, Linked, heap, history
<1>4. Alone'
  BY <1>0, <1>1 DEF TypeOK, Alone, Enter
<1>5. Locked'
  BY <1>0, <1>1 DEF TypeOK, Locked
<1>6. OrderIsAlive'
  BY <1>0 DEF OrderIsAlive, heap, history
<1>7. Whole'
  BY ZenonT(40), <1>0, <1>1 DEF TypeOK, Whole, Forward, Linked, list, heap, history
<1>8. ~raced' => ~broken' /\ Backward'
  BY <1>0, <1>1 DEF TypeOK, Backward, list, history
<1> QED
  BY <1>2, <1>3, <1>4, <1>5, <1>6, <1>7, <1>8 DEF Inv

\* The types of what unlinking changes.
LEMMA UnlinkTyped ==
  ASSUME TypeOK, NEW l \in Logs, Unlink(l)
  PROVE  /\ succ' \in [Logs -> Pointer] /\ prev' \in [Logs -> Pointer]
         /\ first' \in Pointer /\ last' \in Pointer
         /\ alive' \subseteq Logs /\ level' \in [Logs -> Levels] /\ misused' \in BOOLEAN
<1>1. /\ prev \in [Logs -> Pointer] /\ succ \in [Logs -> Pointer]
      /\ prev[l] \in Pointer /\ succ[l] \in Pointer /\ Null \in Pointer /\ NoLevel \in Levels
  BY RegistryAssumption DEF TypeOK, Pointer, NoLevel
<1>2. succ' \in [Logs -> Pointer]
  BY <1>1 DEF Unlink
<1>3. prev' \in [Logs -> Pointer]
  BY <1>1 DEF Unlink
<1>4. misused' \in BOOLEAN
  BY DEF Unlink
<1> QED
  BY <1>1, <1>2, <1>3, <1>4 DEF Unlink, TypeOK

\* Unlinking a logger, by whoever may: all of the invariant but for what it
\* says of calls, which the caller keeps.
LEMMA Removing ==
  ASSUME Inv, NEW t \in Threads, NEW l \in Logs, Unlink(l), Removed(t, l),
         mutex = NoThread, UNCHANGED <<live, mutex, raced>>,
         Arguments', TypeOK', Alone', Locked',
         ~broken => Linked(l),
         \A u \in Threads : pc'[u] # "idle" => pc'[u] = pc[u] /\ arg'[u] = arg[u],
         \A u \in Threads : pc[u] # "idle" /\ u # t => pc'[u] = pc[u] /\ arg'[u] = arg[u],
         pc[t] # "add"
  PROVE  Inv'
<1> USE RegistryAssumption
<1>0. TypeOK /\ Arguments /\ Alone /\ Locked /\ OrderIsAlive
  BY DEF Inv
<1>1. /\ order' \in Seq(Logs) /\ \A e : Linked(e)' <=> Linked(e) /\ e # l
      /\ \A i, j \in 1..Len(order') : order'[i] = order'[j] => i = j
  BY <1>0, Others DEF Removed
<1>2. alive' = alive \ {l} /\ misused' = (misused \/ Dead(l) \/ Dead(prev[l]) \/ Dead(succ[l]))
  BY DEF Unlink
<1>3. OrderIsAlive'
  <2>1. ASSUME NEW i \in 1..Len(order') PROVE order'[i] \in alive'
    <3>1. Linked(order'[i]) /\ order'[i] # l
      BY <1>1 DEF Linked
    <3> QED
      BY <1>0, <1>2, <3>1 DEF OrderIsAlive, Linked
  <2> QED
    BY <1>1, <2>1 DEF OrderIsAlive
<1>4. \A u \in Threads : pc'[u] # "walk"
  BY <1>0 DEF Locked
<1>5. \A u \in Threads : pc'[u] = "add" => pc[u] = "add" /\ arg'[u] = arg[u] /\ u # t /\ ~Linked(arg[u])
  BY <1>0 DEF Arguments
<1>6. broken' = (broken \/ ~Linked(l) \/ prev[l] # Before(l))
  BY DEF Removed
<1>7. ASSUME ~broken' PROVE Whole'
  <2>1. ~broken /\ Linked(l) /\ prev[l] = Before(l) /\ Whole
    BY <1>6, <1>7 DEF Inv
  <2>2. Forward' /\ ~Dead(l) /\ ~Dead(prev[l]) /\ ~Dead(succ[l])
    BY <2>1, Unlinking DEF Whole, Removed
  <2>3. ASSUME NEW e \in alive' PROVE Linked(e)' \/ \E u \in Threads : pc'[u] = "add" /\ arg'[u] = e
    BY <1>1, <1>2, <2>1, <2>3 DEF Whole
  <2>4. ASSUME NEW u \in Threads, pc'[u] = "add" PROVE succ'[arg'[u]] = Null
    <3>1. /\ arg'[u] = arg[u] /\ arg[u] \in alive /\ arg[u] # l /\ ~Linked(arg[u])
          /\ succ[arg[u]] = Null /\ arg[u] \in Logs
      BY <1>0, <1>5, <2>1, <2>4 DEF Arguments, Whole, TypeOK
    <3>2. arg[u] # prev[l]
      <4>1. PICK k \in 1..Len(order) : order[k] = l
        BY <2>1 DEF Linked
      <4>2. prev[l] = IF k = 1 THEN Null ELSE order[k - 1]
        BY <1>0, <2>1, <4>1, BeforeIs
      <4>3. k # 1 => Linked(order[k - 1])
        BY <1>0, <4>1 DEF Linked, TypeOK
      <4> QED
        BY <3>1, <4>2, <4>3
    <3> QED
      BY <3>1, <3>2 DEF Unlink
  <2>5. ~live' => first' = Null
    <3>1. live
      <4>1. ~live => order = <<>>
        BY <1>0, <2>1 DEF Whole, Forward, TypeOK
      <4> QED
        BY <2>1, <4>1 DEF Linked
    <3> QED
      BY <3>1
  <2>6. ~misused'
    BY <1>2, <2>1, <2>2 DEF Whole
  <2> QED
    BY <1>4, <2>2, <2>3, <2>4, <2>5, <2>6 DEF Whole
<1>8. ASSUME ~raced' PROVE ~broken' /\ Backward'
  <2>1. ~raced /\ ~broken /\ Backward /\ Linked(l) /\ Whole
    BY <1>8 DEF Inv
  <2>2. PICK k \in 1..Len(order) : order[k] = l
    BY <2>1 DEF Linked
  <2>3. prev[l] = Before(l)
    BY <1>0, <2>1, <2>2, BeforeIs DEF Backward
  <2>4. \A i \in 1..Len(order') : prev'[order'[i]] = IF i = 1 THEN Null ELSE order'[i - 1]
    BY <2>1, <2>3, Unlinking DEF Whole, Backward, Removed
  <2>5. \A u \in Threads : pc'[u] = "add" => u \in stale'
    BY <1>5 DEF Removed, Overtaken
  <2> QED
    BY <1>6, <2>1, <2>3, <2>4, <2>5 DEF Backward
<1> QED
  BY <1>3, <1>7, <1>8 DEF Inv

\* Every step keeps the invariant.
THEOREM Inductive == Inv /\ [Next \/ Undefined]_vars => Inv'
<1> SUFFICES ASSUME Inv, [Next \/ Undefined]_vars PROVE Inv'
  OBVIOUS
<1> USE RegistryAssumption
<1>0. /\ TypeOK /\ Arguments /\ Alone /\ Locked /\ OrderIsAlive
      /\ ~broken => Whole
      /\ ~raced => ~broken /\ Backward
  BY DEF Inv
<1>1. ASSUME Reinit PROVE Inv'
  <2>1. TypeOK'
    BY <1>0, <1>1 DEF Reinit, TypeOK, list, heap, history
  <2>2. Arguments' /\ Alone' /\ Locked' /\ OrderIsAlive'
    BY <1>0, <1>1 DEF Reinit, Arguments, Alone, Locked, OrderIsAlive, Linked, list, heap, history
  <2>3. ~broken' => Whole'
    BY <1>0, <1>1 DEF Reinit, Whole, Forward, Linked, list, heap, history
  <2>4. ~raced' => ~broken' /\ Backward'
    BY <1>0, <1>1 DEF Reinit, Backward, list, heap, history
  <2> QED
    BY <2>1, <2>2, <2>3, <2>4 DEF Inv
<1>2. ASSUME NEW t \in Threads, NEW l \in Logs, NEW v \in Levels, AddRead(t, l, v) PROVE Inv'
  <2>1. /\ pc[t] = "idle" /\ pc' = [pc EXCEPT ![t] = "add"] /\ live
        /\ \A u \in Threads : pc[u] # "destroy"
        /\ arg' = [arg EXCEPT ![t] = l] /\ l \notin alive /\ alive' = alive \cup {l}
        /\ prev' = [prev EXCEPT ![l] = last] /\ succ' = [succ EXCEPT ![l] = Null]
        /\ UNCHANGED <<live, mutex, first, last, record, history>> /\ ~broken
    BY <1>2 DEF AddRead, Enter
  <2>2. TypeOK'
    BY <1>0, <1>2, <2>1 DEF AddRead, TypeOK, Pointer, history
  <2>3. order' = order /\ ~Linked(l) /\ \A i \in 1..Len(order) : order[i] # l /\ order[i] \in Logs
    BY <1>0, <2>1 DEF OrderIsAlive, Linked, history, TypeOK
  <2>4. \A u \in Threads : pc[u] = "add" => arg[u] # l
    BY <1>0, <2>1 DEF Arguments
  <2>5. Arguments'
    BY <1>0, <2>1, <2>3, <2>4 DEF Arguments, Linked, TypeOK
  <2>6. Alone' /\ Locked'
    BY <1>0, <2>1 DEF Alone, Locked, TypeOK
  <2>7. OrderIsAlive'
    BY <1>0, <2>1, <2>3 DEF OrderIsAlive
  <2>8. Whole'
    <3>1. Forward'
      BY <1>0, <2>1, <2>3 DEF Whole, Forward, TypeOK
    <3>2. \A e \in alive' : Linked(e)' \/ \E u \in Threads : pc'[u] = "add" /\ arg'[u] = e
      <4>1. pc'[t] = "add" /\ arg'[t] = l
        BY <1>0, <2>1 DEF TypeOK
      <4>2. \A u \in Threads : pc[u] = "add" => pc'[u] = "add" /\ arg'[u] = arg[u]
        BY <1>0, <2>1 DEF TypeOK
      <4> QED
        BY <1>0, <2>1, <2>3, <4>1, <4>2 DEF Whole, Linked
    <3>3. \A u \in Threads : pc'[u] = "add" => succ'[arg'[u]] = Null
      BY <1>0, <2>1, <2>4 DEF Whole, TypeOK
    <3>4. ASSUME NEW u \in Threads, pc'[u] = "walk" PROVE arg'[u] = Null \/ Linked(arg[u])'
      <4>1. pc[u] = "walk" /\ arg'[u] = arg[u]
        BY <1>0, <2>1, <3>4 DEF TypeOK
      <4> QED
        BY <1>0, <2>1, <2>3, <4>1 DEF Whole, Linked
    <3>5. live' /\ ~misused'
      BY <1>0, <2>1 DEF Whole, history
    <3> QED
      BY <3>1, <3>2, <3>3, <3>4, <3>5 DEF Whole
  <2>9. ~raced' => ~broken' /\ Backward'
    <3> SUFFICES ASSUME ~raced' PROVE ~broken' /\ Backward'
      OBVIOUS
    <3>1. ~raced /\ Backward /\ ~broken'
      BY <1>0, <2>1 DEF history
    <3>2. \A i \in 1..Len(order') : prev'[order'[i]] = IF i = 1 THEN Null ELSE order'[i - 1]
      BY <1>0, <2>1, <2>3, <3>1 DEF Backward, TypeOK
    <3>3. ASSUME NEW u \in Threads, pc'[u] = "add", u \notin stale' PROVE prev'[arg'[u]] = last'
      <4>1. CASE u = t
        BY <1>0, <2>1, <4>1 DEF TypeOK
      <4>2. CASE u # t
        BY <1>0, <2>1, <2>4, <3>1, <3>3, <4>2 DEF Backward, TypeOK, history
      <4> QED
        BY <4>1, <4>2
    <3> QED
      BY <3>1, <3>2, <3>3 DEF Backward
  <2> QED
    BY <2>2, <2>5, <2>6, <2>7, <2>8, <2>9 DEF Inv
<1>3. ASSUME NEW t \in Threads, AddLink(t) PROVE Inv'
  <2>1. /\ pc[t] = "add" /\ mutex = NoThread /\ pc' = [pc EXCEPT ![t] = "idle"]
        /\ arg' = [arg EXCEPT ![t] = Null]
        /\ last' = arg[t] /\ order' = Append(order, arg[t])
        /\ UNCHANGED <<live, mutex, prev, alive, level, record, seen, broken>>
    BY <1>3 DEF AddLink, Leave, heap
  <2>2. arg[t] \in alive /\ ~Linked(arg[t]) /\ arg[t] \in Logs /\ order \in Seq(Logs)
    BY <1>0, <2>1 DEF Arguments, TypeOK
  <2>3. TypeOK'
    <3>1. /\ first' \in Pointer /\ succ' \in [Logs -> Pointer] /\ last' \in Pointer
          /\ order' \in Seq(Logs) /\ stale' \subseteq Threads
      <4>1. order' \in Seq(Logs)
        BY <2>1, <2>2
      <4>2. stale' \subseteq Threads
        BY <1>0, <1>3 DEF AddLink, Overtaken, TypeOK
      <4>3. last' \in Pointer /\ arg[t] \in Pointer
        BY <2>1, <2>2 DEF Pointer
      <4>4. first' \in Pointer /\ succ' \in [Logs -> Pointer]
        BY <1>0, <1>3, <4>3 DEF AddLink, TypeOK
      <4> QED
        BY <4>1, <4>2, <4>3, <4>4
    <3>2. misused' \in BOOLEAN /\ raced' \in BOOLEAN
      BY <1>3 DEF AddLink
    <3> QED
      BY <1>0, <2>1, <3>1, <3>2 DEF TypeOK, Pointer
  <2>4. /\ Len(order') = Len(order) + 1 /\ Len(order) \in Nat
        /\ \A i \in 1..Len(order') : order'[i] = IF i <= Len(order) THEN order[i] ELSE arg[t]
    BY <2>1, <2>2
  <2>5. \A e : Linked(e)' <=> Linked(e) \/ e = arg[t]
    <3>1. \A e : e = arg[t] => Linked(e)'
      <4>1. Len(order') \in 1..Len(order') /\ order'[Len(order')] = arg[t]
        BY <2>4
      <4> QED
        BY <4>1 DEF Linked
    <3> QED
      BY <2>4, <3>1 DEF Linked
  <2>6. Arguments'
    BY <1>0, <2>1, <2>5 DEF Arguments, TypeOK
  <2>7. Alone'
    BY <1>0, <2>1 DEF Alone, TypeOK
  <2>8. Locked'
    BY <1>0, <2>1 DEF Locked, TypeOK
  <2>9. OrderIsAlive'
    BY <1>0, <2>1, <2>2, <2>4 DEF OrderIsAlive, Linked
  <2>10. ASSUME ~broken PROVE Whole'
    <3>1. Whole /\ succ[arg[t]] = Null
      BY <1>0, <2>1, <2>10 DEF Whole
    <3>2. last = Null <=> order = <<>>
      BY <2>2, <3>1 DEF Whole, Forward
    <3>3. Forward'
      <4>1. CASE order = <<>>
        <5>1. first' = arg[t] /\ succ' = succ
          BY <1>3, <3>2, <4>1 DEF AddLink
        <5> QED
          BY <2>1, <2>4, <3>1, <4>1, <5>1 DEF Forward
      <4>2. CASE order # <<>>
        <5>1. /\ first' = first /\ succ' = [succ EXCEPT ![last] = arg[t]]
              /\ first = order[1] /\ last = order[Len(order)] /\ Len(order) \in Nat \ {0}
              /\ last # arg[t] /\ last \in Logs /\ succ \in [Logs -> Pointer]
          BY <1>0, <1>3, <2>2, <3>1, <3>2, <4>2 DEF AddLink, Whole, Forward, Linked, TypeOK
        <5>2. ASSUME NEW i \in 1..Len(order')
              PROVE  succ'[order'[i]] = IF i = Len(order') THEN Null ELSE order'[i + 1]
          <6>1. CASE i = Len(order')
            BY <2>2, <2>4, <3>1, <5>1, <6>1
          <6>2. CASE i = Len(order)
            BY <2>2, <2>4, <5>1, <6>2
          <6>3. CASE i < Len(order)
            <7>1. order[i] # last /\ order[i] \in Logs
              BY <1>0, <2>2, <2>4, <5>1, <6>3 DEF OrderIsAlive
            <7> QED
              BY <2>4, <3>1, <5>1, <6>3, <7>1 DEF Whole, Forward
          <6> QED
            BY <2>4, <6>1, <6>2, <6>3
        <5> QED
          BY <2>1, <2>4, <5>1, <5>2 DEF Forward
      <4> QED
        BY <4>1, <4>2
    <3>4. last # Null => last \in alive /\ Linked(last) /\ last \in Logs
      BY <1>0, <2>2, <3>1, <3>2 DEF OrderIsAlive, Whole, Forward, Linked, TypeOK
    <3>5. \A e \in alive' : Linked(e)' \/ \E u \in Threads : pc'[u] = "add" /\ arg'[u] = e
      <4>1. \A u \in Threads : pc[u] = "add" /\ u # t => pc'[u] = "add" /\ arg'[u] = arg[u]
        BY <1>0, <2>1 DEF TypeOK
      <4> QED
        BY <2>1, <2>5, <3>1, <4>1 DEF Whole
    <3>6. \A u \in Threads : pc'[u] = "add" => succ'[arg'[u]] = Null
      <4>1. \A u \in Threads : pc'[u] = "add" => pc[u] = "add" /\ arg'[u] = arg[u] /\ arg[u] \in Logs
        BY <1>0, <2>1 DEF TypeOK, Arguments
      <4>2. \A u \in Threads : pc'[u] = "add" => arg[u] # last
        BY <1>0, <3>4, <4>1 DEF Arguments, TypeOK
      <4> QED
        BY <1>0, <1>3, <3>1, <4>1, <4>2 DEF AddLink, Whole, TypeOK
    <3>7. \A u \in Threads : pc'[u] # "walk"
      BY <1>0, <2>1 DEF Locked, TypeOK
    <3>8. live' /\ ~misused'
      <4>1. live
        BY <1>0, <2>1 DEF Alone
      <4>2. ~Dead(last) /\ ~misused /\ misused' = (misused \/ Dead(last))
        BY <1>3, <3>1, <3>4 DEF AddLink, Whole, Dead
      <4> QED
        BY <2>1, <4>1, <4>2
    <3> QED
      BY <3>3, <3>5, <3>6, <3>7, <3>8 DEF Whole
  <2>11. ASSUME ~raced' PROVE ~broken' /\ Backward'
    <3>1. ~raced /\ t \notin stale /\ ~broken /\ Backward /\ prev[arg[t]] = last /\ Whole
      BY <1>0, <1>3, <2>1, <2>11 DEF AddLink, Backward
    <3>2. \A i \in 1..Len(order') : prev'[order'[i]] = IF i = 1 THEN Null ELSE order'[i - 1]
      <4>1. ASSUME NEW i \in 1..Len(order') PROVE prev'[order'[i]] = IF i = 1 THEN Null ELSE order'[i - 1]
        <5>1. CASE i <= Len(order)
          BY <2>1, <2>4, <3>1, <5>1 DEF Backward
        <5>2. CASE i = Len(order) + 1
          BY <2>1, <2>2, <2>4, <3>1, <5>2 DEF Whole, Forward
        <5> QED
          BY <2>4, <5>1, <5>2
      <4> QED
        BY <4>1
    <3>3. \A u \in Threads : pc'[u] = "add" => u \in stale'
      BY <1>0, <1>3, <2>1 DEF AddLink, Overtaken, TypeOK
    <3> QED
      BY <2>1, <3>1, <3>2, <3>3 DEF Backward
  <2> QED
    BY <2>1, <2>3, <2>6, <2>7, <2>8, <2>9, <2>10, <2>11 DEF Inv
<1>4. ASSUME NEW t \in Threads, NEW l \in Logs, RemoveCall(t, l) PROVE Inv'
  <2>1. /\ pc[t] = "idle" /\ pc' = [pc EXCEPT ![t] = "remove"] /\ live /\ ~broken /\ Linked(l)
        /\ \A u \in Threads : pc[u] # "destroy"
        /\ \A u \in Threads : ~(pc[u] = "remove" /\ arg[u] = l)
        /\ arg' = [arg EXCEPT ![t] = l]
        /\ UNCHANGED <<live, mutex, list, heap, record, history>>
    BY <1>4 DEF RemoveCall, Enter
  <2>2. TypeOK'
    BY <1>0, <1>4, <2>1 DEF TypeOK, Pointer, list, heap, history
  <2>3. Arguments'
    BY <1>0, <2>1 DEF Arguments, Linked, TypeOK, heap, history
  <2>4. Alone' /\ Locked' /\ OrderIsAlive'
    BY <1>0, <2>1 DEF Alone, Locked, OrderIsAlive, TypeOK, heap, history
  <2>5. Whole'
    <3>1. \A u \in Threads : u # t => pc'[u] = pc[u] /\ arg'[u] = arg[u]
      BY <1>0, <2>1 DEF TypeOK
    <3>2. pc'[t] = "remove"
      BY <1>0, <2>1 DEF TypeOK
    <3> QED
      BY <1>0, <2>1, <3>1, <3>2 DEF Whole, Forward, Linked, list, heap, history
  <2>6. ~raced' => ~broken' /\ Backward'
    BY <1>0, <2>1 DEF Backward, TypeOK, list, history
  <2> QED
    BY <2>2, <2>3, <2>4, <2>5, <2>6 DEF Inv
<1>5. ASSUME NEW t \in Threads, RemoveLog(t) PROVE Inv'
  <2>1. /\ pc[t] = "remove" /\ mutex = NoThread /\ Unlink(arg[t]) /\ Removed(t, arg[t])
        /\ pc' = [pc EXCEPT ![t] = "idle"] /\ arg' = [arg EXCEPT ![t] = Null]
        /\ UNCHANGED <<live, mutex, record, seen, raced>>
    BY <1>5 DEF RemoveLog, Leave
  <2>2. Linked(arg[t]) /\ arg[t] \in Logs
    <3>1. Linked(arg[t])
      BY <1>0, <2>1 DEF Arguments
    <3> QED
      BY <1>0, <3>1 DEF Linked, TypeOK
  <2>3. /\ order' \in Seq(Logs) /\ \A e : Linked(e)' <=> Linked(e) /\ e # arg[t]
    BY <1>0, <2>1, Others DEF Removed
  <2>4. TypeOK'
    BY <1>0, <2>1, <2>2, <2>3, UnlinkTyped DEF Removed, Overtaken, TypeOK, Pointer
  <2>5. \A u \in Threads : u # t => pc'[u] = pc[u] /\ arg'[u] = arg[u]
    BY <1>0, <2>1 DEF TypeOK
  <2>6. pc'[t] = "idle"
    BY <1>0, <2>1 DEF TypeOK
  <2>7. Arguments'
    BY <1>0, <2>1, <2>2, <2>3, <2>5, <2>6 DEF Arguments, Unlink
  <2>8. Alone' /\ Locked'
    BY <1>0, <2>1, <2>5, <2>6 DEF Alone, Locked
  <2> QED
    BY <2>1, <2>2, <2>4, <2>5, <2>6, <2>7, <2>8, Removing
<1>6. ASSUME NEW t \in Threads, Destroy(t) PROVE Inv'
  BY <1>0, <1>6, Beginning DEF Destroy, TypeOK
<1>7. ASSUME NEW t \in Threads, DestroyRemove(t) PROVE Inv'
  <2>1. /\ pc[t] = "destroy" /\ first # Null /\ Unlink(first) /\ Removed(t, first)
        /\ UNCHANGED <<live, mutex, pc, arg, record, seen, raced>>
    BY <1>7 DEF DestroyRemove
  <2>2. first \in Logs /\ \A u \in Threads : u # t => pc[u] = "idle"
    BY <1>0, <2>1 DEF TypeOK, Pointer, Alone
  <2>3. /\ order' \in Seq(Logs) /\ \A e : Linked(e)' <=> Linked(e) /\ e # first
    BY <1>0, <2>1, Others DEF Removed
  <2>4. TypeOK'
    BY <1>0, <2>1, <2>2, <2>3, UnlinkTyped DEF Removed, Overtaken, TypeOK, Pointer
  <2>5. Arguments' /\ Alone' /\ Locked'
    BY <1>0, <2>1, <2>2 DEF Arguments, Alone, Locked
  <2>6. mutex = NoThread
    BY <1>0, <2>1, <2>2 DEF Locked, TypeOK
  <2>7. ~broken => Linked(first)
    BY <1>0, <2>1 DEF Whole, Forward, Linked, TypeOK
  <2> QED
    BY <2>1, <2>2, <2>4, <2>5, <2>6, <2>7, Removing
<1>8. ASSUME NEW t \in Threads, DestroyEnd(t) PROVE Inv'
  <2>1. /\ pc[t] = "destroy" /\ first = Null /\ live' = FALSE
        /\ pc' = [pc EXCEPT ![t] = "idle"] /\ arg' = [arg EXCEPT ![t] = Null]
        /\ UNCHANGED <<mutex, list, heap, record, history>>
    BY <1>8 DEF DestroyEnd, Leave
  <2>2. \A u \in Threads : pc'[u] = "idle"
    BY <1>0, <2>1 DEF Alone, TypeOK
  <2>3. TypeOK'
    BY <1>0, <2>1 DEF TypeOK, Pointer, list, heap, history
  <2>4. Arguments' /\ Alone' /\ OrderIsAlive'
    BY <1>0, <2>1, <2>2 DEF Arguments, Alone, OrderIsAlive, heap, history
  <2>5. Locked'
    BY <1>0, <2>1, <2>2 DEF Alone, Locked, TypeOK
  <2>6. ASSUME ~broken' PROVE Whole'
    <3>1. Whole /\ order = <<>>
      BY <1>0, <2>1, <2>6 DEF Whole, Forward, TypeOK, history
    <3>2. \A u \in Threads : pc[u] # "add"
      BY <1>0, <2>1 DEF Alone
    <3> QED
      BY <2>1, <2>2, <3>1, <3>2 DEF Whole, Forward, Linked, list, heap, history
  <2>7. ~raced' => ~broken' /\ Backward'
    BY <1>0, <2>1, <2>2 DEF Backward, list, history
  <2> QED
    BY <2>3, <2>4, <2>5, <2>6, <2>7 DEF Inv
<1>9. ASSUME NEW t \in Threads, NEW v \in Levels, LogCall(t, v) PROVE Inv'
  BY <1>0, <1>9, Beginning DEF LogCall, TypeOK
<1>10. ASSUME NEW t \in Threads, LogLock(t) PROVE Inv'
  <2>1. /\ pc[t] = "log" /\ mutex = NoThread /\ ~broken /\ mutex' = t
        /\ pc' = [pc EXCEPT ![t] = "walk"] /\ arg' = [arg EXCEPT ![t] = first]
        /\ UNCHANGED <<live, list, heap, record, history>>
    BY <1>10 DEF LogLock
  <2>2. TypeOK'
    BY <1>0, <2>1 DEF TypeOK, list, heap, history
  <2>3. \A u \in Threads : u # t => pc'[u] = pc[u] /\ arg'[u] = arg[u]
    BY <1>0, <2>1 DEF TypeOK
  <2>4. pc'[t] = "walk" /\ arg'[t] = first
    BY <1>0, <2>1 DEF TypeOK
  <2>5. Arguments' /\ OrderIsAlive'
    BY <1>0, <2>1, <2>3, <2>4 DEF Arguments, OrderIsAlive, Linked, heap, history
  <2>6. Alone' /\ Locked'
    BY <1>0, <2>1, <2>3, <2>4 DEF Alone, Locked
  <2>7. Whole'
    <3>1. first = Null \/ Linked(first)
      BY <1>0, <2>1 DEF Whole, Forward, Linked, TypeOK
    <3> QED
      BY <1>0, <2>1, <2>3, <2>4, <3>1 DEF Whole, Forward, Linked, list, heap, history
  <2>8. ~raced' => ~broken' /\ Backward'
    BY <1>0, <2>1, <2>3, <2>4 DEF Backward, list, history
  <2> QED
    BY <2>2, <2>5, <2>6, <2>7, <2>8 DEF Inv
<1>11. ASSUME NEW t \in Threads, Visit(t) PROVE Inv'
  <2>1. /\ pc[t] = "walk" /\ arg[t] # Null
        /\ misused' = (misused \/ Dead(arg[t]))
        /\ arg' = [arg EXCEPT ![t] = succ[arg[t]]]
        /\ UNCHANGED <<live, mutex, list, heap, pc, record, order, stale, raced, broken>>
    BY <1>11 DEF Visit
  <2>2. arg[t] \in Logs /\ succ[arg[t]] \in Pointer
    BY <1>0, <2>1 DEF TypeOK, Pointer
  <2>3. TypeOK'
    <3>1. seen' \in [Threads -> Seq(Logs)]
      BY <1>0, <1>11, <2>2 DEF Visit, TypeOK
    <3> QED
      BY <1>0, <2>1, <2>2, <3>1 DEF TypeOK, list, heap
  <2>4. \A u \in Threads : u # t => arg'[u] = arg[u]
    BY <1>0, <2>1 DEF TypeOK
  <2>5. Arguments' /\ Alone' /\ Locked' /\ OrderIsAlive'
    BY <1>0, <2>1, <2>4 DEF Arguments, Alone, Locked, OrderIsAlive, Linked, heap
  <2>6. ASSUME ~broken' PROVE Whole'
    <3>1. Whole /\ Linked(arg[t])
      BY <1>0, <2>1, <2>6 DEF Whole
    <3>2. PICK i \in 1..Len(order) : order[i] = arg[t]
      BY <3>1 DEF Linked
    <3>3. succ[arg[t]] = Null \/ Linked(succ[arg[t]])
      <4>1. succ[arg[t]] = IF i = Len(order) THEN Null ELSE order[i + 1]
        BY <3>1, <3>2 DEF Whole, Forward
      <4>2. i # Len(order) => i + 1 \in 1..Len(order)
        BY <1>0, <3>2 DEF TypeOK
      <4> QED
        BY <4>1, <4>2 DEF Linked
    <3>4. ~misused'
      BY <1>0, <2>1, <3>1, <3>2 DEF Dead, OrderIsAlive, Whole
    <3>5. arg'[t] = Null \/ Linked(arg[t])'
      BY <1>0, <2>1, <3>3 DEF TypeOK, Linked
    <3>6. \A u \in Threads : pc'[u] = "walk" => arg'[u] = Null \/ Linked(arg[u])'
      BY <2>1, <2>4, <3>1, <3>5 DEF Whole, Linked
    <3>7. \A u \in Threads : pc'[u] = "add" => pc[u] = "add" /\ arg'[u] = arg[u]
      BY <2>1, <2>4
    <3>8. \A u \in Threads : pc[u] = "add" => pc'[u] = "add" /\ arg'[u] = arg[u]
      BY <2>1, <2>4
    <3>9. Forward' /\ (~live' => first' = Null)
      BY <2>1, <3>1 DEF Whole, Forward, list
    <3>10. \A l \in alive' : Linked(l)' \/ \E u \in Threads : pc'[u] = "add" /\ arg'[u] = l
      BY <2>1, <3>1, <3>8 DEF Whole, Linked, heap
    <3>11. \A u \in Threads : pc'[u] = "add" => succ'[arg'[u]] = Null
      BY <2>1, <3>1, <3>7 DEF Whole, list
    <3> QED
      BY <3>4, <3>6, <3>9, <3>10, <3>11 DEF Whole
  <2>7. ~raced' => ~broken' /\ Backward'
    BY <1>0, <2>1, <2>4 DEF Backward, list
  <2> QED
    BY <2>3, <2>5, <2>6, <2>7 DEF Inv
<1>12. ASSUME NEW t \in Threads, LogDone(t) PROVE Inv'
  <2>1. /\ pc[t] = "walk" /\ mutex' = NoThread
        /\ pc' = [pc EXCEPT ![t] = "idle"] /\ arg' = [arg EXCEPT ![t] = Null]
        /\ UNCHANGED <<live, list, heap, order, stale, raced, broken, misused>>
    BY <1>12 DEF LogDone, Leave
  <2>2. TypeOK'
    <3>1. NoLevel \in Levels
      BY DEF NoLevel
    <3>2. seen' \in [Threads -> Seq(Logs)] /\ record' \in [Threads -> Levels]
      BY <1>0, <1>12, <3>1 DEF LogDone, TypeOK
    <3> QED
      BY <1>0, <2>1, <3>2 DEF TypeOK, Pointer, list, heap
  <2>3. \A u \in Threads : u # t => pc'[u] = pc[u] /\ arg'[u] = arg[u]
    BY <1>0, <2>1 DEF TypeOK
  <2>4. pc'[t] = "idle"
    BY <1>0, <2>1 DEF TypeOK
  <2>5. Arguments' /\ Alone' /\ OrderIsAlive'
    BY <1>0, <2>1, <2>3, <2>4 DEF Arguments, Alone, OrderIsAlive, Linked, heap
  <2>6. Locked'
    BY <1>0, <2>1, <2>3, <2>4 DEF Locked
  <2>7. ASSUME ~broken' PROVE Whole'
    <3>1. Whole
      BY <1>0, <2>1, <2>7
    <3>2. \A u \in Threads : pc'[u] = "add" <=> pc[u] = "add"
      BY <2>1, <2>3, <2>4
    <3>3. \A u \in Threads : pc'[u] # "walk"
      BY <1>0, <2>1, <2>3, <2>4 DEF Locked
    <3>4. \A u \in Threads : pc[u] = "add" => arg'[u] = arg[u]
      BY <2>1, <2>3
    <3>5. Forward' /\ ~misused' /\ (~live' => first' = Null)
      BY <2>1, <3>1 DEF Whole, Forward, list
    <3>6. \A l \in alive' : Linked(l)' \/ \E u \in Threads : pc'[u] = "add" /\ arg'[u] = l
      BY <2>1, <3>1, <3>2, <3>4 DEF Whole, Linked, heap
    <3>7. \A u \in Threads : pc'[u] = "add" => succ'[arg'[u]] = Null
      BY <2>1, <3>1, <3>2, <3>4 DEF Whole, list
    <3> QED
      BY <3>3, <3>5, <3>6, <3>7 DEF Whole
  <2>8. ~raced' => ~broken' /\ Backward'
    BY <1>0, <2>1, <2>3, <2>4 DEF Backward, list
  <2> QED
    BY <2>2, <2>5, <2>6, <2>7, <2>8 DEF Inv
<1>13. ASSUME UNCHANGED vars PROVE Inv'
  BY <1>0, <1>13 DEF Inv, TypeOK, Arguments, Alone, Locked, OrderIsAlive, Whole, Forward, Backward,
     Linked, vars, list, heap, history
<1> QED
  BY <1>1, <1>2, <1>3, <1>4, <1>5, <1>6, <1>7, <1>8, <1>9, <1>10, <1>11, <1>12, <1>13
     DEF Next, Step, Undefined

THEOREM Invariance == Spec => []Inv
BY Initially, Inductive, PTL DEF Spec

----------------------------------------------------------------------------
\* Every reachable state is well typed.
THEOREM Typing == Spec => []TypeOK
<1>1. Inv => TypeOK
  BY DEF Inv
<1> QED
  BY <1>1, Invariance, PTL

\* A log call walks the loggers added and not removed, each once, oldest first,
\* whatever is added and removed at the time.
THEOREM ListWhole == Spec => []WalkIntact
<1>1. Inv => WalkIntact
  <2> SUFFICES ASSUME Inv, ~broken PROVE Forward => WalkIntact
    BY DEF Inv, Whole, WalkIntact
  <2>1. order \in Seq(Logs)
    BY DEF Inv, TypeOK
  <2>2. order # <<>> => Head(order) = order[1]
    BY <2>1
  <2> QED
    BY <2>2 DEF Forward, WalkIntact
<1> QED
  BY <1>1, Invariance, PTL

\* Predecessors are right until an add is linked that was overtaken.
THEOREM OnlyRacesBreak == Spec => []PredecessorsRight
<1>1. Inv => PredecessorsRight
  <2> SUFFICES ASSUME Inv, ~raced, NEW i \in 1..Len(order)
               PROVE  prev[order[i]] = Before(order[i])
    BY DEF PredecessorsRight
  <2> QED
    BY BeforeIs DEF Inv, Backward
<1> QED
  BY <1>1, Invariance, PTL

\* No logger is used after it was freed, and destruction leaves none.
THEOREM NoDanglingLogger == Spec => []NoUseAfterRemove
<1>1. Inv => NoUseAfterRemove
  <2> SUFFICES ASSUME Inv, ~broken PROVE ~misused /\ CleanEnd
    BY DEF NoUseAfterRemove
  <2>1. Whole /\ Alone /\ TypeOK
    BY DEF Inv
  <2>2. ASSUME ~live PROVE alive = {} /\ first = Null /\ last = Null
    <3>1. first = Null /\ order = <<>>
      BY <2>1, <2>2, RegistryAssumption DEF Whole, Forward, TypeOK
    <3>2. \A l : ~Linked(l)
      BY <3>1 DEF Linked
    <3> QED
      BY <2>1, <2>2, <3>1, <3>2 DEF Whole, Alone, Forward
  <2> QED
    BY <2>1, <2>2 DEF Whole, CleanEnd
<1> QED
  BY <1>1, Invariance, PTL
----------------------------------------------------------------------------
\* A walk has come to the logger behind the n oldest, which have had the
\* record; who does not walk has no record to deliver.
Walks ==
  \A t \in Threads :
    IF pc[t] = "walk"
    THEN ~broken /\ \E n \in 0..Len(order) :
           arg[t] = (IF n = Len(order) THEN Null ELSE order[n + 1]) /\ HadRecord(t, n)
    ELSE seen[t] = <<>>

\* What a walk has to do with, but for the walker's own steps.
WalkOf(t) == <<pc[t], arg[t], record[t], seen[t]>>

\* Steps of those who do not walk leave the walks alone: while one walks none
\* of them changes the list or the level of a logger that is in it.
LEMMA WalksKept ==
  ASSUME Inv, Walks, order' = order, broken' = broken,
         \A k \in 1..Len(order) : level'[order[k]] = level[order[k]],
         \A t \in Threads : pc'[t] = "walk" => WalkOf(t)' = WalkOf(t),
         \A t \in Threads : pc'[t] # "walk" => seen'[t] = <<>>
  PROVE  Walks'
<1>1. ASSUME NEW t \in Threads, pc'[t] = "walk"
      PROVE  ~broken' /\ \E n \in 0..Len(order') :
               arg'[t] = (IF n = Len(order') THEN Null ELSE order'[n + 1]) /\ HadRecord(t, n)'
  <2>1. pc[t] = "walk" /\ arg'[t] = arg[t] /\ record'[t] = record[t] /\ seen'[t] = seen[t]
    BY <1>1 DEF WalkOf
  <2>2. ~broken
    BY <2>1 DEF Walks
  <2>3. PICK n \in 0..Len(order) :
          arg[t] = (IF n = Len(order) THEN Null ELSE order[n + 1]) /\ HadRecord(t, n)
    BY <2>1 DEF Walks
  <2>4. \A k \in 1..n : order'[k] = order[k] /\ level'[order'[k]] = level[order[k]]
    BY DEF Inv, TypeOK
  <2>5. HadRecord(t, n)'
    BY <2>1, <2>3, <2>4 DEF HadRecord
  <2> QED
    BY <2>1, <2>2, <2>3, <2>5
<1> QED
  BY <1>1 DEF Walks

\* A list that changes has nobody walk it.
LEMMA NobodyWalks ==
  ASSUME Walks, seen' = seen, \A t \in Threads : pc[t] # "walk" /\ pc'[t] # "walk"
  PROVE  Walks'
BY DEF Walks

\* A call begins of a thread that is in none.
LEMMA CallBegins ==
  ASSUME Inv, Walks, NEW t \in Threads, NEW to \in {"remove", "destroy", "log"},
         pc[t] = "idle", pc' = [pc EXCEPT ![t] = to],
         \E a : arg' = [arg EXCEPT ![t] = a], \E v : record' = [record EXCEPT ![t] = v],
         UNCHANGED <<level, seen, order, broken>>
  PROVE  Walks'
<1>1. /\ arg \in [Threads -> Pointer] /\ record \in [Threads -> Levels]
      /\ pc \in [Threads -> {"idle", "add", "remove", "destroy", "log", "walk"}]
  BY DEF Inv, TypeOK
<1>2. \A u \in Threads : u # t => pc'[u] = pc[u] /\ arg'[u] = arg[u] /\ record'[u] = record[u]
  BY <1>1
<1>3. pc'[t] # "walk" /\ seen'[t] = <<>>
  BY <1>1 DEF Walks
<1>4. \A u \in Threads : pc'[u] = "walk" => WalkOf(u)' = WalkOf(u)
  BY <1>2, <1>3 DEF WalkOf
<1>5. \A u \in Threads : pc'[u] # "walk" => seen'[u] = <<>>
  BY <1>2, <1>3 DEF Walks
<1> QED
  BY <1>4, <1>5, WalksKept

\* The walker's own steps: it begins at the first logger, and each visit adds
\* one logger to those that had the record.
LEMMA WalkBegins ==
  ASSUME Inv, Walks, NEW t \in Threads, LogLock(t)
  PROVE  Walks'
<1>1. /\ pc[t] = "log" /\ ~broken /\ seen[t] = <<>> /\ order \in Seq(Logs)
      /\ pc' = [pc EXCEPT ![t] = "walk"] /\ arg' = [arg EXCEPT ![t] = first]
      /\ UNCHANGED <<order, broken, level, seen, record>>
  BY DEF LogLock, Walks, list, heap, history, Inv, TypeOK
<1>2. \A u \in Threads : pc[u] # "walk"
  <2>1. mutex = NoThread /\ Locked
    BY DEF LogLock, Inv
  <2> QED
    BY <2>1, RegistryAssumption DEF Locked
<1>3. ASSUME NEW u \in Threads, u # t PROVE pc'[u] # "walk" /\ seen'[u] = <<>>
  BY <1>1, <1>2, <1>3 DEF Walks, Inv, TypeOK
<1>4. 0 \in 0..Len(order) /\ arg'[t] = (IF 0 = Len(order) THEN Null ELSE order[0 + 1])
  BY <1>1 DEF Inv, Whole, Forward, TypeOK
<1>5. HadRecord(t, 0)'
  BY <1>1 DEF HadRecord
<1>6. pc'[t] = "walk"
  BY <1>1 DEF Inv, TypeOK
<1> QED
  BY <1>1, <1>3, <1>4, <1>5, <1>6 DEF Walks

LEMMA WalkGoesOn ==
  ASSUME Inv, Walks, NEW t \in Threads, Visit(t)
  PROVE  Walks'
<1>0. /\ order \in Seq(Logs) /\ Len(order) \in Nat /\ seen[t] \in Seq(Logs) /\ Len(seen[t]) \in Nat
      /\ \A i, j \in 1..Len(order) : order[i] = order[j] => i = j
  BY DEF Inv, TypeOK, OrderIsAlive
<1>1. /\ pc[t] = "walk" /\ arg[t] # Null /\ ~broken
      /\ seen' = [seen EXCEPT ![t] = IF Takes(arg[t], record[t]) THEN Append(@, arg[t]) ELSE @]
      /\ arg' = [arg EXCEPT ![t] = succ[arg[t]]]
      /\ UNCHANGED <<order, broken, level, record, pc>>
  BY DEF Visit, Walks, heap
<1>2. PICK n \in 0..Len(order) :
        arg[t] = (IF n = Len(order) THEN Null ELSE order[n + 1]) /\ HadRecord(t, n)
  BY <1>1 DEF Walks
<1>3. n < Len(order) /\ n + 1 \in 1..Len(order) /\ arg[t] = order[n + 1]
  BY <1>0, <1>1, <1>2
<1>4. arg'[t] = (IF n + 1 = Len(order) THEN Null ELSE order[(n + 1) + 1])
  BY <1>0, <1>1, <1>3 DEF Inv, Whole, Forward, TypeOK
<1>5. seen'[t] = IF level[order[n + 1]] <= record[t] THEN Append(seen[t], order[n + 1]) ELSE seen[t]
  BY <1>1, <1>3 DEF Takes, Inv, TypeOK
<1>6. order' = order /\ level' = level /\ record' = record
  BY <1>1
<1>7. HadRecord(t, n + 1)'
  <2>1. /\ \A i \in 1..Len(seen[t]) : \E k \in 1..n : seen[t][i] = order[k]
        /\ \A i \in 1..Len(seen[t]) : seen[t][i] # order[n + 1]
    BY <1>0, <1>2, <1>3 DEF HadRecord
  <2>2. CASE level[order[n + 1]] <= record[t]
    <3>1. /\ Len(seen'[t]) = Len(seen[t]) + 1
          /\ \A i \in 1..Len(seen[t]) : seen'[t][i] = seen[t][i]
          /\ seen'[t][Len(seen[t]) + 1] = order[n + 1]
      BY <1>0, <1>3, <1>5, <2>2
    <3>2. \A k \in 1..(n + 1) :
            (level[order[k]] <= record[t]) <=> \E i \in 1..Len(seen'[t]) : seen'[t][i] = order[k]
      <4>1. ASSUME NEW k \in 1..n
            PROVE  (level[order[k]] <= record[t]) <=> \E i \in 1..Len(seen'[t]) : seen'[t][i] = order[k]
        <5>1. (level[order[k]] <= record[t]) <=> \E i \in 1..Len(seen[t]) : seen[t][i] = order[k]
          BY <1>2 DEF HadRecord
        <5>2. order[k] # order[n + 1]
          BY <1>0, <1>3
        <5> QED
          BY SMTT(30), <1>0, <3>1, <5>1, <5>2
      <4>2. \E i \in 1..Len(seen'[t]) : seen'[t][i] = order[n + 1]
        BY <1>0, <3>1
      <4> QED
        BY SMTT(30), <1>0, <2>2, <4>1, <4>2
    <3>3. ASSUME NEW i \in 1..Len(seen'[t]) PROVE \E k \in 1..(n + 1) : seen'[t][i] = order[k]
      <4>1. CASE i = Len(seen[t]) + 1
        BY <1>0, <1>3, <3>1, <4>1
      <4>2. CASE i \in 1..Len(seen[t])
        <5>1. PICK k \in 1..n : seen[t][i] = order[k]
          BY <2>1, <4>2
        <5>2. k \in 1..(n + 1) /\ seen'[t][i] = order[k]
          BY <1>0, <1>3, <3>1, <4>2, <5>1
        <5> QED
          BY <5>2
      <4> QED
        BY <1>0, <3>1, <4>1, <4>2
    <3>4. ASSUME NEW i \in 1..Len(seen'[t]), NEW j \in 1..Len(seen'[t]),
                 NEW k \in 1..(n + 1), NEW m \in 1..(n + 1),
                 i < j, seen'[t][i] = order[k], seen'[t][j] = order[m]
          PROVE  k < m
      <4>1. i \in 1..Len(seen[t]) /\ seen[t][i] = order[k] /\ k \in 1..n
        <5>1. i \in 1..Len(seen[t]) /\ n \in Nat
          BY <1>0, <1>3, <3>1, <3>4
        <5>2. seen[t][i] = order[k] /\ seen[t][i] # order[n + 1]
          BY <2>1, <3>1, <3>4, <5>1
        <5>3. k # n + 1
          BY <5>2
        <5> QED
          BY <5>1, <5>2, <5>3
      <4>2. CASE j = Len(seen[t]) + 1
        <5>1. order[m] = order[n + 1]
          BY <3>1, <3>4, <4>2
        <5>2. m = n + 1
          <6>1. m \in 1..Len(order) /\ n + 1 \in 1..Len(order)
            BY <1>0, <1>3
          <6> QED
            BY <1>0, <5>1, <6>1
        <5> QED
          BY <4>1, <5>2
      <4>3. CASE j \in 1..Len(seen[t])
        <5>1. seen[t][j] = order[m] /\ seen[t][j] # order[n + 1]
          BY <2>1, <3>1, <3>4, <4>3
        <5>2. m # n + 1 /\ n \in Nat
          BY <1>0, <5>1
        <5>3. m \in 1..n
          BY <5>2
        <5> QED
          BY <1>2, <3>4, <4>1, <4>3, <5>1, <5>3 DEF HadRecord
      <4> QED
        BY <1>0, <3>1, <4>2, <4>3
    <3>5. /\ \A k \in 1..(n + 1) :
               (level'[order'[k]] <= record'[t]) <=> \E i \in 1..Len(seen'[t]) : seen'[t][i] = order'[k]
          /\ \A i \in 1..Len(seen'[t]) : \E k \in 1..(n + 1) : seen'[t][i] = order'[k]
      BY <1>6, <3>2, <3>3
    <3>6. \A i, j \in 1..Len(seen'[t]), k, m \in 1..(n + 1) :
            i < j /\ seen'[t][i] = order'[k] /\ seen'[t][j] = order'[m] => k < m
      BY <1>6, <3>4
    <3> QED
      BY ZenonT(40), <3>5, <3>6 DEF HadRecord
  <2>3. CASE ~(level[order[n + 1]] <= record[t])
    <3>1. seen'[t] = seen[t]
      BY <1>5, <2>3
    <3>2. \A k \in 1..(n + 1) :
            (level[order[k]] <= record[t]) <=> \E i \in 1..Len(seen[t]) : seen[t][i] = order[k]
      BY <1>0, <1>2, <1>3, <2>1, <2>3 DEF HadRecord
    <3>3. \A i \in 1..Len(seen[t]), k \in 1..(n + 1) : seen[t][i] = order[k] => k \in 1..n
      BY <1>0, <1>3, <2>1
    <3>4. \A i \in 1..Len(seen[t]) : \E k \in 1..(n + 1) : seen[t][i] = order[k]
      <4>1. \A k \in 1..n : k \in 1..(n + 1)
        BY <1>0, <1>3
      <4> QED
        BY <2>1, <4>1
    <3>5. \A i, j \in 1..Len(seen[t]), k, m \in 1..(n + 1) :
            i < j /\ seen[t][i] = order[k] /\ seen[t][j] = order[m] => k < m
      BY <1>2, <3>3 DEF HadRecord
    <3>6. /\ \A k \in 1..(n + 1) :
               (level'[order'[k]] <= record'[t]) <=> \E i \in 1..Len(seen'[t]) : seen'[t][i] = order'[k]
          /\ \A i \in 1..Len(seen'[t]) : \E k \in 1..(n + 1) : seen'[t][i] = order'[k]
      <4>1. \A k \in 1..(n + 1) :
              (level'[order'[k]] <= record'[t]) <=> \E i \in 1..Len(seen'[t]) : seen'[t][i] = order'[k]
        BY ZenonT(40), <1>6, <3>1, <3>2
      <4>2. \A i \in 1..Len(seen'[t]) : \E k \in 1..(n + 1) : seen'[t][i] = order'[k]
        BY ZenonT(40), <1>6, <3>1, <3>4
      <4> QED
        BY <4>1, <4>2
    <3>7. \A i, j \in 1..Len(seen'[t]), k, m \in 1..(n + 1) :
            i < j /\ seen'[t][i] = order'[k] /\ seen'[t][j] = order'[m] => k < m
      BY <1>6, <3>1, <3>5
    <3> QED
      BY ZenonT(40), <3>6, <3>7 DEF HadRecord
  <2> QED
    BY <2>2, <2>3
<1>8. ASSUME NEW u \in Threads, u # t PROVE pc'[u] # "walk" /\ seen'[u] = <<>>
  <2>1. pc[u] # "walk"
    BY <1>1, <1>8 DEF Inv, Locked
  <2> QED
    BY <1>1, <1>8, <2>1 DEF Walks, Inv, TypeOK
<1>9. n + 1 \in 0..Len(order') /\ order' = order
  BY <1>1, <1>3
<1> QED
  BY <1>1, <1>4, <1>7, <1>8, <1>9 DEF Walks

\* Every step keeps the walks.
LEMMA WalksInductive == Inv /\ Walks /\ [Next \/ Undefined]_vars => Walks'
<1> SUFFICES ASSUME Inv, Walks, [Next \/ Undefined]_vars PROVE Walks'
  OBVIOUS
<1> USE RegistryAssumption
<1>0. TypeOK /\ Arguments /\ Alone /\ Locked /\ OrderIsAlive
  BY DEF Inv
<1>1. ASSUME Reinit PROVE Walks'
  BY <1>1, WalksKept DEF Reinit, WalkOf, Walks, heap, history
<1>2. ASSUME NEW t \in Threads, NEW l \in Logs, NEW v \in Levels, AddRead(t, l, v) PROVE Walks'
  <2>1. /\ pc[t] = "idle" /\ pc' = [pc EXCEPT ![t] = "add"] /\ arg' = [arg EXCEPT ![t] = l]
        /\ l \notin alive /\ level' = [level EXCEPT ![l] = v]
        /\ UNCHANGED <<record, seen, order, broken>>
    BY <1>2 DEF AddRead, Enter, history
  <2>2. \A k \in 1..Len(order) : level'[order[k]] = level[order[k]]
    BY <1>0, <2>1 DEF OrderIsAlive, TypeOK
  <2>3. \A u \in Threads : u # t => pc'[u] = pc[u] /\ arg'[u] = arg[u]
    BY <1>0, <2>1 DEF TypeOK
  <2>4. pc'[t] = "add" /\ seen'[t] = <<>>
    BY <1>0, <2>1 DEF TypeOK, Walks
  <2>5. \A u \in Threads : pc'[u] = "walk" => WalkOf(u)' = WalkOf(u)
    BY <2>1, <2>3, <2>4 DEF WalkOf
  <2>6. \A u \in Threads : pc'[u] # "walk" => seen'[u] = <<>>
    BY <2>1, <2>3, <2>4 DEF Walks
  <2> QED
    BY <2>1, <2>2, <2>5, <2>6, WalksKept
<1>3. ASSUME NEW t \in Threads, AddLink(t) PROVE Walks'
  <2>1. pc' = [pc EXCEPT ![t] = "idle"] /\ seen' = seen /\ mutex = NoThread
    BY <1>3 DEF AddLink, Leave
  <2> QED
    BY <1>0, <2>1, NobodyWalks DEF Locked, TypeOK
<1>4. ASSUME NEW t \in Threads, NEW l \in Logs, RemoveCall(t, l) PROVE Walks'
  <2>1. /\ pc[t] = "idle" /\ pc' = [pc EXCEPT ![t] = "remove"] /\ arg' = [arg EXCEPT ![t] = l]
        /\ UNCHANGED <<level, record, seen, order, broken>>
    BY <1>4 DEF RemoveCall, Enter, heap, history
  <2>2. record' = [record EXCEPT ![t] = record[t]]
    BY <1>0, <1>4 DEF RemoveCall, TypeOK
  <2> QED
    BY <2>1, <2>2, CallBegins
<1>5. ASSUME NEW t \in Threads, RemoveLog(t) PROVE Walks'
  <2>1. pc' = [pc EXCEPT ![t] = "idle"] /\ seen' = seen /\ mutex = NoThread
    BY <1>5 DEF RemoveLog, Leave
  <2> QED
    BY <1>0, <2>1, NobodyWalks DEF Locked, TypeOK
<1>6. ASSUME NEW t \in Threads, Destroy(t) PROVE Walks'
  <2>1. /\ pc[t] = "idle" /\ pc' = [pc EXCEPT ![t] = "destroy"] /\ arg' = arg
        /\ UNCHANGED <<level, record, seen, order, broken>>
    BY <1>6 DEF Destroy, Enter, heap, history
  <2>2. record' = [record EXCEPT ![t] = record[t]] /\ arg' = [arg EXCEPT ![t] = arg[t]]
    BY <1>0, <1>6 DEF Destroy, TypeOK
  <2> QED
    BY <2>1, <2>2, CallBegins
<1>7. ASSUME NEW t \in Threads, DestroyRemove(t) PROVE Walks'
  <2>1. pc[t] = "destroy" /\ pc' = pc /\ seen' = seen
    BY <1>7 DEF DestroyRemove
  <2>2. \A u \in Threads : pc[u] # "walk"
    BY <1>0, <2>1 DEF Alone
  <2> QED
    BY <2>1, <2>2, NobodyWalks
<1>8. ASSUME NEW t \in Threads, DestroyEnd(t) PROVE Walks'
  <2>1. pc[t] = "destroy" /\ pc' = [pc EXCEPT ![t] = "idle"] /\ seen' = seen
    BY <1>8 DEF DestroyEnd, Leave, history
  <2>2. \A u \in Threads : pc[u] # "walk"
    BY <1>0, <2>1 DEF Alone
  <2> QED
    BY <1>0, <2>1, <2>2, NobodyWalks DEF TypeOK
<1>9. ASSUME NEW t \in Threads, NEW v \in Levels, LogCall(t, v) PROVE Walks'
  <2>1. /\ pc[t] = "idle" /\ pc' = [pc EXCEPT ![t] = "log"] /\ record' = [record EXCEPT ![t] = v]
        /\ UNCHANGED <<arg, level, seen, order, broken>>
    BY <1>9 DEF LogCall, Enter, heap, history
  <2>2. arg' = [arg EXCEPT ![t] = arg[t]]
    BY <1>0, <2>1 DEF TypeOK
  <2> QED
    BY <2>1, <2>2, CallBegins
<1>10. ASSUME NEW t \in Threads, LogDone(t) PROVE Walks'
  <2>1. /\ pc[t] = "walk" /\ pc' = [pc EXCEPT ![t] = "idle"] /\ arg' = [arg EXCEPT ![t] = Null]
        /\ seen' = [seen EXCEPT ![t] = <<>>]
    BY <1>10 DEF LogDone, Leave
  <2>2. \A u \in Threads : u # t => pc[u] # "walk"
    BY <1>0, <2>1 DEF Locked
  <2> QED
    BY <1>0, <2>1, <2>2 DEF Walks, TypeOK
<1>11. ASSUME UNCHANGED vars PROVE Walks'
  BY <1>11, WalksKept DEF WalkOf, Walks, vars, heap, history
<1> QED
  BY <1>1, <1>2, <1>3, <1>4, <1>5, <1>6, <1>7, <1>8, <1>9, <1>10, <1>11, WalkBegins, WalkGoesOn
     DEF Next, Step, Undefined

\* Each logger that takes records of the level has the record once, the oldest
\* first, and none is left out, whatever is added and removed meanwhile.
THEOREM RecordsDelivered == Spec => []Delivered
<1>1. Init => Walks
  BY DEF Init, Walks
<1>2. Inv /\ Walks => Delivered
  <2> SUFFICES ASSUME Inv, Walks, NEW t \in Threads, pc[t] = "walk", arg[t] = Null
               PROVE  HadRecord(t, Len(order))
    BY DEF Delivered
  <2>1. PICK n \in 0..Len(order) :
          arg[t] = (IF n = Len(order) THEN Null ELSE order[n + 1]) /\ HadRecord(t, n)
    BY DEF Walks
  <2>2. order \in Seq(Logs) /\ Len(order) \in Nat
    BY DEF Inv, TypeOK
  <2>3. n # Len(order) => order[n + 1] \in Logs
    BY <2>1, <2>2
  <2> QED
    BY <2>1, <2>3, RegistryAssumption
<1> QED
  BY <1>1, <1>2, WalksInductive, Invariance, PTL DEF Spec
=============================================================================
