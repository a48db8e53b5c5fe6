--------------------------- MODULE Buffer_proofs ---------------------------
(***************************************************************************)
(* Proofs about Buffer: for any number of threads and references the count *)
(* is the number of references, nobody holds a reference to memory that is *)
(* being destroyed, and it is destroyed once.                              *)
(***************************************************************************)
EXTENDS Buffer, FiniteSetTheorems, TLAPS

\* What the memory is while it is neither referenced nor being destroyed.
Quiet == Held = {} /\ (\A t \in Threads : pc[t] = "idle") => memory \in {"none", "freed"}

\* The inductive invariant.  CountIsHeld is what makes the thread that sees
\* the count 1 the last holder, and so LiveWhileHeld hold.
Inv == TypeOK /\ CountIsHeld /\ LiveWhileHeld /\ DestroyedOnce /\ Quiet

\* What the last holder leaves behind, and who it is: with one reference
\* counted, giving up a reference leaves none.
LEMMA LastOne ==
  ASSUME NEW S, NEW h \in S, IsFiniteSet(S)
  PROVE  /\ IsFiniteSet(S \ {h})
         /\ Cardinality(S \ {h}) = Cardinality(S) - 1
         /\ Cardinality(S) = 1 <=> S \ {h} = {}
         /\ Cardinality(S) \in Nat
<1>1. IsFiniteSet(S \ {h}) /\ Cardinality(S \ {h}) = Cardinality(S) - 1
  BY FS_RemoveElement
<1>2. Cardinality(S) \in Nat /\ Cardinality(S \ {h}) \in Nat
  BY <1>1, FS_CardinalityType
<1>3. Cardinality(S \ {h}) = 0 <=> S \ {h} = {}
  BY <1>1, FS_EmptySet
<1> QED
  BY <1>1, <1>2, <1>3

\* The references held are finitely many.
LEMMA HeldFinite == IsFiniteSet(Held)
  BY ThreadsAssumption, FS_Subset DEF Held

LEMMA InvInit == Init => Inv
<1> SUFFICES ASSUME Init PROVE Inv
  OBVIOUS
<1>1. Held = {}
  BY DEF Init, Held
<1>2. Cardinality(Held) = 0
  BY <1>1, FS_EmptySet
<1> QED
  BY <1>1, <1>2 DEF Init, Inv, TypeOK, CountIsHeld, LiveWhileHeld, DestroyedOnce, Quiet

LEMMA InvNext == Inv /\ [Next]_vars => Inv'
<1> SUFFICES ASSUME Inv, [Next]_vars PROVE Inv'
  OBVIOUS
<1>0. IsFiniteSet(Held)
  BY HeldFinite
<1> USE ThreadsAssumption
<1>1. ASSUME NEW t \in Threads, NEW h \in Handles, Create(t, h) PROVE Inv'
  <2>1. Held = {} /\ \A u \in Threads : pc[u] = "idle"
    BY <1>1 DEF Inv, LiveWhileHeld, DestroyedOnce, TypeOK, Create
  <2>2. Held' = {h}
    BY <1>1, <2>1 DEF Create, Held, Inv, TypeOK
  <2>3. Cardinality(Held') = 1
    BY <2>2, FS_Singleton
  <2> QED
    BY <1>1, <2>1, <2>2, <2>3
    DEF Inv, TypeOK, CountIsHeld, LiveWhileHeld, DestroyedOnce, Quiet, Create
<1>2. ASSUME NEW t \in Threads, NEW h \in Handles, NEW new \in Handles, Ref(t, h, new)
      PROVE  Inv'
  <2>1. new \notin Held /\ h \in Held /\ Held' = Held \cup {new}
    BY <1>2 DEF Ref, Held, Inv, TypeOK
  <2>2. Cardinality(Held') = Cardinality(Held) + 1
    BY <1>0, <2>1, FS_AddElement
  <2> QED
    BY <1>2, <2>1, <2>2
    DEF Inv, TypeOK, CountIsHeld, LiveWhileHeld, DestroyedOnce, Quiet, Ref
<1>3. ASSUME NEW t \in Threads, NEW u \in Threads, NEW h \in Handles, Pass(t, u, h)
      PROVE  Inv'
  <2>1. Held' = Held
    BY <1>3 DEF Pass, Held, Inv, TypeOK
  <2> QED
    BY <1>3, <2>1
    DEF Inv, TypeOK, CountIsHeld, LiveWhileHeld, DestroyedOnce, Quiet, Pass
<1>4. ASSUME NEW t \in Threads, NEW h \in Handles, Unref(t, h) PROVE Inv'
  <2>1. h \in Held /\ Held' = Held \ {h}
    BY <1>4 DEF Unref, Held, Inv, TypeOK
  <2>2. /\ Cardinality(Held') = refCount - 1
        /\ refCount = 1 <=> Held' = {}
        /\ refCount \in Nat
    BY <1>0, <2>1, LastOne DEF Inv, CountIsHeld
  <2>3. memory = "allocated" /\ \A u \in Threads : pc[u] = "idle"
    BY <2>1 DEF Inv, LiveWhileHeld
  <2>4. IsFiniteSet(Held')
    BY <1>0, <2>1, LastOne
  <2>5. refCount' = Cardinality(Held') /\ refCount' \in Nat
    BY <1>4, <2>2, <2>4, FS_CardinalityType DEF Unref
  <2> QED
    BY <1>4, <2>1, <2>2, <2>3, <2>5
    DEF Inv, TypeOK, CountIsHeld, LiveWhileHeld, DestroyedOnce, Quiet, Unref
<1>5. ASSUME NEW t \in Threads, Destruct(t) PROVE Inv'
  <2>1. Held' = Held /\ Held = {}
    BY <1>5 DEF Destruct, Held, Inv, LiveWhileHeld
  <2> QED
    BY <1>5, <2>1
    DEF Inv, TypeOK, CountIsHeld, LiveWhileHeld, DestroyedOnce, Quiet, Destruct
<1>6. ASSUME NEW t \in Threads, Free(t) PROVE Inv'
  <2>1. Held' = Held /\ Held = {}
    BY <1>6 DEF Free, Held, Inv, LiveWhileHeld
  <2> QED
    BY <1>6, <2>1
    DEF Inv, TypeOK, CountIsHeld, LiveWhileHeld, DestroyedOnce, Quiet, Free
<1>7. CASE UNCHANGED vars
  BY <1>7 DEF vars, Held, Inv, TypeOK, CountIsHeld, LiveWhileHeld, DestroyedOnce, Quiet
<1> QED
  BY <1>1, <1>2, <1>3, <1>4, <1>5, <1>6, <1>7 DEF Next

THEOREM InvHolds == Spec => []Inv
  BY InvInit, InvNext, PTL DEF Spec

\* The count is the number of references at every moment, for any number of
\* threads that take, pass on and give up references.
THEOREM CountCorrect == Spec => []CountIsHeld
<1>1. Inv => CountIsHeld
  BY DEF Inv
<1> QED
  BY <1>1, InvHolds, PTL

\* No reference is ever to memory that is destructed or freed.
THEOREM NoUseAfterFree == Spec => []LiveWhileHeld
<1>1. Inv => LiveWhileHeld
  BY DEF Inv
<1> QED
  BY <1>1, InvHolds, PTL

\* The destructor runs once, before the memory is freed, and in one thread.
THEOREM OneDestruction == Spec => []DestroyedOnce
<1>1. Inv => DestroyedOnce
  BY DEF Inv
<1> QED
  BY <1>1, InvHolds, PTL
=============================================================================
