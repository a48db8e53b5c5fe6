------------------------------- MODULE Buffer -------------------------------
(***************************************************************************)
(* The reference counted buffer of libsve4_utils/buffer.c, which keeps     *)
(* decoders, demuxers, frames and log user data alive.  A reference is a   *)
(* right to use the buffer that somebody holds; the code counts them in    *)
(* one atomic word.  After the decrement that takes the count to zero the  *)
(* thread that made it runs the destructor and frees the memory, while the *)
(* other threads go on.                                                    *)
(***************************************************************************)
EXTENDS Integers, FiniteSets

CONSTANTS
  Threads,
  Handles,        \* references; bound on how many there are at a time
  Nobody          \* the holder of a reference that does not exist

ASSUME ThreadsAssumption ==
  IsFiniteSet(Handles) /\ Nobody \notin Threads

VARIABLES
  memory,      \* "none", "allocated", "destructed" or "freed"
  refCount,    \* buffer->ref_count
  holder,      \* who holds each reference
  pc           \* "idle", or where in unref a thread stands

vars == <<memory, refCount, holder, pc>>

Held == {h \in Handles : holder[h] # Nobody}

Init ==
  /\ memory = "none"
  /\ refCount = 0
  /\ holder = [h \in Handles |-> Nobody]
  /\ pc = [t \in Threads |-> "idle"]

\* Variants with a plausible mistake, here and below, stand before what they
\* vary; no run uses them.  The count starts without the first reference:
CreateZero(t, h) ==
  /\ memory \in {"none", "freed"}
  /\ pc[t] = "idle"
  /\ memory' = "allocated"
  /\ refCount' = 0
  /\ holder' = [holder EXCEPT ![h] = t]
  /\ UNCHANGED pc

\* sve4_buffer_create.  A failing allocation returns NULL and changes nothing.
\* Freed memory may become a buffer again.
Create(t, h) ==
  /\ memory \in {"none", "freed"}
  /\ pc[t] = "idle"
  /\ memory' = "allocated"
  /\ refCount' = 1
  /\ holder' = [holder EXCEPT ![h] = t]
  /\ UNCHANGED pc

\* Variant: the pointer is copied without counting.
RefUncounted(t, h, new) ==
  /\ pc[t] = "idle"
  /\ holder[h] = t /\ holder[new] = Nobody
  /\ holder' = [holder EXCEPT ![new] = t]
  /\ UNCHANGED <<memory, refCount, pc>>

\* sve4_buffer_ref: who holds a reference makes another.
Ref(t, h, new) ==
  /\ pc[t] = "idle"
  /\ holder[h] = t /\ holder[new] = Nobody
  /\ holder' = [holder EXCEPT ![new] = t]
  /\ refCount' = refCount + 1
  /\ UNCHANGED <<memory, pc>>

\* A reference changes hands: a frame or a demuxer given to another thread.
Pass(t, u, h) ==
  /\ pc[t] = "idle"
  /\ holder[h] = t /\ u # t
  /\ holder' = [holder EXCEPT ![h] = u]
  /\ UNCHANGED <<memory, refCount, pc>>

\* Variant: the count that was is taken for the count that is.
UnrefAtZero(t, h) ==
  /\ pc[t] = "idle"
  /\ holder[h] = t
  /\ holder' = [holder EXCEPT ![h] = Nobody]
  /\ refCount' = refCount - 1
  /\ pc' = [pc EXCEPT ![t] = IF refCount = 0 THEN "destruct" ELSE "idle"]
  /\ UNCHANGED memory

\* Variant: the last two are both told that theirs was the last.
UnrefTwice(t, h) ==
  /\ pc[t] = "idle"
  /\ holder[h] = t
  /\ holder' = [holder EXCEPT ![h] = Nobody]
  /\ refCount' = refCount - 1
  /\ pc' = [pc EXCEPT ![t] = IF refCount <= 2 THEN "destruct" ELSE "idle"]
  /\ UNCHANGED memory

\* sve4_buffer_unref, or free, which clears the caller's pointer as well: the
\* fetch_sub, which tells one thread only that it was the last.
Unref(t, h) ==
  /\ pc[t] = "idle"
  /\ holder[h] = t
  /\ holder' = [holder EXCEPT ![h] = Nobody]
  /\ refCount' = refCount - 1
  /\ pc' = [pc EXCEPT ![t] = IF refCount = 1 THEN "destruct" ELSE "idle"]
  /\ UNCHANGED memory

\* The call of the destructor, if the buffer has one.
Destruct(t) ==
  /\ pc[t] = "destruct"
  /\ memory' = "destructed"
  /\ pc' = [pc EXCEPT ![t] = "free"]
  /\ UNCHANGED <<refCount, holder>>

Free(t) ==
  /\ pc[t] = "free"
  /\ memory' = "freed"
  /\ pc' = [pc EXCEPT ![t] = "idle"]
  /\ UNCHANGED <<refCount, holder>>

Next ==
  \E t \in Threads :
    \/ \E h \in Handles : \/ Create(t, h) \/ Unref(t, h)
                          \/ \E new \in Handles : Ref(t, h, new)
                          \/ \E u \in Threads : Pass(t, u, h)
    \/ Destruct(t) \/ Free(t)

Spec == Init /\ [][Next]_vars

\* A thread that is in unref comes to its end.
Fairness == \A t \in Threads : WF_vars(Destruct(t) \/ Free(t))

FairSpec == Spec /\ Fairness

----------------------------------------------------------------------------
TypeOK ==
  /\ memory \in {"none", "allocated", "destructed", "freed"}
  /\ refCount \in Nat
  /\ holder \in [Handles -> Threads \cup {Nobody}]
  /\ pc \in [Threads -> {"idle", "destruct", "free"}]

\* No use after free, whatever the threads do at once: a reference keeps the
\* data whole, and the destructor does not even begin.
LiveWhileHeld ==
  Held # {} => memory = "allocated" /\ \A t \in Threads : pc[t] = "idle"

\* The count is the number of references there are, at every moment.
CountIsHeld == refCount = Cardinality(Held)

\* The destructor and the free happen once: two threads that drop the last
\* two references are not both told that theirs was the last, and the memory
\* is not freed before the destructor has run.
DestroyedOnce ==
  /\ \A t, u \in Threads : pc[t] # "idle" /\ pc[u] # "idle" => t = u
  /\ \A t \in Threads :
       /\ pc[t] = "destruct" => memory = "allocated"
       /\ pc[t] = "free" => memory = "destructed"

\* Nothing leaks: once there is no reference the memory is given back.
FreedInTheEnd == (memory = "allocated" /\ Held = {}) ~> (memory = "freed")
=============================================================================
