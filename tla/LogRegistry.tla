---------------------------- MODULE LogRegistry ----------------------------
(***************************************************************************)
(* The loggers of libsve4_log/init.c: a doubly linked list under a mutex,  *)
(* which add and remove change and a log call walks, with the callbacks    *)
(* run inside the mutex.  add_config reads the end of the list before it   *)
(* takes the mutex.  What a call does between lock and unlock is one step, *)
(* a log call apart, which is one step per logger.                         *)
(***************************************************************************)
EXTENDS Integers, SequencesExt

CONSTANTS
  Threads,
  Logs,        \* logger objects; a freed one may be allocated again
  Levels,      \* the levels of loggers and records
  Null,        \* the null pointer
  NoThread     \* the mutex is free

ASSUME RegistryAssumption ==
  /\ IsFiniteSet(Logs) /\ Null \notin Logs
  /\ Levels \subseteq Int /\ Levels # {}
  /\ NoThread \notin Threads

VARIABLES
  live,         \* between log_init and log_destroy
  mutex,        \* the thread inside a log call that holds log_mutex
  first, last,  \* log_first, log_last
  prev, succ,   \* log->prev, log->next
  alive,        \* loggers that are allocated
  level,        \* log->config.level
  pc,           \* where each thread stands in its call
  arg,          \* the logger the call is about, or has come to
  record,       \* the level of the record being logged
  seen,         \* history: loggers whose callback had the record
  order,        \* history: loggers linked and not removed, oldest first
  stale,        \* history: adds since whose read of log_last the list changed
  raced,        \* history: one of these was linked
  broken,       \* history: a logger was removed whose prev was not the one before it
  misused       \* history: a logger was used that is not allocated

list == <<first, last, prev, succ>>
heap == <<alive, level>>
history == <<seen, order, stale, raced, broken, misused>>
vars == <<live, mutex, list, heap, pc, arg, record, history>>

\* Stands for a level nobody looks at.
NoLevel == CHOOSE v \in Levels : TRUE

Linked(l) == \E i \in 1..Len(order) : order[i] = l

\* The loggers but l, which is in the list or not.
Without(l) ==
  IF Linked(l) THEN RemoveAt(order, CHOOSE i \in 1..Len(order) : order[i] = l) ELSE order

Dead(p) == p # Null /\ p \notin alive

\* The logger that was linked before l.
Before(l) ==
  LET i == CHOOSE k \in 1..Len(order) : order[k] = l
  IN IF i = 1 THEN Null ELSE order[i - 1]

Init ==
  /\ live = TRUE /\ mutex = NoThread
  /\ first = Null /\ last = Null
  /\ prev = [l \in Logs |-> Null] /\ succ = [l \in Logs |-> Null]
  /\ alive = {} /\ level = [l \in Logs |-> NoLevel]
  /\ pc = [t \in Threads |-> "idle"]
  /\ arg = [t \in Threads |-> Null]
  /\ record = [t \in Threads |-> NoLevel]
  /\ seen = [t \in Threads |-> <<>>]
  /\ order = <<>> /\ stale = {}
  /\ raced = FALSE /\ broken = FALSE /\ misused = FALSE

\* A call begins.  Nobody logs while log_destroy runs: the caller's duty.  The
\* model ends at a broken list, behind which no behaviour is defined.
Enter(t, to) ==
  /\ live /\ ~broken
  /\ pc[t] = "idle" /\ \A u \in Threads : pc[u] # "destroy"
  /\ pc' = [pc EXCEPT ![t] = to]

Leave(t) ==
  /\ pc' = [pc EXCEPT ![t] = "idle"]
  /\ arg' = [arg EXCEPT ![t] = Null]

\* The list has changed under those who are about to add.
Overtaken(t) == (stale \cup {u \in Threads : pc[u] = "add"}) \ {t}

----------------------------------------------------------------------------
(* sve4_log_add_config.                                                    *)

\* Variants with a plausible mistake, here and below, stand before what they
\* vary; no run uses them.  next is left as malloc returned it:
AddReadNoNext(t, l, v) ==
  /\ Enter(t, "add")
  /\ l \notin alive /\ alive' = alive \cup {l}
  /\ level' = [level EXCEPT ![l] = v]
  /\ arg' = [arg EXCEPT ![t] = l]
  /\ prev' = [prev EXCEPT ![l] = last] /\ succ' = [succ EXCEPT ![l] = "garbage"]
  /\ UNCHANGED <<live, mutex, first, last, record, history>>

\* Variant: prev is not set.
AddReadNoPrev(t, l, v) ==
  /\ Enter(t, "add")
  /\ l \notin alive /\ alive' = alive \cup {l}
  /\ level' = [level EXCEPT ![l] = v]
  /\ arg' = [arg EXCEPT ![t] = l]
  /\ prev' = [prev EXCEPT ![l] = Null] /\ succ' = [succ EXCEPT ![l] = Null]
  /\ UNCHANGED <<live, mutex, first, last, record, history>>

\* The allocation and the read of log_last, without the mutex: it sees the
\* list as it is before or after what another thread does at the time.
AddRead(t, l, v) ==
  /\ Enter(t, "add")
  /\ l \notin alive /\ alive' = alive \cup {l}
  /\ level' = [level EXCEPT ![l] = v]
  /\ arg' = [arg EXCEPT ![t] = l]
  /\ prev' = [prev EXCEPT ![l] = last] /\ succ' = [succ EXCEPT ![l] = Null]
  /\ UNCHANGED <<live, mutex, first, last, record, history>>

AddLink(t) ==
  /\ pc[t] = "add" /\ mutex = NoThread
  /\ IF last # Null THEN succ' = [succ EXCEPT ![last] = arg[t]] /\ UNCHANGED first
                    ELSE first' = arg[t] /\ UNCHANGED succ
  /\ last' = arg[t]
  /\ misused' = (misused \/ Dead(last))
  /\ order' = Append(order, arg[t])
  /\ raced' = (raced \/ t \in stale)
  /\ stale' = Overtaken(t)
  /\ Leave(t)
  /\ UNCHANGED <<live, mutex, prev, heap, record, seen, broken>>

----------------------------------------------------------------------------
(* sve4_log_remove_log and sve4_log_destroy.                               *)

\* Variant: removing the last logger leaves log_last behind.
UnlinkKeepingLast(l) ==
  /\ succ' = [e \in Logs |-> CASE e = l -> Null [] e = prev[l] -> succ[l] [] OTHER -> succ[e]]
  /\ prev' = [e \in Logs |-> CASE e = l -> Null [] e = succ[l] -> prev[l] [] OTHER -> prev[e]]
  /\ first' = IF prev[l] # Null THEN first ELSE succ[l]
  /\ alive' = alive \ {l}
  /\ misused' = (misused \/ Dead(l) \/ Dead(prev[l]) \/ Dead(succ[l]))
  /\ level' = [level EXCEPT ![l] = NoLevel]
  /\ UNCHANGED last

\* The logger is unlinked and freed.  (What freed memory holds is not told
\* apart: its fields are reset.)
Unlink(l) ==
  /\ succ' = [e \in Logs |-> CASE e = l -> Null [] e = prev[l] -> succ[l] [] OTHER -> succ[e]]
  /\ prev' = [e \in Logs |-> CASE e = l -> Null [] e = succ[l] -> prev[l] [] OTHER -> prev[e]]
  /\ first' = IF prev[l] # Null THEN first ELSE succ[l]
  /\ last' = IF succ[l] # Null THEN last ELSE prev[l]
  /\ alive' = alive \ {l}
  /\ misused' = (misused \/ Dead(l) \/ Dead(prev[l]) \/ Dead(succ[l]))
  /\ level' = [level EXCEPT ![l] = NoLevel]

\* What removing l does beside unlinking it.
Removed(t, l) ==
  /\ broken' = (broken \/ ~Linked(l) \/ prev[l] # Before(l))
  /\ order' = Without(l)
  /\ stale' = Overtaken(t)

\* Each logger is removed once, by whoever has its handle.
RemoveCall(t, l) ==
  /\ Enter(t, "remove")
  /\ Linked(l) /\ \A u \in Threads : ~(pc[u] = "remove" /\ arg[u] = l)
  /\ arg' = [arg EXCEPT ![t] = l]
  /\ UNCHANGED <<live, mutex, list, heap, record, history>>

RemoveLog(t) ==
  /\ pc[t] = "remove" /\ mutex = NoThread
  /\ Unlink(arg[t])
  /\ Removed(t, arg[t])
  /\ Leave(t)
  /\ UNCHANGED <<live, mutex, record, seen, raced>>

\* Destruction is the last call, when no other is under way.
Destroy(t) ==
  /\ \A u \in Threads : pc[u] = "idle"
  /\ Enter(t, "destroy")
  /\ UNCHANGED <<live, mutex, list, heap, arg, record, history>>

DestroyRemove(t) ==
  /\ pc[t] = "destroy" /\ first # Null
  /\ Unlink(first)
  /\ Removed(t, first)
  /\ UNCHANGED <<live, mutex, pc, arg, record, seen, raced>>

DestroyEnd(t) ==
  /\ pc[t] = "destroy" /\ first = Null
  /\ live' = FALSE
  /\ Leave(t)
  /\ UNCHANGED <<mutex, list, heap, record, history>>

\* sve4_log_init makes the mutex and leaves the list as it finds it.
Reinit ==
  /\ ~live
  /\ live' = TRUE
  /\ UNCHANGED <<mutex, list, heap, pc, arg, record, history>>

----------------------------------------------------------------------------
(* sve4_glogv.                                                             *)

LogCall(t, v) ==
  /\ Enter(t, "log")
  /\ record' = [record EXCEPT ![t] = v]
  /\ UNCHANGED <<live, mutex, list, heap, arg, history>>

\* Variant: the list is walked without the mutex.
LogLockNothing(t) ==
  /\ pc[t] = "log"
  /\ pc' = [pc EXCEPT ![t] = "walk"]
  /\ arg' = [arg EXCEPT ![t] = first]
  /\ seen' = [seen EXCEPT ![t] = <<>>]
  /\ UNCHANGED <<live, mutex, list, heap, record, order, stale, raced, broken, misused>>

LogLock(t) ==
  /\ pc[t] = "log" /\ mutex = NoThread /\ ~broken
  /\ mutex' = t
  /\ pc' = [pc EXCEPT ![t] = "walk"]
  /\ arg' = [arg EXCEPT ![t] = first]
  /\ UNCHANGED <<live, list, heap, record, history>>

\* Variant: a logger does not take the records of its own level.
TakesAbove(l, v) == level[l] < v

Takes(l, v) == level[l] <= v

\* One iteration: the callback of a logger that takes records of the level.
Visit(t) ==
  /\ pc[t] = "walk" /\ arg[t] # Null
  /\ seen' = [seen EXCEPT ![t] = IF Takes(arg[t], record[t]) THEN Append(@, arg[t]) ELSE @]
  /\ misused' = (misused \/ Dead(arg[t]))
  /\ arg' = [arg EXCEPT ![t] = succ[arg[t]]]
  /\ UNCHANGED <<live, mutex, list, heap, pc, record, order, stale, raced, broken>>

\* Variant: the mutex is not given back.
LogDoneLocked(t) ==
  /\ pc[t] = "walk" /\ arg[t] = Null
  /\ record' = [record EXCEPT ![t] = NoLevel]
  /\ seen' = [seen EXCEPT ![t] = <<>>]
  /\ Leave(t)
  /\ UNCHANGED <<live, mutex, list, heap, order, stale, raced, broken, misused>>

LogDone(t) ==
  /\ pc[t] = "walk" /\ arg[t] = Null
  /\ mutex' = NoThread
  /\ record' = [record EXCEPT ![t] = NoLevel]
  /\ seen' = [seen EXCEPT ![t] = <<>>]
  /\ Leave(t)
  /\ UNCHANGED <<live, list, heap, order, stale, raced, broken, misused>>

----------------------------------------------------------------------------
\* What a thread does once in a call.
Step(t) ==
  \/ AddLink(t) \/ RemoveLog(t) \/ DestroyRemove(t) \/ DestroyEnd(t)
  \/ LogLock(t) \/ Visit(t) \/ LogDone(t)

Next ==
  \/ Reinit
  \/ \E t \in Threads :
       \/ \E l \in Logs, v \in Levels : AddRead(t, l, v)
       \/ \E l \in Logs : RemoveCall(t, l)
       \/ Destroy(t)
       \/ \E v \in Levels : LogCall(t, v)
       \/ Step(t)

\* A broken list, with nothing left that the model can say.
Undefined == broken /\ UNCHANGED vars

Spec == Init /\ [][Next \/ Undefined]_vars

\* A thread inside a call goes on, and is not for ever refused the mutex.
Fairness == \A t \in Threads : SF_vars(Step(t))

FairSpec == Spec /\ Fairness

----------------------------------------------------------------------------
Pointer == Logs \cup {Null}

TypeOK ==
  /\ live \in BOOLEAN /\ mutex \in Threads \cup {NoThread}
  /\ first \in Pointer /\ last \in Pointer
  /\ prev \in [Logs -> Pointer] /\ succ \in [Logs -> Pointer]
  /\ alive \subseteq Logs /\ level \in [Logs -> Levels]
  /\ pc \in [Threads -> {"idle", "add", "remove", "destroy", "log", "walk"}]
  /\ arg \in [Threads -> Pointer]
  /\ record \in [Threads -> Levels]
  /\ seen \in [Threads -> Seq(Logs)]
  /\ order \in Seq(Logs) /\ stale \subseteq Threads
  /\ raced \in BOOLEAN /\ broken \in BOOLEAN /\ misused \in BOOLEAN

\* What a log call walks is the loggers added and not removed, each once and
\* oldest first.  An add whose predecessor is out of date does no harm to it:
\* only removing a logger with a wrong predecessor does.
WalkIntact ==
  ~broken =>
    /\ first = IF order = <<>> THEN Null ELSE Head(order)
    /\ last = IF order = <<>> THEN Null ELSE order[Len(order)]
    /\ \A i \in 1..Len(order) :
         succ[order[i]] = IF i = Len(order) THEN Null ELSE order[i + 1]

\* Predecessors are right, whatever is added and removed, as long as no add
\* was overtaken by another add or by a remove between line 155, where it
\* reads the end of the list, and line 159, where it takes the mutex.
PredecessorsRight ==
  ~raced => \A i \in 1..Len(order) : prev[order[i]] = Before(order[i])

\* Of the n oldest loggers those have had t's record that take its level, each
\* once and the oldest first, and no others.
HadRecord(t, n) ==
  /\ \A k \in 1..n :
       (level[order[k]] <= record[t]) <=> \E i \in 1..Len(seen[t]) : seen[t][i] = order[k]
  /\ \A i \in 1..Len(seen[t]) : \E k \in 1..n : seen[t][i] = order[k]
  /\ \A i, j \in 1..Len(seen[t]), k, m \in 1..n :
       i < j /\ seen[t][i] = order[k] /\ seen[t][j] = order[m] => k < m

\* Each logger has each record of its level once, and none in between is left
\* out, though loggers come and go while a thread logs.
Delivered ==
  \A t \in Threads : pc[t] = "walk" /\ arg[t] = Null => HadRecord(t, Len(order))

\* log_destroy frees every logger and leaves the list as log_init, which does
\* not clear it, has to find it.
CleanEnd == ~live => alive = {} /\ first = Null /\ last = Null

\* No logger is used, by a walk, an add or a remove, after it was freed, and
\* none is left when the registry is destroyed.
NoUseAfterRemove == ~broken => ~misused /\ CleanEnd

\* Every call returns: none is kept from the mutex for ever, no walk and no
\* destruction goes on without end, up to a broken list.
CallsEnd == \A t \in Threads : (pc[t] # "idle") ~> (pc[t] = "idle" \/ broken)
=============================================================================
