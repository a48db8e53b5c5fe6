----------------------------- MODULE Allocator -----------------------------
(***************************************************************************)
(* Allocators of libsve4_utils (allocator.c, arena.c): a caller gives some *)
(* of the four functions and sve4_allocator_impl_missing makes the others  *)
(* of these.  The entries of a table are the names of functions: those of  *)
(* the caller have the name of their entry.  A block is the sequence of    *)
(* its bytes, of which only where they come from is told apart.            *)
(***************************************************************************)
EXTENDS Integers, Sequences

VARIABLES
  request,       \* the allocator, and what is asked of it, or no request
  reply          \* what the function returned, and if the old block is freed

allocVars == <<request, reply>>

NoRequest == [op |-> "none"]
NoReply == [reply |-> "none"]

Allocating == {"alloc", "calloc", "grow"}
FunctionNames == Allocating \cup {"free"}
Missing == "missing"

Unknown == "unknown"   \* a byte that nobody wrote
Zero == "zero"
Bytes(n, byte) == [i \in 1..n |-> byte]

\* What a function returns, a block or NULL; or it is not there, or calls
\* itself for ever.
Block(bytes) == [kind |-> "block", bytes |-> bytes]
NoBlock == [kind |-> "null", bytes |-> <<>>]
Never == [kind |-> "never", bytes |-> <<>>]

\* What a caller may give, at least one that allocates, and what the
\* initialiser of arena.h and the allocator behind NULL give.
Provided == {p \in SUBSET FunctionNames : p \cap Allocating # {}}
ArenaProvides == {"alloc", "grow", "free"}
LibcProvides == FunctionNames

\* The table as the caller made it.
Raw(given) == [f \in FunctionNames |-> IF f \in given THEN f ELSE Missing]

\* Variant with a plausible mistake; no run uses it.  As the one line for alloc
\* takes the caller's calloc, the next one takes its alloc:
ImplMissingAlike(table) ==
  LET alloc == IF table.alloc # Missing THEN table.alloc
               ELSE IF table.calloc # Missing THEN table.calloc ELSE "alloc_based_on_grow"
  IN [alloc |-> alloc,
      calloc |-> IF table.calloc # Missing THEN table.calloc ELSE alloc,
      grow |-> IF table.grow # Missing THEN table.grow ELSE "grow_based_on_alloc",
      free |-> IF table.free # Missing THEN table.free ELSE "default_free"]

\* sve4_allocator_impl_missing, line after line: each sees those before it.
ImplMissing(table) ==
  LET alloc == IF table.alloc # Missing THEN table.alloc
               ELSE IF table.calloc # Missing THEN table.calloc ELSE "alloc_based_on_grow"
      calloc == IF table.calloc # Missing THEN table.calloc
                ELSE IF alloc # Missing THEN "calloc_based_on_alloc" ELSE "calloc_based_on_grow"
      grow == IF table.grow # Missing THEN table.grow
              ELSE IF alloc # Missing THEN "grow_based_on_alloc" ELSE "grow_based_on_calloc"
  IN [alloc |-> alloc, calloc |-> calloc, grow |-> grow,
      free |-> IF table.free # Missing THEN table.free ELSE "default_free"]

\* The functions that the caller gave: there is memory, or they return NULL (for
\* no bytes at all they may do so although there is, and "freed" the old block).
Outcomes == {"memory", "null", "freed"}

Fresh(n, byte, outcome) ==
  IF outcome = "memory" THEN Block(Bytes(n, byte)) ELSE NoBlock

\* memset of a new block, and memcpy of what it and the old one have room for.
Cleared(new) == [new EXCEPT !.bytes = Bytes(Len(new.bytes), Zero)]

Copied(new, old) ==
  [new EXCEPT !.bytes = [i \in 1..Len(new.bytes) |-> IF i <= Len(old.bytes) THEN old.bytes[i]
                                                     ELSE new.bytes[i]]]

\* What f returns that is asked for a new block; `calls` is what it gets from
\* the functions of the table that it calls.
NewBlock(f, n, outcome, calls) ==
  CASE f \in {"alloc", "grow"}                         -> Fresh(n, Unknown, outcome)
    [] f = "calloc"                                    -> Fresh(n, Zero, outcome)
    [] f = "alloc_based_on_grow"                       -> calls.grow
    [] f = "calloc_based_on_alloc"                     -> Cleared(calls.alloc)
    [] f = "calloc_based_on_grow"                      -> Cleared(calls.grow)
    [] f = "grow_based_on_alloc"                       -> calls.alloc
    [] f = "grow_based_on_calloc"                      -> calls.calloc
    [] f = Missing                                     -> Never

Called(table, n, outcome, calls) ==
  [f \in Allocating |-> NewBlock(table[f], n, outcome, calls)]

\* Calls nest as deep as there are functions in the table: a chain of more would
\* come back to one of them, for ever.
New(table, n, outcome) ==
  Called(table, n, outcome, Called(table, n, outcome, Called(table, n, outcome,
    [f \in Allocating |-> Never])))

\* The end of grow_based_on_alloc and grow_based_on_calloc: an allocator that
\* has no free of its own never gives back a block.
Moved(table, old, new) ==
  [block |-> Copied(new, old),
   freed |-> new.kind = "block" /\ old.kind = "block" /\ table.free = "free"]

Grow(table, old, n, outcome) ==
  CASE table.grow = "grow" ->
         [block |-> Copied(Fresh(n, Unknown, outcome), old),
          freed |-> old.kind = "block" /\ outcome # "null"]
    [] table.grow = "grow_based_on_alloc" -> Moved(table, old, New(table, n, outcome).alloc)
    [] table.grow = "grow_based_on_calloc" -> Moved(table, old, New(table, n, outcome).calloc)
    [] table.grow = Missing -> [block |-> Never, freed |-> FALSE]

\* sve4_malloc, sve4_calloc, sve4_realloc and sve4_aligned_realloc.
Uses(op, old) ==
  CASE op = "malloc" -> "alloc" [] op = "calloc" -> "calloc" [] op = "realloc" -> "grow"
    [] op = "aligned_realloc" -> IF old.kind = "null" THEN "alloc" ELSE "grow"

Allocate(table, op, old, n, outcome) ==
  LET f == Uses(op, old)
  IN IF f = "grow" THEN Grow(table, old, n, outcome)
     ELSE [block |-> New(table, n, outcome)[f], freed |-> FALSE]

\* The table that is used: completed, or libc's, which is whole as it is.
Table(r) == IF r.complete THEN ImplMissing(Raw(r.given)) ELSE Raw(r.given)

Operations == {"malloc", "calloc", "realloc", "aligned_realloc"}

AllocInit == request = NoRequest /\ reply = NoReply

AllocCall(given, complete, op, old, n, outcome) ==
  /\ request = NoRequest
  /\ complete \/ given = LibcProvides
  /\ outcome = "freed" => n = 0
  /\ request' = [given |-> given, complete |-> complete, op |-> op, old |-> old, n |-> n,
                 outcome |-> outcome]
  /\ UNCHANGED reply

AllocReply ==
  /\ request # NoRequest /\ reply = NoReply
  /\ reply' = [reply |-> "given",
               result |-> Allocate(Table(request), request.op, request.old, request.n, request.outcome)]
  /\ UNCHANGED request

AllocReturn ==
  /\ reply # NoReply
  /\ request' = NoRequest /\ reply' = NoReply

AllocNext ==
  \/ \E given \in Provided, complete \in BOOLEAN, op \in Operations,
        old \in {NoBlock} \cup {Block(b) : b \in Seq(STRING)}, n \in Nat, outcome \in Outcomes :
       AllocCall(given, complete, op, old, n, outcome)
  \/ AllocReply \/ AllocReturn

AllocSpec == AllocInit /\ [][AllocNext]_allocVars

----------------------------------------------------------------------------
\* The functions return, with NULL only if the caller's functions did; memory of
\* calloc is zero, a block that grows or shrinks keeps its bytes, one that could
\* not stays as it is, and none is left behind (unless there is nothing to give
\* it back with).  Nothing is said about the old block of a realloc to no bytes
\* if the caller's own functions say nothing, but that it is not freed by others.
ActsLikeLibc(given, op, old, n, outcome, result) ==
  LET moves == old.kind = "block" /\ op \in {"realloc", "aligned_realloc"}
      mayFree == given \cap {"grow", "free"} # {}
  IN /\ result.block.kind = (IF outcome = "memory" THEN "block" ELSE "null")
     /\ outcome = "memory" =>
          /\ Len(result.block.bytes) = n
          /\ op = "calloc" => \A i \in 1..n : result.block.bytes[i] = Zero
          /\ moves => \A i \in 1..n : i <= Len(old.bytes) => result.block.bytes[i] = old.bytes[i]
     /\ result.freed => moves /\ mayFree
     /\ moves /\ n > 0 => result.freed = (outcome = "memory" /\ mayFree)

\* Whichever functions an allocator was given, it acts as one given all of them:
\* those that it was not given are made of those that it was, and not of each
\* other.
FallbacksKeep ==
  reply # NoReply =>
    ActsLikeLibc(request.given, request.op, request.old, request.n, request.outcome, reply.result)
=============================================================================
