------------------------------ MODULE ReadUrl ------------------------------
(***************************************************************************)
(* sve4_decode_read_url of libsve4_decode/read.c: one call that reads what *)
(* a URL yields, into memory of the caller or its own, at once when a size *)
(* is known and otherwise page by page.  A byte is its place in the file.  *)
(***************************************************************************)
EXTENDS Integers, Sequences

CONSTANTS
  MaxSize,    \* bound: bytes that a URL yields
  PageSize,   \* bytes in a page_t
  IntMax,     \* INT_MAX
  SizeMax     \* SIZE_MAX: the caller sets no limit, or no size is known

ASSUME ReadAssumption ==
  /\ MaxSize \in Nat /\ PageSize \in Nat \ {0} /\ IntMax \in Nat \ {0}
  /\ SizeMax \in Nat /\ SizeMax > MaxSize

VARIABLES
  api,        \* whose functions the build reads with: "ffmpeg" or "stdio"
  stage,      \* where the call stands
  mine,       \* needs_alloc: *buffer was NULL
  limit,      \* to_read
  bufsize,    \* *bufsize
  buffer,     \* the bytes at *buffer when the call returns
  target,     \* the bytes in the buffer or page that is read to
  pages,      \* the data of the linked pages
  size, pos,  \* bytes that the URL yields, and of them read
  held,       \* what the call has open or allocated
  result

readVars == <<api, stage, mine, limit, bufsize, buffer, target, pages, size, pos, held, result>>

\* A size_t turned into an int.
AsInt(n) ==
  LET m == n % (2 * (IntMax + 1)) IN IF m > IntMax THEN m - 2 * (IntMax + 1) ELSE m

ReadInit ==
  /\ api \in {"ffmpeg", "stdio"}
  /\ stage = "idle" /\ mine = FALSE /\ limit = 0 /\ bufsize = 0 /\ buffer = <<>>
  /\ target = <<>> /\ pages = <<>> /\ size = 0 /\ pos = 0
  /\ held = {} /\ result = "none"

\* The caller has taken what the call returned, and no call is under way.
GoIdle ==
  /\ stage' = "idle" /\ mine' = FALSE /\ limit' = 0 /\ bufsize' = 0 /\ buffer' = <<>>
  /\ target' = <<>> /\ pages' = <<>> /\ size' = 0 /\ pos' = 0
  /\ held' = {} /\ result' = "none"
  /\ UNCHANGED api

Call(own, n) ==
  /\ stage = "idle" /\ stage' = "open"
  /\ mine' = own /\ bufsize' = n
  /\ UNCHANGED <<api, limit, buffer, target, pages, size, pos, held, result>>

\* Ways to return.
Return(r, kept) == stage' = "done" /\ result' = r /\ held' = kept

OpenFails ==
  /\ stage = "open" /\ Return("error", {})
  /\ UNCHANGED <<api, mine, limit, bufsize, buffer, target, pages, size, pos>>

\* What the URL yields may be another thing each time it is opened.
OpenFile ==
  /\ stage = "open"
  /\ size' \in 0..MaxSize
  /\ held' = {"file"}
  /\ limit' = bufsize
  /\ stage' = IF bufsize = SizeMax THEN "size" ELSE "alloc"
  /\ UNCHANGED <<api, mine, bufsize, buffer, target, pages, pos, result>>

----------------------------------------------------------------------------
\* The size that is reported need not be what is there to read.
GetSize ==
  /\ stage = "size" /\ stage' = "alloc"
  /\ limit' \in 0..MaxSize
  /\ UNCHANGED <<api, mine, bufsize, buffer, target, pages, size, pos, held, result>>

\* UNIMPLEMENTED, as for a pipe, is no error.
GetSizeUnknown ==
  /\ stage = "size" /\ stage' = "alloc"
  /\ UNCHANGED <<api, mine, limit, bufsize, buffer, target, pages, size, pos, held, result>>

GetSizeFails ==
  /\ stage = "size" /\ Return("error", {})
  /\ UNCHANGED <<api, mine, limit, bufsize, buffer, target, pages, size, pos>>

\* if (buf || to_read < SIZE_MAX), the other way round.
Paged == mine /\ limit = SizeMax

\* Memory for the whole file, or for the next page.
Alloc ==
  /\ stage = "alloc" /\ stage' = "read"
  /\ held' = held \cup (IF Paged THEN {"pages"} ELSE IF mine THEN {"buffer"} ELSE {})
  /\ target' = <<>>
  /\ UNCHANGED <<api, mine, limit, bufsize, buffer, pages, size, pos, result>>

AllocFails ==
  /\ stage = "alloc" /\ mine
  /\ Return("error", {})
  /\ UNCHANGED <<api, mine, limit, bufsize, buffer, target, pages, size, pos>>

----------------------------------------------------------------------------
(* read_func: the loops of stdio_read_func and ffmpeg_read_func.           *)

Want == (IF Paged THEN PageSize ELSE limit) - Len(target)

\* avio_read takes an int.
Asked == IF api = "ffmpeg" THEN AsInt(Want) ELSE Want

\* Variants with a plausible mistake, here and below, stand before what they
\* vary; no run uses them.  Each turn of the loop writes from the front:
ReadSomeInFront ==
  /\ stage = "read" /\ Want > 0
  /\ \E n \in 1..(size - pos) :
       /\ n <= Asked
       /\ target' = [i \in 1..n |-> pos + i] \o target
       /\ pos' = pos + n
  /\ UNCHANGED <<api, stage, mine, limit, bufsize, buffer, pages, size, held, result>>

\* fread and avio_read may return less than they were asked for.
ReadSome ==
  /\ stage = "read" /\ Want > 0
  /\ \E n \in 1..(size - pos) :
       /\ n <= Asked
       /\ target' = target \o [i \in 1..n |-> pos + i]
       /\ pos' = pos + n
  /\ UNCHANGED <<api, stage, mine, limit, bufsize, buffer, pages, size, held, result>>

\* Asked for zero or fewer bytes, avio_read returns zero: the loop goes round.
ReadNothing ==
  /\ stage = "read" /\ Want > 0 /\ Asked <= 0 /\ pos < size
  /\ UNCHANGED readVars

\* Variant: a failed read leaves the memory allocated.
ReadFailsKeeping ==
  /\ stage = "read" /\ Want > 0
  /\ Return("error", held \ {"file"})
  /\ bufsize' = IF Paged \/ api = "ffmpeg" THEN bufsize ELSE Len(target)
  /\ UNCHANGED <<api, mine, limit, buffer, target, pages, size, pos>>

\* File, pages and own memory are given back.  Of the two only stdio says how
\* much it had read.
ReadFails ==
  /\ stage = "read" /\ Want > 0
  /\ Return("error", {})
  /\ bufsize' = IF Paged \/ api = "ffmpeg" THEN bufsize ELSE Len(target)
  /\ UNCHANGED <<api, mine, limit, buffer, target, pages, size, pos>>

\* The buffer is full or the file at its end.
ReadEnds == stage = "read" /\ (Want = 0 \/ pos = size)

\* Read at once: an end of file before the first byte is no error here.
ReadWhole ==
  /\ ReadEnds /\ ~Paged
  /\ Return("ok", held \ {"file"})
  /\ buffer' = target /\ bufsize' = Len(target)
  /\ UNCHANGED <<api, mine, limit, target, pages, size, pos>>

PageRead ==
  /\ ReadEnds /\ Paged /\ target # <<>>
  /\ pages' = Append(pages, target)
  /\ stage' = "alloc"
  /\ UNCHANGED <<api, mine, limit, bufsize, buffer, target, size, pos, held, result>>

\* Variant: a page without a byte does not end the loop.
PagesEndNever ==
  /\ ReadEnds /\ Paged /\ target = <<>>
  /\ stage' = "alloc"
  /\ UNCHANGED <<api, mine, limit, bufsize, buffer, target, pages, size, pos, held, result>>

PagesEnd ==
  /\ ReadEnds /\ Paged /\ target = <<>>
  /\ stage' = "join"
  /\ UNCHANGED <<api, mine, limit, bufsize, buffer, target, pages, size, pos, held, result>>

----------------------------------------------------------------------------
\* *buffer is allocated when the last page is known.
Join ==
  /\ stage = "join" /\ stage' = "copy"
  /\ held' = held \cup {"buffer"}
  /\ bufsize' = 0
  /\ UNCHANGED <<api, mine, limit, buffer, target, pages, size, pos, result>>

JoinFails ==
  /\ stage = "join" /\ Return("error", {})
  /\ UNCHANGED <<api, mine, limit, bufsize, buffer, target, pages, size, pos>>

\* What is copied of the page that has come up: all of it, zeros behind the
\* data included, but for the last.
Copied ==
  IF Len(pages) = 1 THEN pages[1]
  ELSE [k \in 1..PageSize |-> IF k <= Len(pages[1]) THEN pages[1][k] ELSE 0]

\* One turn of the loop: `pages` is what is left of the list.
CopyPage ==
  /\ stage = "copy" /\ pages # <<>>
  /\ buffer' = buffer \o Copied
  /\ bufsize' = bufsize + Len(Copied)
  /\ pages' = Tail(pages)
  /\ UNCHANGED <<api, stage, mine, limit, target, size, pos, held, result>>

CopyEnds ==
  /\ stage = "copy" /\ pages = <<>>
  /\ Return("ok", {"buffer"})
  /\ UNCHANGED <<api, mine, limit, bufsize, buffer, target, pages, size, pos>>

ReadStep ==
  \/ OpenFails \/ OpenFile \/ GetSize \/ GetSizeUnknown \/ GetSizeFails
  \/ Alloc \/ AllocFails \/ ReadSome \/ ReadNothing \/ ReadFails
  \/ ReadWhole \/ PageRead \/ PagesEnd
  \/ Join \/ JoinFails \/ CopyPage \/ CopyEnds

----------------------------------------------------------------------------
ReadTypeOK ==
  /\ api \in {"ffmpeg", "stdio"}
  /\ stage \in {"idle", "open", "size", "alloc", "read", "join", "copy", "done"}
  /\ mine \in BOOLEAN
  /\ limit \in Nat /\ bufsize \in Nat
  /\ buffer \in Seq(0..MaxSize) /\ target \in Seq(1..MaxSize)
  /\ pages \in Seq(Seq(1..MaxSize))
  /\ size \in 0..MaxSize /\ pos \in 0..size
  /\ held \subseteq {"file", "pages", "buffer"}
  /\ result \in {"none", "ok", "error"}

\* The caller gets the file from its start, each byte once and in order, and
\* as many as the caller's limit or the size allow: all of them when neither
\* is known.  "On return, *bufsize is updated to the actual number of bytes
\* read" (read.h:21); "assert(total_size == *bufsize)" (line 156).
BytesInOrder ==
  stage = "done" /\ result = "ok" =>
    /\ buffer = [i \in 1..pos |-> i]
    /\ bufsize = pos
    /\ pos = IF limit < size THEN limit ELSE size

\* The conversion of line 249 changes the number of bytes to read.
TooLarge == stage = "read" /\ api = "ffmpeg" /\ Want > IntMax
=============================================================================
