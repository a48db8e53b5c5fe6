---------------------------- MODULE Calls_proofs ----------------------------
(***************************************************************************)
(* Proofs about the functions that keep no state from one call to the next *)
(* (StreamChooser, RamFrame, Allocator, PathShortener) and the callback    *)
(* for FFmpeg's log (LogBridge): what they return, for arguments of any    *)
(* size.  The inductive invariants are those of their loops.               *)
(***************************************************************************)
EXTENDS PathShortener, LogBridge, StreamChooser, RamFrame, Allocator,
        FiniteSetTheorems, SequenceTheorems, TLAPS

----------------------------------------------------------------------------
(* Allocator.                                                              *)

\* What may be asked of an allocator.
OldBlocks == {NoBlock} \cup {Block(b) : b \in Seq(STRING)}

Requests ==
  [given : Provided, complete : BOOLEAN, op : Operations, old : OldBlocks, n : Nat,
   outcome : Outcomes]

AllocInv ==
  /\ request = NoRequest => reply = NoReply
  /\ request # NoRequest =>
       /\ request \in Requests /\ (request.complete \/ request.given = LibcProvides)
       /\ request.outcome = "freed" => request.n = 0
  /\ reply # NoReply =>
       reply.result = Allocate(Table(request), request.op, request.old, request.n, request.outcome)

\* The tables that are used: every function that was not given is made of one
\* that was.
Whole(given, table) ==
  /\ table.alloc = "alloc_based_on_grow" => table.grow = "grow"
  /\ table.alloc \in {"alloc", "calloc", "alloc_based_on_grow"}
  /\ table.calloc \in {"calloc", "calloc_based_on_alloc"}
  /\ table.grow = (IF "grow" \in given THEN "grow" ELSE "grow_based_on_alloc")
  /\ table.free = (IF "free" \in given THEN "free" ELSE "default_free")

LEMMA TableWhole ==
  ASSUME NEW r \in Requests, r.complete \/ r.given = LibcProvides
  PROVE  Whole(r.given, Table(r))
<1> DEFINE raw == Raw(r.given)
<1>1. /\ raw.alloc = (IF "alloc" \in r.given THEN "alloc" ELSE Missing)
      /\ raw.calloc = (IF "calloc" \in r.given THEN "calloc" ELSE Missing)
      /\ raw.grow = (IF "grow" \in r.given THEN "grow" ELSE Missing)
      /\ raw.free = (IF "free" \in r.given THEN "free" ELSE Missing)
  BY DEF Raw, FunctionNames, Allocating
<1>2. "alloc" \in r.given \/ "calloc" \in r.given \/ "grow" \in r.given
  BY DEF Requests, Provided, Allocating
<1> HIDE DEF raw
<1>3. CASE r.complete
  <2>1. Table(r) = ImplMissing(raw)
    BY <1>3 DEF Table, raw
  <2> QED
    BY <1>1, <1>2, <2>1 DEF ImplMissing, Missing, Whole
<1>4. CASE ~r.complete
  <2>1. Table(r) = raw /\ r.given = FunctionNames
    BY <1>4 DEF Table, raw, LibcProvides
  <2> QED
    BY <1>1, <2>1 DEF FunctionNames, Allocating, Whole
<1> QED
  BY <1>3, <1>4

\* The bytes of a new block.
LEMMA NewBytes ==
  ASSUME NEW n \in Nat, NEW byte
  PROVE  Len(Bytes(n, byte)) = n /\ \A i \in 1..n : Bytes(n, byte)[i] = byte
BY DEF Bytes

\* A block that memset cleared is as one of calloc.
LEMMA ClearedFresh ==
  ASSUME NEW n \in Nat, NEW byte, NEW outcome
  PROVE  Cleared(Fresh(n, byte, outcome)) = Fresh(n, Zero, outcome)
<1>1. CASE outcome = "memory"
  <2>1. Fresh(n, byte, outcome) = Block(Bytes(n, byte)) /\ Fresh(n, Zero, outcome) = Block(Bytes(n, Zero))
    BY <1>1 DEF Fresh
  <2>2. Len(Bytes(n, byte)) = n
    BY NewBytes
  <2>3. Cleared(Block(Bytes(n, byte))) = Block(Bytes(Len(Bytes(n, byte)), Zero))
    BY DEF Cleared, Block
  <2> QED
    BY <2>1, <2>2, <2>3
<1>2. CASE outcome # "memory"
  <2>1. Fresh(n, byte, outcome) = NoBlock /\ Fresh(n, Zero, outcome) = NoBlock
    BY <1>2 DEF Fresh
  <2>2. Bytes(0, Zero) = <<>>
    BY DEF Bytes
  <2>3. Cleared(NoBlock) = [NoBlock EXCEPT !.bytes = Bytes(Len(<<>>), Zero)]
    BY DEF Cleared, NoBlock
  <2>4. Len(<<>>) = 0
    OBVIOUS
  <2>5. Cleared(NoBlock) = NoBlock
    BY <2>2, <2>3, <2>4 DEF NoBlock
  <2> QED
    BY <2>1, <2>5
<1> QED
  BY <1>1, <1>2

\* What comes of asking a whole table for a new block.
LEMMA NewIsFresh ==
  ASSUME NEW given, NEW table, Whole(given, table), NEW n \in Nat, NEW outcome
  PROVE  /\ \E byte : New(table, n, outcome).alloc = Fresh(n, byte, outcome)
         /\ New(table, n, outcome).calloc = Fresh(n, Zero, outcome)
<1> DEFINE Calls(below) == Called(table, n, outcome, below)
           first == Calls([f \in Allocating |-> Never])
           second == Calls(first)
           third == Calls(second)
<1>1. \A below : /\ Calls(below).alloc = NewBlock(table.alloc, n, outcome, below)
                 /\ Calls(below).calloc = NewBlock(table.calloc, n, outcome, below)
                 /\ Calls(below).grow = NewBlock(table.grow, n, outcome, below)
  BY DEF Called, Allocating
<1>2. New(table, n, outcome) = third
  BY DEF New
<1> HIDE DEF Calls
<1>3. ASSUME NEW below
      PROVE  /\ table.grow = "grow" => Calls(below).grow = Fresh(n, Unknown, outcome)
             /\ table.alloc = "alloc" => Calls(below).alloc = Fresh(n, Unknown, outcome)
             /\ table.alloc = "calloc" => Calls(below).alloc = Fresh(n, Zero, outcome)
             /\ table.alloc = "alloc_based_on_grow" => Calls(below).alloc = below.grow
             /\ table.calloc = "calloc" => Calls(below).calloc = Fresh(n, Zero, outcome)
             /\ table.calloc = "calloc_based_on_alloc" => Calls(below).calloc = Cleared(below.alloc)
  BY <1>1 DEF NewBlock, Missing
<1>4. ASSUME NEW below
      PROVE  \E byte : Calls(Calls(below)).alloc = Fresh(n, byte, outcome)
  <2>1. CASE table.alloc = "alloc" \/ table.alloc = "calloc"
    BY <1>3, <2>1
  <2>2. CASE table.alloc = "alloc_based_on_grow"
    <3>1. table.grow = "grow"
      BY <2>2 DEF Whole
    <3>2. Calls(Calls(below)).alloc = Fresh(n, Unknown, outcome)
      BY <1>3, <2>2, <3>1
    <3> QED
      BY <3>2
  <2> QED
    BY <2>1, <2>2 DEF Whole
<1>5. \E byte : second.alloc = Fresh(n, byte, outcome)
  BY <1>4
<1>6. \E byte : third.alloc = Fresh(n, byte, outcome)
  BY <1>4
<1>7. third.calloc = Fresh(n, Zero, outcome)
  <2>1. CASE table.calloc = "calloc"
    BY <1>3, <2>1
  <2>2. CASE table.calloc = "calloc_based_on_alloc"
    <3> HIDE DEF second
    <3>1. third.calloc = Cleared(second.alloc)
      BY <1>3, <2>2
    <3> QED
      BY <1>5, <3>1, ClearedFresh
  <2> QED
    BY <2>1, <2>2 DEF Whole
<1> QED
  BY <1>2, <1>6, <1>7

\* A block that is moved keeps its bytes.
LEMMA CopiedFresh ==
  ASSUME NEW n \in Nat, NEW byte, NEW outcome, NEW old
  PROVE  LET block == Copied(Fresh(n, byte, outcome), old)
         IN /\ block.kind = Fresh(n, byte, outcome).kind
            /\ outcome = "memory" => Len(block.bytes) = n
            /\ outcome = "memory" => \A i \in 1..n : i <= Len(old.bytes) => block.bytes[i] = old.bytes[i]
<1> DEFINE new == Fresh(n, byte, outcome)
           bytes == [i \in 1..Len(new.bytes) |-> IF i <= Len(old.bytes) THEN old.bytes[i]
                                                 ELSE new.bytes[i]]
<1>1. new \in {Block(Bytes(n, byte)), NoBlock} /\ (outcome = "memory" => new = Block(Bytes(n, byte)))
  BY DEF Fresh
<1>2. Copied(new, old) = [new EXCEPT !.bytes = bytes]
  BY DEF Copied
<1>3. outcome = "memory" => new.bytes = Bytes(n, byte)
  BY <1>1 DEF Block
<1>4. DOMAIN new = {"kind", "bytes"}
  BY <1>1 DEF Block, NoBlock
<1> HIDE DEF new, bytes
<1>5. Copied(new, old).kind = new.kind /\ Copied(new, old).bytes = bytes
  BY <1>2, <1>4
<1>6. ASSUME outcome = "memory"
      PROVE  Len(bytes) = n /\ \A i \in 1..n : i <= Len(old.bytes) => bytes[i] = old.bytes[i]
  <2>1. Len(new.bytes) = n
    BY <1>3, <1>6, NewBytes
  <2> QED
    BY <2>1 DEF bytes
<1> QED
  BY <1>5, <1>6 DEF new

\* With a whole table each function does what libc's does.
LEMMA LikeLibc ==
  ASSUME NEW given, NEW table, Whole(given, table), NEW op \in Operations, NEW old \in OldBlocks,
         NEW n \in Nat, NEW outcome \in Outcomes, outcome = "freed" => n = 0
  PROVE  ActsLikeLibc(given, op, old, n, outcome, Allocate(table, op, old, n, outcome))
<1> DEFINE result == Allocate(table, op, old, n, outcome)
           moves == old.kind = "block" /\ op \in {"realloc", "aligned_realloc"}
           mayFree == given \cap {"grow", "free"} # {}
<1>1. old.kind \in {"block", "null"}
  BY DEF OldBlocks, Block, NoBlock
<1>2. Uses(op, old) = CASE op = "malloc" -> "alloc" [] op = "calloc" -> "calloc" [] op = "realloc" -> "grow"
                        [] op = "aligned_realloc" -> IF old.kind = "null" THEN "alloc" ELSE "grow"
  BY DEF Uses
<1>3. \A byte : /\ Fresh(n, byte, outcome).kind = IF outcome = "memory" THEN "block" ELSE "null"
                /\ outcome = "memory" => Fresh(n, byte, outcome).bytes = Bytes(n, byte)
  BY DEF Fresh, Block, NoBlock
<1>4. PICK byte : New(table, n, outcome).alloc = Fresh(n, byte, outcome)
  BY NewIsFresh
<1>5. CASE Uses(op, old) # "grow"
  <2>1. ~moves /\ Uses(op, old) \in {"alloc", "calloc"} /\ (op = "calloc" <=> Uses(op, old) = "calloc")
    BY <1>1, <1>2, <1>5 DEF Operations
  <2>2. PICK b : result.block = Fresh(n, b, outcome) /\ (op = "calloc" => b = Zero)
    <3>1. result.block = New(table, n, outcome)[Uses(op, old)]
      BY <1>5 DEF Allocate
    <3>2. CASE op = "calloc"
      BY <2>1, <3>1, <3>2, NewIsFresh
    <3>3. CASE op # "calloc"
      BY <1>4, <2>1, <3>1, <3>3
    <3> QED
      BY <3>2, <3>3
  <2>3. result.freed = FALSE
    BY <1>5 DEF Allocate
  <2> HIDE DEF result
  <2>4. outcome = "memory" =>
          /\ Len(result.block.bytes) = n
          /\ op = "calloc" => \A i \in 1..n : result.block.bytes[i] = Zero
    BY <1>3, <2>2, NewBytes
  <2>5. result.block.kind = IF outcome = "memory" THEN "block" ELSE "null"
    BY <1>3, <2>2
  <2>6. ActsLikeLibc(given, op, old, n, outcome, result)
    BY <2>1, <2>3, <2>4, <2>5 DEF ActsLikeLibc
  <2> QED
    BY <2>6 DEF result
<1>6. CASE Uses(op, old) = "grow"
  <2>1. op \in {"realloc", "aligned_realloc"} /\ op # "calloc" /\ (moves <=> old.kind = "block")
    BY <1>2, <1>6 DEF Operations
  <2>2. result = Grow(table, old, n, outcome)
    BY <1>6 DEF Allocate
  <2>3. PICK b : result.block = Copied(Fresh(n, b, outcome), old)
    <3>1. CASE table.grow = "grow"
      BY <2>2, <3>1 DEF Grow, Missing
    <3>2. CASE table.grow = "grow_based_on_alloc"
      <4>1. result = Moved(table, old, Fresh(n, byte, outcome))
        BY <1>4, <2>2, <3>2 DEF Grow, Missing
      <4> QED
        BY <4>1 DEF Moved
    <3> QED
      BY <3>1, <3>2 DEF Whole
  <2>4. /\ result.freed => old.kind = "block" /\ mayFree
        /\ old.kind = "block" /\ n > 0 => result.freed = (outcome = "memory" /\ mayFree)
    <3>1. CASE table.grow = "grow"
      <4>1. result.freed = (old.kind = "block" /\ outcome # "null")
        BY <2>2, <3>1 DEF Grow, Missing
      <4>2. mayFree
        BY <3>1 DEF Whole
      <4>3. n > 0 => (outcome # "null" <=> outcome = "memory")
        BY DEF Outcomes
      <4> HIDE DEF result, mayFree
      <4> QED
        BY <4>1, <4>2, <4>3
    <3>2. CASE table.grow = "grow_based_on_alloc"
      <4>1. result = Moved(table, old, Fresh(n, byte, outcome))
        BY <1>4, <2>2, <3>2 DEF Grow, Missing
      <4>2. result.freed = (outcome = "memory" /\ old.kind = "block" /\ table.free = "free")
        BY <1>3, <4>1 DEF Moved
      <4>3. mayFree <=> table.free = "free"
        BY <3>2 DEF Whole
      <4> QED
        BY <4>2, <4>3
    <3> QED
      BY <3>1, <3>2 DEF Whole
  <2> HIDE DEF result
  <2>5. /\ result.block.kind = (IF outcome = "memory" THEN "block" ELSE "null")
        /\ outcome = "memory" =>
             /\ Len(result.block.bytes) = n
             /\ \A i \in 1..n : i <= Len(old.bytes) => result.block.bytes[i] = old.bytes[i]
    BY <1>3, <2>3, CopiedFresh
  <2>6. ActsLikeLibc(given, op, old, n, outcome, result)
    BY <2>1, <2>4, <2>5 DEF ActsLikeLibc
  <2> QED
    BY <2>6 DEF result
<1> QED
  BY <1>5, <1>6

\* Whichever functions an allocator was given, it acts as one given all of them.
THEOREM FallbacksActLikeLibc == AllocSpec => []FallbacksKeep
<1>1. AllocInit => AllocInv
  BY DEF AllocInit, AllocInv
<1>2. AllocInv /\ [AllocNext]_allocVars => AllocInv'
  <2> SUFFICES ASSUME AllocInv, [AllocNext]_allocVars PROVE AllocInv'
    OBVIOUS
  <2>1. ASSUME NEW given \in Provided, NEW complete \in BOOLEAN, NEW op \in Operations,
               NEW old \in OldBlocks, NEW n \in Nat, NEW outcome \in Outcomes,
               AllocCall(given, complete, op, old, n, outcome)
        PROVE  AllocInv'
    <3>1. /\ request' \in Requests /\ (request'.complete \/ request'.given = LibcProvides)
          /\ request'.outcome = "freed" => request'.n = 0
      BY <2>1 DEF AllocCall, Requests
    <3>2. reply' = NoReply
      BY <2>1 DEF AllocCall, AllocInv
    <3> QED
      BY <3>1, <3>2 DEF AllocInv
  <2>2. CASE AllocReply
    BY <2>2 DEF AllocReply, AllocInv
  <2>3. CASE AllocReturn
    BY <2>3 DEF AllocReturn, AllocInv
  <2>4. CASE UNCHANGED allocVars
    BY <2>4 DEF allocVars, AllocInv
  <2> QED
    BY <2>1, <2>2, <2>3, <2>4 DEF AllocNext, OldBlocks
<1>3. AllocInv => FallbacksKeep
  <2> SUFFICES ASSUME AllocInv, reply # NoReply
               PROVE  ActsLikeLibc(request.given, request.op, request.old, request.n,
                                   request.outcome, reply.result)
    BY DEF FallbacksKeep
  <2>1. /\ request \in Requests /\ (request.complete \/ request.given = LibcProvides)
        /\ request.outcome = "freed" => request.n = 0
        /\ reply.result = Allocate(Table(request), request.op, request.old, request.n, request.outcome)
    BY DEF AllocInv
  <2>2. Whole(request.given, Table(request))
    BY <2>1, TableWhole
  <2>3. /\ request.op \in Operations /\ request.n \in Nat /\ request.outcome \in Outcomes
        /\ request.old \in OldBlocks
    BY <2>1 DEF Requests
  <2> QED
    BY <2>1, <2>2, <2>3, LikeLibc
<1> QED
  BY <1>1, <1>2, <1>3, PTL DEF AllocSpec

----------------------------------------------------------------------------
(* RamFrame.                                                               *)

\* What a loop over the planes has laid out so far.
Laid(i) ==
  /\ offsets[i] >= FrameHeader /\ End(i) <= size
  /\ offsets[i] % frame.aligns[i] = 0
  /\ linesizes[i] = Linesize(frame.fmt, i, frame.width, frame.aligns[i])
  /\ \A k \in 1..Len(offsets) : i < k => End(i) <= offsets[k]

FrameInv ==
  laying # "idle" =>
    /\ frame.fmt \in Formats /\ frame.width \in Nat \ {0} /\ frame.height \in Nat \ {0}
    /\ frame.aligns \in Seq(Alignments) /\ Len(frame.aligns) = NumPlanes(frame.fmt)
    /\ size \in Nat /\ size >= FrameHeader
    /\ offsets \in Seq(Nat) /\ linesizes \in Seq(Nat) /\ Len(linesizes) = Len(offsets)
    /\ Len(offsets) <= NumPlanes(frame.fmt)
    /\ laying = "done" =>
         /\ Len(offsets) = NumPlanes(frame.fmt)
         /\ \E k \in Nat : address = k * MallocAlign + BufferHeader
    /\ \A i \in 1..Len(offsets) : Laid(i)

\* sve4_align_up gives a multiple that is not less.
LEMMA AlignedUp ==
  ASSUME NEW n \in Nat, NEW align \in Nat \ {0}
  PROVE  /\ AlignUp(n, align) \in Nat /\ AlignUp(n, align) >= n
         /\ AlignUp(n, align) % align = 0
<1> DEFINE m == n + align - 1
           q == m \div align
<1>1. m \in Nat /\ q \in Nat
  OBVIOUS
<1>2. PICK r \in 0..(align - 1) : m = align * q + r
  <2>1. m = align * q + (m % align) /\ m % align \in 0..(align - 1)
    OBVIOUS
  <2> QED
    BY <2>1
<1>3. AlignUp(n, align) = q * align
  BY DEF AlignUp
<1> HIDE DEF q
<1>4. q * align \in Nat /\ q * align = align * q /\ (q * align) % align = 0
  BY <1>1
<1>5. q * align >= n
  <2>1. PICK p \in Nat : p = q * align
    BY <1>4
  <2>2. n + align - 1 = p + r
    BY <1>2, <1>4, <2>1
  <2>3. p >= n
    BY <2>2
  <2> QED
    BY <2>1, <2>3
<1> QED
  BY <1>3, <1>4, <1>5

\* Every format has planes, and rows of some bytes in them.
LEMMA FormatRows ==
  ASSUME NEW fmt \in Formats, NEW width \in Nat
  PROVE  /\ NumPlanes(fmt) \in {1, 3}
         /\ \A i \in 1..NumPlanes(fmt) : Row(fmt, i, width) \in Nat
<1> DEFINE packed == fmt \in {Ffmpeg(f) : f \in {"RGBA", "ARGB"}}
<1>1. CASE fmt.source = "default"
  BY <1>1 DEF NumPlanes, Row
<1>2. CASE packed
  <2>1. fmt.source = "ffmpeg" /\ fmt.pixfmt # "YUV420P"
    BY <1>2 DEF Ffmpeg
  <2>2. FfmpegLines(fmt.pixfmt, 1) = <<4 * 1>> /\ FfmpegLines(fmt.pixfmt, width) = <<4 * width>>
    BY <2>1 DEF FfmpegLines
  <2>3. fmt.source # "default" /\ Len(<<4 * 1>>) = 1 /\ <<4 * width>>[1] = 4 * width
    BY <2>1
  <2>4. NumPlanes(fmt) = 1 /\ Row(fmt, 1, width) = 4 * width
    BY <2>2, <2>3 DEF NumPlanes, Row
  <2> QED
    BY <2>4
<1>3. CASE fmt = Ffmpeg("YUV420P")
  <2>1. fmt.source = "ffmpeg" /\ fmt.pixfmt = "YUV420P"
    BY <1>3 DEF Ffmpeg
  <2>2. NumPlanes(fmt) = 3
    BY <2>1 DEF NumPlanes, FfmpegLines
  <2>3. \A i \in 1..3 : Row(fmt, i, width) = IF i = 1 THEN width ELSE (width + 1) \div 2
    BY <2>1 DEF Row, FfmpegLines
  <2> QED
    BY <2>2, <2>3
<1>4. fmt.source = "default" \/ fmt \in {Ffmpeg(f) : f \in {"RGBA", "ARGB", "YUV420P"}}
  BY DEF Formats, Default
<1>5. fmt.source = "default" \/ packed \/ fmt = Ffmpeg("YUV420P")
  BY <1>4
<1> HIDE DEF packed
<1> QED
  BY <1>1, <1>2, <1>3, <1>5

\* Formats that are taken for equal have the same planes.
LEMMA EqualFormats ==
  ASSUME NEW fmt \in Formats, NEW other \in Formats, PixfmtEq(fmt, other), NEW width \in Nat
  PROVE  /\ NumPlanes(fmt) = NumPlanes(other)
         /\ \A i \in 1..NumPlanes(fmt) : Row(fmt, i, width) = Row(other, i, width)
<1> DEFINE Packed(f) == f = Ffmpeg("RGBA") \/ f = Ffmpeg("ARGB") \/ f.source = "default"
<1>1. \A f \in Formats : f = Ffmpeg("YUV420P") \/ Packed(f)
  BY DEF Formats, Default
<1>2. \A f \in Formats : Packed(f) =>
        NumPlanes(f) = 1 /\ \A i \in 1..1 : Row(f, i, width) = 4 * width
  BY DEF NumPlanes, Row, FfmpegLines, Ffmpeg
<1>3. \A f \in Formats : Packed(f) => Canonicalize(f) # Ffmpeg("YUV420P")
  BY DEF Canonicalize, Ffmpeg, Default
<1>4. Canonicalize(Ffmpeg("YUV420P")) = Ffmpeg("YUV420P")
  BY DEF Canonicalize, Ffmpeg
<1>5. Canonicalize(fmt) = Canonicalize(other)
  BY DEF PixfmtEq
<1> HIDE DEF Packed
<1>6. CASE fmt = Ffmpeg("YUV420P")
  <2>1. other = fmt
    BY <1>1, <1>3, <1>4, <1>5, <1>6
  <2> QED
    BY <2>1
<1>7. CASE Packed(fmt)
  <2>1. Packed(other)
    BY <1>1, <1>3, <1>4, <1>5, <1>7
  <2> QED
    BY <1>2, <1>7, <2>1
<1> QED
  BY <1>1, <1>6, <1>7

\* A multiple has a factor; multiples of multiples are such, and so are sums.
LEMMA Factor ==
  ASSUME NEW a \in Nat \ {0}, NEW y \in Nat, y % a = 0
  PROVE  \E p \in Nat : y = p * a
<1>1. y = a * (y \div a) + (y % a) /\ y \div a \in Nat
  OBVIOUS
<1> DEFINE p == y \div a
<1>2. p \in Nat /\ y = a * p
  BY <1>1
<1> HIDE DEF p
<1>3. y = p * a
  BY <1>2
<1> QED
  BY <1>2, <1>3

LEMMA MultipleTimes ==
  ASSUME NEW a \in Nat \ {0}, NEW m \in Nat, NEW k \in Nat, m % a = 0
  PROVE  k * m \in Nat /\ (k * m) % a = 0
<1>1. PICK p \in Nat : m = p * a
  BY Factor
<1>2. k * m = (k * p) * a
  BY <1>1
<1> DEFINE kp == k * p
<1>3. kp \in Nat
  OBVIOUS
<1> HIDE DEF kp
<1>4. (kp * a) % a = 0 /\ kp * a \in Nat
  BY <1>3
<1> QED
  BY <1>2, <1>4 DEF kp

LEMMA MultipleSum ==
  ASSUME NEW a \in Nat \ {0}, NEW x \in Nat, NEW y \in Nat, x % a = 0, y % a = 0
  PROVE  x + y \in Nat /\ (x + y) % a = 0
<1>1. PICK p \in Nat : x = p * a
  BY Factor
<1>2. PICK q \in Nat : y = q * a
  BY Factor
<1>3. x + y = (p + q) * a
  BY <1>1, <1>2
<1> DEFINE n == p + q
<1>4. n \in Nat
  OBVIOUS
<1> HIDE DEF n
<1>5. (n * a) % a = 0
  BY <1>4
<1> QED
  BY <1>3, <1>5 DEF n

\* The next plane is behind what is laid out, and nothing laid out moves.
LEMMA PlaneLaid ==
  ASSUME FrameInv, Plane
  PROVE  FrameInv'
<1> USE FrameAssumption
<1> DEFINE plane == Len(offsets) + 1
           align == frame.aligns[plane]
           linesize == Linesize(frame.fmt, plane, frame.width, align)
           offset == AlignUp(size, align)
<1>1. /\ laying = "loop" /\ plane <= NumPlanes(frame.fmt)
      /\ offsets' = Append(offsets, offset) /\ linesizes' = Append(linesizes, linesize)
      /\ size' = offset + linesize * frame.height
      /\ laying' = laying /\ frame' = frame
  BY DEF Plane
<1>2. /\ frame.fmt \in Formats /\ frame.width \in Nat \ {0} /\ frame.height \in Nat \ {0}
      /\ frame.aligns \in Seq(Alignments) /\ Len(frame.aligns) = NumPlanes(frame.fmt)
      /\ size \in Nat /\ size >= FrameHeader
      /\ offsets \in Seq(Nat) /\ linesizes \in Seq(Nat) /\ Len(linesizes) = Len(offsets)
      /\ \A i \in 1..Len(offsets) : Laid(i)
  BY <1>1 DEF FrameInv
<1>3. plane \in 1..Len(frame.aligns) /\ align \in Nat \ {0}
  <2>1. plane \in 1..Len(frame.aligns)
    BY <1>1, <1>2
  <2>2. align \in Alignments
    BY <1>2, <2>1
  <2> QED
    BY <2>1, <2>2
<1>4. /\ linesize \in Nat /\ offset \in Nat /\ offset >= size /\ offset % align = 0
  <2>1. Row(frame.fmt, plane, frame.width) \in Nat
    BY <1>2, <1>3, FormatRows
  <2> HIDE DEF plane, align
  <2> QED
    BY <1>2, <1>3, <2>1, AlignedUp DEF Linesize
<1>5. PICK rows \in Nat : rows = linesize * frame.height
  <2> HIDE DEF linesize
  <2> QED
    BY <1>2, <1>4
<1>6. /\ offsets' \in Seq(Nat) /\ linesizes' \in Seq(Nat) /\ Len(linesizes') = Len(offsets')
      /\ Len(offsets') = plane
      /\ \A i \in 1..Len(offsets) : offsets'[i] = offsets[i] /\ linesizes'[i] = linesizes[i]
      /\ offsets'[plane] = offset /\ linesizes'[plane] = linesize
  <2> HIDE DEF linesize, offset
  <2> QED
    BY <1>1, <1>2, <1>4
<1>7. size' \in Nat /\ size' >= offset /\ size' >= size /\ size' >= FrameHeader
  <2> HIDE DEF linesize, offset
  <2>1. size' = offset + rows
    BY <1>1, <1>5
  <2>2. /\ rows \in Nat /\ offset \in Nat /\ size \in Nat /\ FrameHeader \in Nat
        /\ offset >= size /\ size >= FrameHeader
    BY <1>2, <1>4, FrameAssumption
  <2> QED
    BY <2>1, <2>2
<1>8. \A i \in 1..Len(offsets) : End(i)' = End(i) /\ End(i) <= size /\ End(i) \in Nat
  <2> TAKE i \in 1..Len(offsets)
  <2>1. offsets[i] \in Nat /\ linesizes[i] \in Nat
    <3>1. offsets \in Seq(Nat) /\ linesizes \in Seq(Nat) /\ Len(linesizes) = Len(offsets)
      BY <1>2
    <3> QED
      BY <3>1
  <2>2. linesizes[i] * frame.height \in Nat
    BY <1>2, <2>1
  <2>3. End(i) \in Nat
    BY <2>1, <2>2 DEF End
  <2>4. End(i)' = End(i)
    BY <1>1, <1>6 DEF End
  <2> QED
    BY <1>2, <2>3, <2>4 DEF Laid
<1>9. ASSUME NEW i, i = plane PROVE End(i)' = size'
  <2> HIDE DEF plane, linesize, offset
  <2> QED
    BY <1>1, <1>6, <1>9 DEF End
<1>10. ASSUME NEW i \in 1..Len(offsets') PROVE Laid(i)'
  <2>1. CASE i = plane
    <3>1. offsets'[i] >= FrameHeader /\ End(i)' <= size'
      <4> HIDE DEF offset, plane
      <4> QED
        BY <1>2, <1>4, <1>6, <1>7, <1>9, <2>1
    <3>2. offsets'[i] % frame'.aligns[i] = 0
      BY <1>1, <1>4, <1>6, <2>1
    <3>3. linesizes'[i] = Linesize(frame'.fmt, i, frame'.width, frame'.aligns[i])
      BY <1>1, <1>6, <2>1
    <3>4. \A k \in 1..Len(offsets') : ~(i < k)
      BY <1>2, <1>6, <2>1
    <3> QED
      BY <3>1, <3>2, <3>3, <3>4 DEF Laid
  <2>2. CASE i \in 1..Len(offsets)
    <3>1. Laid(i) /\ End(i)' = End(i) /\ offsets'[i] = offsets[i] /\ linesizes'[i] = linesizes[i]
      BY <1>2, <1>6, <1>8, <2>2
    <3>2. End(i)' <= size'
      <4> HIDE DEF offset
      <4> QED
        BY <1>2, <1>7, <1>8, <2>2, <3>1
    <3>3. \A k \in 1..Len(offsets') : i < k => End(i)' <= offsets'[k]
      <4> SUFFICES ASSUME NEW k \in 1..Len(offsets'), i < k PROVE End(i) <= offsets'[k]
        BY <3>1
      <4>1. CASE k = plane
        <5> HIDE DEF offset
        <5> QED
          BY <1>2, <1>4, <1>6, <1>8, <2>2, <4>1
      <4>2. CASE k \in 1..Len(offsets)
        BY <1>6, <3>1, <4>2 DEF Laid
      <4>3. k = plane \/ k \in 1..Len(offsets)
        <5> HIDE DEF End
        <5>1. Len(offsets) \in Nat /\ k \in 1..(Len(offsets) + 1)
          BY <1>2, <1>6
        <5> QED
          BY <5>1
      <4> QED
        BY <4>1, <4>2, <4>3
    <3> QED
      BY <1>1, <3>1, <3>2, <3>3 DEF Laid
  <2> QED
    BY <1>2, <1>6, <2>1, <2>2
<1> HIDE DEF offset, linesize, align
<1>11. Len(offsets') <= NumPlanes(frame.fmt)
  BY <1>1, <1>6
<1> QED
  BY <1>1, <1>2, <1>6, <1>7, <1>10, <1>11 DEF FrameInv

\* Planes do not overlap, whatever the format, the alignments and the size of the
\* frame, as long as that is one which can be computed; and they begin where
\* their alignment wants, if malloc and the header of the buffer let them.
THEOREM PlanesKeptApart == FrameSpec => []PlanesApart
<1>1. FrameInit => FrameInv
  BY DEF FrameInit, FrameInv
<1>2. FrameInv /\ [FrameNext]_frameVars => FrameInv'
  <2> SUFFICES ASSUME FrameInv, [FrameNext]_frameVars PROVE FrameInv'
    OBVIOUS
  <2> USE FrameAssumption
  <2>1. CASE Plane
    BY <2>1, PlaneLaid
  <2>2. ASSUME NEW k \in Nat, FrameCreate(k * MallocAlign) PROVE FrameInv'
    <3>1. /\ laying = "loop" /\ Len(offsets) = NumPlanes(frame.fmt)
          /\ frame' = frame /\ size' = size /\ offsets' = offsets /\ linesizes' = linesizes
      BY <2>2 DEF FrameCreate, LaidOut
    <3>2. \E m \in Nat : address' = m * MallocAlign + BufferHeader
      BY <2>2 DEF FrameCreate
    <3> QED
      BY <3>1, <3>2 DEF FrameInv, Laid, End
  <2>3. CASE FrameFail \/ FrameFree
    BY <2>3 DEF FrameFail, FrameFree, FrameReset, LaidOut, FrameInv
  <2>4. ASSUME NEW fmt \in Formats, NEW width \in Nat, NEW height \in Nat, NEW aligns \in Seq(Alignments),
               FrameCall(fmt, width, height, aligns)
        PROVE  FrameInv'
    <3>1. /\ laying' = "loop" /\ offsets' = <<>> /\ linesizes' = <<>> /\ size' = FrameHeader
          /\ frame' = [fmt |-> fmt, width |-> width, height |-> height, aligns |-> aligns]
          /\ width > 0 /\ height > 0 /\ Len(aligns) = NumPlanes(fmt)
      BY <2>4 DEF FrameCall
    <3>2. NumPlanes(fmt) \in {1, 3}
      BY FormatRows
    <3> QED
      BY <3>1, <3>2 DEF FrameInv
  <2>5. CASE UNCHANGED frameVars
    BY <2>5 DEF frameVars, FrameInv, Laid, End
  <2> QED
    BY <2>1, <2>2, <2>3, <2>4, <2>5 DEF FrameNext, FrameStep
<1>3. FrameInv => PlanesApart
  <2> SUFFICES ASSUME FrameInv, laying = "done" PROVE PlanesApart
    BY DEF PlanesApart
  <2>1. /\ frame.fmt \in Formats /\ frame.width \in Nat
        /\ frame.aligns \in Seq(Alignments) /\ Len(frame.aligns) = NumPlanes(frame.fmt)
        /\ Len(offsets) = NumPlanes(frame.fmt)
        /\ \A i \in 1..Len(offsets) : Laid(i)
    BY DEF FrameInv
  <2>2. ASSUME NEW i \in 1..Len(offsets)
        PROVE  /\ linesizes[i] >= Row(frame.fmt, i, frame.width)
               /\ linesizes[i] % frame.aligns[i] = 0
    <3>1. frame.aligns[i] \in Alignments
      BY <2>1
    <3>2. frame.aligns[i] \in Nat \ {0} /\ Row(frame.fmt, i, frame.width) \in Nat
      BY <2>1, <3>1, FormatRows, FrameAssumption
    <3>3. Laid(i)
      BY <2>1
    <3>4. linesizes[i] = AlignUp(Row(frame.fmt, i, frame.width), frame.aligns[i])
      BY <3>3 DEF Laid, Linesize
    <3>5. \A n \in Nat, align \in Nat \ {0} : AlignUp(n, align) >= n /\ AlignUp(n, align) % align = 0
      BY AlignedUp
    <3> QED
      BY ZenonT(40), <3>2, <3>4, <3>5
  <2>3. ASSUME NEW other \in Formats, PixfmtEq(frame.fmt, other)
        PROVE  /\ Len(offsets) = NumPlanes(other)
               /\ \A i \in 1..Len(offsets) :
                    linesizes[i] = Linesize(other, i, frame.width, frame.aligns[i])
    <3>1. /\ NumPlanes(frame.fmt) = NumPlanes(other)
          /\ \A i \in 1..NumPlanes(frame.fmt) :
               Row(frame.fmt, i, frame.width) = Row(other, i, frame.width)
      BY <2>1, <2>3, EqualFormats
    <3> QED
      BY <2>1, <3>1 DEF Laid, Linesize
  <2>4. ASSUME NEW i \in 1..Len(offsets), AlignmentKept(frame.aligns[i])
        PROVE  (address + offsets[i]) % frame.aligns[i] = 0
    <3> DEFINE a == frame.aligns[i]
               n == offsets[i]
    <3>1. PICK k \in Nat : address = k * MallocAlign + BufferHeader
      BY DEF FrameInv
    <3>2. a \in Nat \ {0}
      <4>1. a \in Alignments
        BY <2>1
      <4> QED
        BY <4>1, FrameAssumption
    <3>3. n \in Nat /\ n % a = 0
      <4>1. offsets \in Seq(Nat) /\ Laid(i)
        BY <2>1 DEF FrameInv
      <4> QED
        BY <4>1 DEF Laid
    <3>4. MallocAlign % a = 0 /\ BufferHeader % a = 0 /\ MallocAlign \in Nat /\ BufferHeader \in Nat
      BY <2>4, FrameAssumption DEF AlignmentKept
    <3> HIDE DEF a, n
    <3> DEFINE block == k * MallocAlign
    <3>5. block \in Nat /\ block % a = 0
      BY <3>1, <3>2, <3>4, MultipleTimes
    <3> HIDE DEF block
    <3>6. address \in Nat /\ address % a = 0
      <4>1. address = block + BufferHeader
        BY <3>1 DEF block
      <4> QED
        BY <3>2, <3>4, <3>5, <4>1, MultipleSum
    <3>7. (address + n) % a = 0
      BY <3>2, <3>3, <3>6, MultipleSum
    <3> QED
      BY <3>7 DEF a, n
  <2> QED
    BY <2>1, <2>2, <2>3, <2>4 DEF PlanesApart, Laid
<1> QED
  BY <1>1, <1>2, <1>3, PTL DEF FrameSpec

----------------------------------------------------------------------------
(* StreamChooser.                                                          *)

\* The streams of the chooser's type among the first n.
Before(n) == {k \in 0..(n - 1) : Stream(k).type = chooser.type}

\* The offset that is left counts the streams of the type that were passed; no
\* stream that was passed is marked.
ChooserInv ==
  /\ choosing \in {"idle", "loop", "chosen"}
  /\ chooser \in Choosers /\ file \in Files /\ position \in 0..Len(file)
  /\ choosing # "idle" => Len(file) < SizeMaximum
  /\ choosing = "loop" /\ chooser.kind = "typed" =>
       left \in Nat /\ left + Cardinality(Before(position)) = chooser.offset
  /\ choosing = "loop" /\ chooser.kind = "default" => \A k \in Marked : position <= k
  /\ choosing = "chosen" /\ chooser.kind = "typed" =>
       \/ /\ index = position /\ position < Len(file) /\ Stream(position).type = chooser.type
          /\ Cardinality(Before(position)) = chooser.offset
       \/ /\ index = SizeMaximum
          /\ Cardinality(Before(Len(file))) <= chooser.offset
  /\ choosing = "chosen" /\ chooser.kind = "default" =>
       \/ /\ index \in Marked /\ \A k \in Marked : index <= k
       \/ /\ index = 0 /\ file # <<>> /\ Marked = {}
       \/ /\ index = SizeMaximum /\ file = <<>>

LEMMA BeforeFinite ==
  ASSUME NEW n \in Nat
  PROVE  IsFiniteSet(Before(n)) /\ Cardinality(Before(n)) \in Nat
<1>1. IsFiniteSet(0..(n - 1))
  BY FS_Interval
<1>2. Before(n) \subseteq 0..(n - 1)
  BY DEF Before
<1> QED
  BY <1>1, <1>2, FS_Subset, FS_CardinalityType

\* One stream more adds one of the type, or none.
LEMMA OneStreamMore ==
  ASSUME NEW n \in Nat
  PROVE  Cardinality(Before(n + 1)) =
           Cardinality(Before(n)) + IF Stream(n).type = chooser.type THEN 1 ELSE 0
<1>1. CASE Stream(n).type = chooser.type
  <2>1. Before(n + 1) = Before(n) \cup {n} /\ n \notin Before(n)
    BY <1>1 DEF Before
  <2>2. IsFiniteSet(Before(n))
    BY BeforeFinite
  <2>3. Cardinality(Before(n) \cup {n}) = Cardinality(Before(n)) + 1
    BY <2>1, <2>2, FS_AddElement
  <2> QED
    BY <1>1, <2>1, <2>3
<1>2. CASE Stream(n).type # chooser.type
  <2>1. Before(n + 1) = Before(n)
    BY <1>2 DEF Before
  <2>2. Cardinality(Before(n)) \in Nat
    BY BeforeFinite
  <2> QED
    BY <1>2, <2>1, <2>2
<1> QED
  BY <1>1, <1>2

\* An iteration counts the stream it passes.
LEMMA TypedCounts ==
  ASSUME ChooserInv, TypedIteration
  PROVE  ChooserInv'
<1> USE ChooserAssumption
<1>1. /\ choosing = "loop" /\ chooser.kind = "typed" /\ position < Len(file)
      /\ chooser' = chooser /\ file' = file
  BY DEF TypedIteration
<1>2. /\ chooser \in Choosers /\ file \in Files /\ position \in Nat /\ Len(file) \in Nat
      /\ Len(file) < SizeMaximum
      /\ left \in Nat /\ left + Cardinality(Before(position)) = chooser.offset
  BY <1>1 DEF ChooserInv, Files
<1>3. chooser.offset \in 0..(OffsetSpan - 1)
  BY <1>1, <1>2 DEF Choosers
<1>4. PICK c \in Nat : c = Cardinality(Before(position))
  BY <1>2, BeforeFinite
<1>5. left \in 0..(OffsetSpan - 1)
  BY <1>2, <1>3, <1>4
<1>6. \A n : Before(n)' = Before(n) /\ Stream(n)' = Stream(n)
  BY <1>1 DEF Before, Stream
<1>7. CASE Stream(position).type = chooser.type /\ left = 0
  <2>1. choosing' = "chosen" /\ index' = position /\ position' = position
    BY <1>7 DEF TypedIteration, Choose
  <2>2. Cardinality(Before(position)) = chooser.offset
    BY <1>2, <1>4, <1>7
  <2> QED
    BY <1>1, <1>2, <1>6, <1>7, <2>1, <2>2 DEF ChooserInv
<1>8. CASE Stream(position).type = chooser.type /\ left # 0
  <2>1. choosing' = "loop" /\ position' = position + 1 /\ left' = (left - 1) % OffsetSpan
    BY <1>1, <1>8 DEF TypedIteration, GoOn
  <2>2. left' = left - 1 /\ left' \in Nat
    BY <1>5, <1>8, <2>1
  <2>3. Cardinality(Before(position + 1)) = c + 1
    BY <1>2, <1>4, <1>8, OneStreamMore
  <2>4. left' + Cardinality(Before(position + 1)) = chooser.offset
    BY <1>2, <1>4, <2>2, <2>3
  <2> QED
    BY <1>1, <1>2, <1>6, <2>1, <2>2, <2>4 DEF ChooserInv
<1>9. CASE Stream(position).type # chooser.type
  <2>1. choosing' = "loop" /\ position' = position + 1 /\ left' = left
    BY <1>1, <1>9 DEF TypedIteration, GoOn
  <2>2. Cardinality(Before(position + 1)) = c
    BY <1>2, <1>4, <1>9, OneStreamMore
  <2> QED
    BY <1>1, <1>2, <1>4, <1>6, <2>1, <2>2 DEF ChooserInv
<1> QED
  BY <1>7, <1>8, <1>9

\* A decoder gets the stream it was opened for, of a file with any streams.
THEOREM StreamIsTheChosen == ChooserSpec => []ChoosesStream
<1> USE ChooserAssumption
<1>1. ChooserInit => ChooserInv
  BY DEF ChooserInit, ChooserInv, Choosers, Files
<1>2. ChooserInv /\ [ChooserNext]_chooserVars => ChooserInv'
  <2> SUFFICES ASSUME ChooserInv, [ChooserNext]_chooserVars PROVE ChooserInv'
    OBVIOUS
  <2>1. /\ chooser \in Choosers /\ file \in Files /\ position \in 0..Len(file) /\ Len(file) \in Nat
    BY DEF ChooserInv, Files
  <2>2. CASE TypedIteration
    BY <2>2, TypedCounts
  <2>3. CASE TypedNone
    <3>1. /\ choosing = "loop" /\ chooser.kind = "typed" /\ position = Len(file)
          /\ choosing' = "chosen" /\ index' = SizeMaximum
          /\ position' = position /\ chooser' = chooser /\ file' = file
      BY <2>3 DEF TypedNone, Choose
    <3>2. /\ left \in Nat /\ left + Cardinality(Before(position)) = chooser.offset
          /\ Len(file) < SizeMaximum
      BY <3>1 DEF ChooserInv
    <3>3. Cardinality(Before(position)) \in Nat
      BY <2>1, BeforeFinite
    <3>4. Cardinality(Before(Len(file))) <= chooser.offset
      BY <3>1, <3>2, <3>3
    <3>5. Before(Len(file))' = Before(Len(file))
      BY <3>1 DEF Before, Stream
    <3> QED
      BY <2>1, <3>1, <3>2, <3>4, <3>5 DEF ChooserInv
  <2>4. CASE DefaultIteration
    <3>1. /\ choosing = "loop" /\ chooser.kind = "default" /\ position < Len(file)
          /\ chooser' = chooser /\ file' = file /\ Marked' = Marked
          /\ Len(file) < SizeMaximum /\ \A k \in Marked : position <= k
      BY <2>4 DEF DefaultIteration, ChooserInv, Marked, Stream
    <3>2. CASE Stream(position).default
      <4>1. choosing' = "chosen" /\ index' = position /\ position' = position
        BY <2>4, <3>2 DEF DefaultIteration, Choose
      <4>2. position \in Marked
        BY <2>1, <3>1, <3>2 DEF Marked
      <4> QED
        BY <2>1, <3>1, <4>1, <4>2 DEF ChooserInv
    <3>3. CASE ~Stream(position).default
      <4>1. choosing' = "loop" /\ position' = position + 1
        BY <2>4, <3>1, <3>3 DEF DefaultIteration, GoOn
      <4>2. \A k \in Marked : position + 1 <= k
        BY <2>1, <3>1, <3>3 DEF Marked
      <4> QED
        BY <2>1, <3>1, <4>1, <4>2 DEF ChooserInv
    <3> QED
      BY <3>2, <3>3
  <2>5. CASE DefaultNone
    <3>1. /\ choosing = "loop" /\ chooser.kind = "default" /\ position = Len(file)
          /\ choosing' = "chosen" /\ index' = (IF file = <<>> THEN SizeMaximum ELSE 0)
          /\ position' = position /\ chooser' = chooser /\ file' = file /\ Marked' = Marked
          /\ Len(file) < SizeMaximum /\ \A k \in Marked : position <= k
      BY <2>5 DEF DefaultNone, Choose, ChooserInv, Marked, Stream
    <3>2. Marked = {}
      BY <2>1, <3>1 DEF Marked
    <3> QED
      BY <2>1, <3>1, <3>2 DEF ChooserInv
  <2>6. CASE UserChoice
    BY <2>6 DEF UserChoice, Choose, ChooserInv
  <2>7. CASE ChooseReturn
    BY <2>7 DEF ChooseReturn, ChooserInv, Choosers, Files
  <2>8. ASSUME NEW c \in Choosers, NEW f \in Files, ChooseCall(c, f) PROVE ChooserInv'
    <3>1. /\ choosing' = "loop" /\ chooser' = c /\ file' = f /\ position' = 0
          /\ left' = (IF c.kind = "typed" THEN c.offset ELSE 0)
          /\ Len(f) < SizeMaximum /\ Len(f) \in Nat
      BY <2>8 DEF ChooseCall, Files
    <3>2. c.kind = "typed" => c.offset \in 0..(OffsetSpan - 1)
      BY DEF Choosers
    <3>3. Before(0)' = {}
      BY DEF Before
    <3>4. Cardinality(Before(0)') = 0
      BY <3>3, FS_EmptySet
    <3>5. \A k \in Marked' : 0 <= k
      BY <3>1 DEF Marked
    <3>6. c.kind = "typed" => left' \in Nat /\ left' + Cardinality(Before(0)') = c.offset
      BY <3>1, <3>2, <3>4
    <3> QED
      BY <3>1, <3>5, <3>6 DEF ChooserInv
  <2>9. CASE UNCHANGED chooserVars
    BY <2>9 DEF chooserVars, ChooserInv, Before, Marked, Stream
  <2> QED
    BY <2>2, <2>3, <2>4, <2>5, <2>6, <2>7, <2>8, <2>9 DEF ChooserNext, ChooserStep
<1>3. ChooserInv => ChoosesStream
  <2> SUFFICES ASSUME ChooserInv, choosing = "chosen" PROVE ChoosesStream
    BY DEF ChoosesStream
  <2>1. Len(file) \in Nat /\ Len(file) < SizeMaximum /\ position \in 0..Len(file)
    BY DEF ChooserInv, Files
  <2>2. OfType(chooser.type) = Before(Len(file))
    BY DEF OfType, Before
  <2>3. ASSUME chooser.kind = "typed"
        PROVE  IF Accepted
               THEN /\ index \in OfType(chooser.type)
                    /\ Cardinality({k \in OfType(chooser.type) : k < index}) = chooser.offset
               ELSE Cardinality(OfType(chooser.type)) <= chooser.offset
    <3>1. CASE /\ index = position /\ position < Len(file) /\ Stream(position).type = chooser.type
               /\ Cardinality(Before(position)) = chooser.offset
      <4>1. Accepted /\ index \in OfType(chooser.type)
        BY <2>1, <3>1 DEF Accepted, OfType
      <4>2. {k \in OfType(chooser.type) : k < index} = Before(position)
        BY <2>1, <3>1 DEF OfType, Before
      <4> QED
        BY <3>1, <4>1, <4>2
    <3>2. CASE index = SizeMaximum /\ Cardinality(Before(Len(file))) <= chooser.offset
      <4>1. ~Accepted
        BY <2>1, <3>2 DEF Accepted
      <4> QED
        BY <2>2, <3>2, <4>1
    <3> QED
      BY <2>3, <3>1, <3>2 DEF ChooserInv
  <2>4. ASSUME chooser.kind = "default"
        PROVE  IF Accepted
               THEN /\ index < Len(file) /\ \A k \in Marked : index <= k
                    /\ index \in IF Marked = {} THEN {0} ELSE Marked
               ELSE file = <<>>
    <3>1. CASE index \in Marked /\ \A k \in Marked : index <= k
      <4>1. index \in 0..(Len(file) - 1)
        BY <3>1 DEF Marked
      <4>2. Accepted /\ index < Len(file)
        BY <2>1, <4>1 DEF Accepted
      <4> QED
        BY <3>1, <4>2
    <3>2. CASE index = 0 /\ file # <<>> /\ Marked = {}
      <4>1. Len(file) > 0
        BY <3>2 DEF ChooserInv, Files
      <4>2. Accepted
        BY <2>1, <3>2, <4>1 DEF Accepted
      <4> QED
        BY <3>2, <4>1, <4>2
    <3>3. CASE index = SizeMaximum /\ file = <<>>
      BY <2>1, <3>3 DEF Accepted
    <3> QED
      BY <2>4, <3>1, <3>2, <3>3 DEF ChooserInv
  <2> QED
    BY <2>3, <2>4 DEF ChoosesStream
<1> QED
  BY <1>1, <1>2, <1>3, PTL DEF ChooserSpec

----------------------------------------------------------------------------
(* LogBridge.  The state of one thread: w is what it wrote and v with which *)
(* levels, f its FIFO, d what is left of the call and l its level, g its   *)
(* lines and e where they end.                                             *)

SvLevels == {"debug", "info", "warning", "error"}
LogLines == [text : Seq(Characters), level : SvLevels]

\* Where line i begins.
From(e, i) == IF i = 1 THEN 0 ELSE e[i - 1]

Short(w) ==
  \A i, k \in 1..Len(w) : k >= i + FifoLimit => \E j \in i..(k - 1) : w[j] = NewLine

Texts(w, v, f, d, l, g, e) ==
  /\ w \in Seq(Characters) /\ f \in Seq(Characters) /\ d \in Seq(Characters)
  /\ v \in Seq(AvLevels) /\ Len(v) = Len(w) /\ l \in AvLevels
  /\ g \in Seq(LogLines) /\ e \in Seq(Nat) /\ Len(e) = Len(g) /\ Len(d) <= Len(w)

LineOf(w, v, line, from, to) ==
  /\ from \in Nat /\ to \in 1..Len(w) /\ from < to /\ Len(line.text) = to - from
  /\ \A k \in 1..(to - from) : line.text[k] = w[from + k]
  /\ line.level = Level(v[to])
  /\ w[to] = NewLine /\ \A k \in (from + 1)..(to - 1) : w[k] # NewLine

\* What is in no line yet is, character by character, in f and then d.
WholeSoFar(w, v, f, d, l, g, e) ==
  LET last == From(e, Len(e) + 1)
  IN /\ last \in Nat /\ last + Len(f) + Len(d) = Len(w)
     /\ \A i \in 1..Len(f) : f[i] = w[last + i] /\ f[i] # NewLine
     /\ \A i \in 1..Len(d) : d[i] = w[last + Len(f) + i] /\ v[last + Len(f) + i] = l
     /\ \A i \in 1..Len(e) : LineOf(w, v, g[i], From(e, i), e[i])

\* The level l for n characters.
Each(n, l) == [i \in 1..n |-> l]

\* A thread that logs more begins with what it wrote before.
LoggedMore(w, v, more, l, w2, v2) ==
  /\ w2 \in Seq(Characters) /\ v2 \in Seq(AvLevels)
  /\ Len(w2) = Len(w) + Len(more) /\ Len(v2) = Len(w2)
  /\ \A i \in 1..Len(w) : w2[i] = w[i] /\ v2[i] = v[i]
  /\ \A i \in 1..Len(more) : w2[Len(w) + i] = more[i] /\ v2[Len(w) + i] = l

LEMMA LogsMore ==
  ASSUME NEW w \in Seq(Characters), NEW more \in Seq(Characters),
         NEW v \in Seq(AvLevels), Len(v) = Len(w), NEW l \in AvLevels,
         NEW w2, NEW v2, w2 = w \o more, v2 = v \o Each(Len(more), l)
  PROVE  LoggedMore(w, v, more, l, w2, v2)
<1> DEFINE same == Each(Len(more), l)
<1>1. same \in Seq(AvLevels) /\ Len(same) = Len(more) /\ \A i \in 1..Len(more) : same[i] = l
  BY DEF Each
<1> HIDE DEF same
<1>2. /\ w \o more \in Seq(Characters) /\ Len(w \o more) = Len(w) + Len(more)
      /\ \A i \in 1..(Len(w) + Len(more)) :
           (w \o more)[i] = IF i <= Len(w) THEN w[i] ELSE more[i - Len(w)]
  BY ConcatProperties
<1>3. /\ v \o same \in Seq(AvLevels) /\ Len(v \o same) = Len(v) + Len(same)
      /\ \A i \in 1..(Len(v) + Len(same)) :
           (v \o same)[i] = IF i <= Len(v) THEN v[i] ELSE same[i - Len(v)]
  BY ZenonT(40), <1>1, ConcatProperties
<1>4. \A i \in 1..Len(w) : (w \o more)[i] = w[i] /\ (v \o same)[i] = v[i]
  BY <1>1, <1>2, <1>3
<1>5. \A i \in 1..Len(more) : (w \o more)[Len(w) + i] = more[i] /\ (v \o same)[Len(w) + i] = l
  <2> TAKE i \in 1..Len(more)
  <2>1. Len(w) + i \in 1..(Len(w) + Len(more)) /\ ~(Len(w) + i <= Len(w)) /\ (Len(w) + i) - Len(w) = i
    OBVIOUS
  <2> QED
    BY <1>1, <1>2, <1>3, <2>1
<1> QED
  BY <1>1, <1>2, <1>3, <1>4, <1>5 DEF same, LoggedMore

\* Lines that are short stay so when more is read of what was written.
LEMMA ShortBefore ==
  ASSUME NEW w \in Seq(Characters), NEW w2 \in Seq(Characters), Short(w2), Len(w) <= Len(w2),
         \A i \in 1..Len(w) : w2[i] = w[i]
  PROVE  Short(w)
<1> SUFFICES ASSUME NEW i \in 1..Len(w), NEW k \in 1..Len(w), k >= i + FifoLimit
             PROVE  \E j \in i..(k - 1) : w[j] = NewLine
  BY DEF Short
<1>1. i \in 1..Len(w2) /\ k \in 1..Len(w2)
  OBVIOUS
<1>2. PICK j \in i..(k - 1) : w2[j] = NewLine
  BY <1>1 DEF Short
<1>3. j \in 1..Len(w)
  OBVIOUS
<1> QED
  BY <1>2, <1>3

\* A call leaves everything as it was and adds its text to what is left to read.
LEMMA CallWhole ==
  ASSUME NEW w, NEW v, NEW f, NEW d, d = <<>>, NEW l \in AvLevels, NEW l2, NEW g, NEW e,
         NEW more \in Seq(Characters), Texts(w, v, f, d, l2, g, e), WholeSoFar(w, v, f, d, l2, g, e),
         NEW w2, NEW v2, LoggedMore(w, v, more, l, w2, v2)
  PROVE  Texts(w2, v2, f, more, l, g, e) /\ WholeSoFar(w2, v2, f, more, l, g, e)
<1> DEFINE last == From(e, Len(e) + 1)
<1>1. /\ w \in Seq(Characters) /\ v \in Seq(AvLevels) /\ Len(v) = Len(w)
      /\ f \in Seq(Characters) /\ Len(d) = 0 /\ e \in Seq(Nat)
  BY DEF Texts
<1>2. /\ w2 \in Seq(Characters) /\ v2 \in Seq(AvLevels)
      /\ Len(w2) = Len(w) + Len(more) /\ Len(v2) = Len(w2)
      /\ \A i \in 1..Len(w) : w2[i] = w[i] /\ v2[i] = v[i]
      /\ \A i \in 1..Len(more) : w2[Len(w) + i] = more[i] /\ v2[Len(w) + i] = l
  BY DEF LoggedMore
<1>3. Texts(w2, v2, f, more, l, g, e)
  BY <1>2 DEF Texts
<1>4. /\ last \in Nat /\ last + Len(f) = Len(w)
      /\ \A i \in 1..Len(f) : f[i] = w[last + i] /\ f[i] # NewLine
      /\ \A i \in 1..Len(e) : LineOf(w, v, g[i], From(e, i), e[i])
  BY <1>1 DEF WholeSoFar
<1> HIDE DEF last
<1>5. \A i \in 1..Len(f) : f[i] = w2[last + i]
  <2> TAKE i \in 1..Len(f)
  <2>1. last + i \in 1..Len(w)
    BY <1>1, <1>4
  <2> QED
    BY <1>2, <1>4, <2>1
<1>6. ASSUME NEW i \in 1..Len(e) PROVE LineOf(w2, v2, g[i], From(e, i), e[i])
  <2> DEFINE from == From(e, i)
             to == e[i]
             line == g[i]
  <2>1. LineOf(w, v, line, from, to)
    BY <1>4
  <2> HIDE DEF from, to, line
  <2>2. /\ from \in Nat /\ to \in 1..Len(w) /\ from < to /\ to \in 1..Len(w2)
        /\ \A k \in (from + 1)..to : k \in 1..Len(w)
    BY <1>1, <1>2, <2>1 DEF LineOf
  <2>3. \A k \in 1..(to - from) : line.text[k] = w2[from + k]
    <3> TAKE k \in 1..(to - from)
    <3>1. from + k \in 1..Len(w)
      BY <2>2
    <3> QED
      BY <1>2, <2>1, <3>1 DEF LineOf
  <2>4. line.level = Level(v2[to]) /\ w2[to] = NewLine
    BY <1>2, <2>1, <2>2 DEF LineOf
  <2>5. \A k \in (from + 1)..(to - 1) : w2[k] # NewLine
    BY <1>2, <2>1, <2>2 DEF LineOf
  <2>6. LineOf(w2, v2, line, from, to)
    BY <2>1, <2>2, <2>3, <2>4, <2>5 DEF LineOf
  <2> QED
    BY <2>6 DEF from, to, line
<1>7. last + Len(f) + Len(more) = Len(w2)
  BY <1>1, <1>2, <1>4
<1> QED
  BY <1>2, <1>3, <1>4, <1>5, <1>6, <1>7 DEF WholeSoFar, last

\* What is read up to k fits into the FIFO if there is no end of line before k.
LEMMA FitsFifo ==
  ASSUME NEW w, NEW v, NEW f, NEW d, NEW l, NEW g, NEW e, NEW k,
         Texts(w, v, f, d, l, g, e), WholeSoFar(w, v, f, d, l, g, e), Short(w),
         k \in 1..Len(d), \A i \in 1..(k - 1) : d[i] # NewLine
  PROVE  Len(f) + k <= FifoLimit
<1> USE BridgeAssumption
<1> DEFINE last == From(e, Len(e) + 1)
<1>1. Len(w) \in Nat /\ Len(f) \in Nat /\ Len(d) \in Nat
  BY DEF Texts
<1>2. /\ last \in Nat /\ last + Len(f) + Len(d) = Len(w)
      /\ \A i \in 1..Len(f) : f[i] = w[last + i] /\ f[i] # NewLine
      /\ \A i \in 1..Len(d) : d[i] = w[last + Len(f) + i]
  BY DEF WholeSoFar
<1> HIDE DEF last
<1> DEFINE first == last + 1
           upTo == last + Len(f) + k
<1>3. SUFFICES ASSUME upTo >= first + FifoLimit PROVE FALSE
  BY <1>1, <1>2
<1>4. first \in 1..Len(w) /\ upTo \in 1..Len(w)
  BY <1>1, <1>2
<1> HIDE DEF first, upTo
<1>5. PICK j \in first..(upTo - 1) : w[j] = NewLine
  BY <1>3, <1>4 DEF Short
<1>6. CASE j <= last + Len(f)
  <2>1. j - last \in 1..Len(f) /\ last + (j - last) = j
    BY <1>1, <1>2, <1>4, <1>6 DEF first, upTo
  <2> QED
    BY <1>2, <1>5, <2>1
<1>7. CASE j > last + Len(f)
  <2> DEFINE i == j - (last + Len(f))
  <2>1. i \in 1..(k - 1) /\ i \in 1..Len(d) /\ last + Len(f) + i = j
    BY <1>1, <1>2, <1>4, <1>7 DEF first, upTo
  <2> QED
    BY <1>2, <1>5, <2>1
<1> QED
  BY <1>1, <1>2, <1>4, <1>6, <1>7

\* The FIFO with the first k characters of d.
Joined(f, d, k, x) ==
  /\ x \in Seq(Characters) /\ Len(x) = Len(f) + k
  /\ \A i \in 1..Len(f) : x[i] = f[i]
  /\ \A i \in 1..k : x[Len(f) + i] = d[i]

LEMMA Joins ==
  ASSUME NEW f \in Seq(Characters), NEW d \in Seq(Characters), NEW k \in 0..Len(d),
         Len(f) + k <= FifoLimit, NEW x, x = Write(f, SubSeq(d, 1, k))
  PROVE  Joined(f, d, k, x)
<1> DEFINE part == SubSeq(d, 1, k)
<1>1. part \in Seq(Characters) /\ Len(part) = k /\ \A i \in 1..k : part[i] = d[i]
  <2>1. \A i \in 1..k : d[i] \in Characters
    OBVIOUS
  <2>2. /\ part \in Seq(Characters) /\ Len(part) = (IF 1 <= k THEN k - 1 + 1 ELSE 0)
        /\ \A i \in 1..(k - 1 + 1) : part[i] = d[1 + i - 1]
    BY <2>1, SubSeqProperties
  <2> QED
    BY <2>2
<1> HIDE DEF part
<1>2. x = f \o part
  BY <1>1, BridgeAssumption DEF Write, part
<1>3. /\ f \o part \in Seq(Characters) /\ Len(f \o part) = Len(f) + Len(part)
      /\ \A i \in 1..(Len(f) + Len(part)) :
           (f \o part)[i] = IF i <= Len(f) THEN f[i] ELSE part[i - Len(f)]
  BY <1>1, ConcatProperties
<1>4. \A i \in 1..k : x[Len(f) + i] = d[i]
  <2> TAKE i \in 1..k
  <2>1. Len(f) + i \in 1..(Len(f) + Len(part)) /\ ~(Len(f) + i <= Len(f)) /\ (Len(f) + i) - Len(f) = i
    BY <1>1
  <2> QED
    BY <1>1, <1>2, <1>3, <2>1
<1>5. \A i \in 1..Len(f) : x[i] = f[i]
  <2> TAKE i \in 1..Len(f)
  <2>1. i \in 1..(Len(f) + Len(part)) /\ i <= Len(f)
    BY <1>1
  <2> QED
    BY <1>2, <1>3, <2>1
<1> QED
  BY <1>1, <1>2, <1>3, <1>4, <1>5 DEF Joined

\* What is behind the first k characters of d.
RestOf(d, k, x) ==
  /\ x \in Seq(Characters) /\ Len(x) = Len(d) - k
  /\ \A i \in 1..Len(x) : x[i] = d[k + i]

LEMMA Rests ==
  ASSUME NEW d \in Seq(Characters), NEW k \in 0..Len(d), NEW x, x = SubSeq(d, k + 1, Len(d))
  PROVE  RestOf(d, k, x)
<1>1. k + 1 \in Int /\ Len(d) \in Int /\ \A i \in (k + 1)..Len(d) : d[i] \in Characters
  OBVIOUS
<1>2. /\ x \in Seq(Characters)
      /\ Len(x) = IF k + 1 <= Len(d) THEN Len(d) - (k + 1) + 1 ELSE 0
      /\ \A i \in 1..(Len(d) - (k + 1) + 1) : x[i] = d[(k + 1) + i - 1]
  BY <1>1, SubSeqProperties
<1>3. Len(x) = Len(d) - k
  BY <1>1, <1>2
<1>4. \A i \in 1..Len(x) : i \in 1..(Len(d) - (k + 1) + 1) /\ (k + 1) + i - 1 = k + i
  BY <1>1, <1>3
<1> QED
  BY <1>2, <1>3, <1>4 DEF RestOf

LEMMA EndTexts ==
  ASSUME NEW w, NEW v, NEW f, NEW d, NEW l, NEW g, NEW e, Texts(w, v, f, d, l, g, e),
         NEW k \in Nat, k \in 1..Len(d), NEW line \in LogLines,
         NEW f2, f2 = <<>>, NEW d2, RestOf(d, k, d2),
         NEW g2, g2 = Append(g, line), NEW e2, e2 = Append(e, Len(w) - Len(d) + k)
  PROVE  Texts(w, v, f2, d2, l, g2, e2)
<1> DEFINE to == Len(w) - Len(d) + k
<1>1. /\ w \in Seq(Characters) /\ d \in Seq(Characters) /\ Len(w) \in Nat /\ Len(d) \in Nat
      /\ e \in Seq(Nat) /\ g \in Seq(LogLines) /\ Len(e) = Len(g) /\ Len(d) <= Len(w)
  BY DEF Texts
<1>2. to \in Nat
  BY <1>1
<1>3. e2 = Append(e, to)
  OBVIOUS
<1> HIDE DEF to
<1>4. e2 \in Seq(Nat) /\ g2 \in Seq(LogLines) /\ Len(e2) = Len(g2)
  BY <1>1, <1>2, <1>3
<1>5. d2 \in Seq(Characters) /\ Len(d2) <= Len(w)
  BY <1>1 DEF RestOf
<1> QED
  BY <1>4, <1>5 DEF Texts

\* A line that ends is what was in the FIFO and what was read, and ends there.
LEMMA EndWhole ==
  ASSUME NEW w, NEW v, NEW f, NEW d, NEW l, NEW g, NEW e,
         Texts(w, v, f, d, l, g, e), WholeSoFar(w, v, f, d, l, g, e),
         NEW k \in Nat, k \in 1..Len(d), d[k] = NewLine, \A i \in 1..(k - 1) : d[i] # NewLine,
         NEW line \in LogLines, Joined(f, d, k, line.text), line.level = Level(l),
         NEW f2, f2 = <<>>, NEW d2, RestOf(d, k, d2),
         NEW g2, g2 = Append(g, line), NEW e2, e2 = Append(e, Len(w) - Len(d) + k)
  PROVE  WholeSoFar(w, v, f2, d2, l, g2, e2)
<1> DEFINE last == From(e, Len(e) + 1)
           to == Len(w) - Len(d) + k
<1>1. /\ w \in Seq(Characters) /\ d \in Seq(Characters) /\ f \in Seq(Characters)
      /\ Len(w) \in Nat /\ Len(d) \in Nat /\ Len(f) \in Nat
      /\ e \in Seq(Nat) /\ g \in Seq(LogLines) /\ Len(e) = Len(g)
  BY DEF Texts
<1>2. /\ last \in Nat /\ last + Len(f) + Len(d) = Len(w)
      /\ \A i \in 1..Len(f) : f[i] = w[last + i] /\ f[i] # NewLine
      /\ \A i \in 1..Len(d) : d[i] = w[last + Len(f) + i] /\ v[last + Len(f) + i] = l
      /\ \A i \in 1..Len(e) : LineOf(w, v, g[i], From(e, i), e[i])
  BY DEF WholeSoFar
<1> HIDE DEF last
<1>3. /\ to = last + Len(f) + k /\ to \in 1..Len(w) /\ to \in Nat /\ last < to
  <2>1. last \in Nat /\ Len(w) = last + Len(f) + Len(d)
    BY <1>1, <1>2
  <2>2. to = last + Len(f) + k
    BY <1>1, <2>1
  <2>3. k <= Len(d) /\ k > 0
    BY <1>1
  <2> HIDE DEF to
  <2> QED
    BY <1>1, <2>1, <2>2, <2>3
<1>4. /\ d2 \in Seq(Characters) /\ Len(d2) = Len(d) - k
      /\ \A i \in 1..Len(d2) : d2[i] = d[k + i]
  BY DEF RestOf
<1> HIDE DEF last, to
<1>5. /\ e2 \in Seq(Nat) /\ Len(e2) = Len(e) + 1 /\ e2[Len(e) + 1] = to
      /\ \A i \in 1..Len(e) : e2[i] = e[i]
      /\ g2 \in Seq(LogLines) /\ Len(g2) = Len(g) + 1 /\ g2[Len(g) + 1] = line
      /\ \A i \in 1..Len(g) : g2[i] = g[i]
  <2>1. e2 = Append(e, to)
    BY DEF to
  <2> QED
    BY <1>1, <1>3, <2>1
<1>6. From(e2, Len(e2) + 1) = to
  BY <1>1, <1>5 DEF From
<1>7. \A i \in 1..(Len(e) + 1) : From(e2, i) = From(e, i)
  <2> TAKE i \in 1..(Len(e) + 1)
  <2>1. i # 1 => i - 1 \in 1..Len(e)
    BY <1>1
  <2> QED
    BY <1>5, <2>1 DEF From
<1>8. LineOf(w, v, line, last, to)
  <2>1. Len(line.text) = to - last
    BY <1>1, <1>2, <1>3 DEF Joined
  <2>2. ASSUME NEW i \in 1..(to - last)
        PROVE  line.text[i] = w[last + i] /\ (last + i < to => w[last + i] # NewLine)
    <3>1. CASE i <= Len(f)
      <4>1. i \in 1..Len(f)
        BY <1>1, <3>1
      <4> QED
        BY <1>2, <4>1 DEF Joined
    <3>2. CASE i > Len(f)
      <4> DEFINE n == i - Len(f)
      <4>1. n \in 1..k /\ n \in 1..Len(d) /\ Len(f) + n = i /\ last + Len(f) + n = last + i
            /\ (last + i < to => n \in 1..(k - 1))
        <5>1. last \in Nat /\ Len(f) \in Nat /\ Len(d) \in Nat /\ to = last + Len(f) + k
          BY <1>1, <1>2, <1>3
        <5>2. to - last = Len(f) + k
          BY <5>1
        <5>3. i \in Nat /\ i <= Len(f) + k /\ (last + i < to => i < Len(f) + k)
          BY <5>1, <5>2
        <5>4. n \in Nat /\ n > 0 /\ n <= k /\ Len(f) + n = i /\ last + Len(f) + n = last + i
          BY <3>2, <5>1, <5>3
        <5>5. last + i < to => n < k
          BY <5>1, <5>3
        <5> HIDE DEF n
        <5> QED
          BY <5>1, <5>4, <5>5
      <4> HIDE DEF n
      <4>2. line.text[i] = d[n] /\ d[n] = w[last + i]
        BY <1>2, <4>1 DEF Joined
      <4> QED
        BY <4>1, <4>2
    <3> QED
      BY <1>1, <1>2, <1>3, <3>1, <3>2
  <2>3. w[to] = NewLine /\ v[to] = l
    BY <1>2, <1>3
  <2>4. \A i \in (last + 1)..(to - 1) : w[i] # NewLine
    <3> TAKE i \in (last + 1)..(to - 1)
    <3>1. i - last \in 1..(to - last) /\ last + (i - last) = i /\ i < to
      BY <1>2, <1>3
    <3> QED
      BY <2>2, <3>1
  <2> QED
    BY <1>2, <1>3, <2>1, <2>2, <2>3, <2>4 DEF LineOf
<1>9. \A i \in 1..Len(e2) : LineOf(w, v, g2[i], From(e2, i), e2[i])
  <2> TAKE i \in 1..Len(e2)
  <2>1. CASE i = Len(e) + 1
    BY <1>1, <1>5, <1>7, <1>8, <2>1 DEF last
  <2>2. CASE i \in 1..Len(e)
    BY <1>1, <1>2, <1>5, <1>7, <2>2
  <2> QED
    BY <1>1, <1>5, <2>1, <2>2
<1>10. /\ Len(f2) = 0 /\ to + Len(f2) + Len(d2) = Len(w)
       /\ \A i \in 1..Len(d2) : d2[i] = w[to + Len(f2) + i] /\ v[to + Len(f2) + i] = l
  <2>1. Len(f2) = 0
    OBVIOUS
  <2>2. /\ last \in Nat /\ Len(f) \in Nat /\ Len(d) \in Nat /\ Len(d2) = Len(d) - k
        /\ to = last + Len(f) + k /\ Len(w) = last + Len(f) + Len(d)
    <3>1. Len(f) \in Nat /\ Len(d) \in Nat
      BY <1>1
    <3>2. last \in Nat /\ last + Len(f) + Len(d) = Len(w)
      BY <1>2
    <3>3. to = last + Len(f) + k
      BY <1>3
    <3>4. Len(d2) = Len(d) - k
      BY <1>4
    <3> QED
      BY <3>1, <3>2, <3>3, <3>4
  <2>3. Len(f2) = 0 /\ to + 0 + Len(d2) = Len(w)
    BY <2>1, <2>2
  <2>4. ASSUME NEW i \in 1..Len(d2) PROVE d2[i] = w[to + i] /\ v[to + i] = l
    <3>1. k + i \in 1..Len(d) /\ last + Len(f) + (k + i) = to + i
      BY <1>1, <1>2, <1>3, <1>4
    <3> QED
      BY <1>2, <1>4, <3>1
  <2>5. to + Len(f2) = to
    BY <1>3, <2>1
  <2> QED
    BY <2>1, <2>3, <2>4, <2>5
<1>11. WholeSoFar(w, v, f2, d2, l, g2, e2)
  <2>1. \A i \in 1..Len(f2) : f2[i] = w[to + i] /\ f2[i] # NewLine
    BY <1>10
  <2> QED
    <3> DEFINE next == From(e2, Len(e2) + 1)
    <3>1. next = to
      BY <1>6
    <3> HIDE DEF next
    <3>2. /\ next \in Nat /\ next + Len(f2) + Len(d2) = Len(w)
          /\ \A i \in 1..Len(f2) : f2[i] = w[next + i] /\ f2[i] # NewLine
          /\ \A i \in 1..Len(d2) : d2[i] = w[next + Len(f2) + i] /\ v[next + Len(f2) + i] = l
      BY <1>3, <1>10, <2>1, <3>1
    <3> QED
      BY <1>9, <3>2 DEF WholeSoFar, next
<1> QED
  BY <1>11

\* What is not a line yet waits in the FIFO.
LEMMA RestWaits ==
  ASSUME NEW w, NEW v, NEW f, NEW d, NEW l, NEW g, NEW e,
         Texts(w, v, f, d, l, g, e), WholeSoFar(w, v, f, d, l, g, e), Short(w),
         \A i \in 1..Len(d) : d[i] # NewLine,
         NEW f2, f2 = Write(f, d), NEW d2, d2 = <<>>
  PROVE  WholeSoFar(w, v, f2, d2, l, g, e)
<1> DEFINE last == From(e, Len(e) + 1)
<1>1. /\ d \in Seq(Characters) /\ f \in Seq(Characters)
      /\ Len(w) \in Nat /\ Len(d) \in Nat /\ Len(f) \in Nat
  BY DEF Texts
<1>2. /\ last \in Nat /\ last + Len(f) + Len(d) = Len(w)
      /\ \A i \in 1..Len(f) : f[i] = w[last + i] /\ f[i] # NewLine
      /\ \A i \in 1..Len(d) : d[i] = w[last + Len(f) + i]
      /\ \A i \in 1..Len(e) : LineOf(w, v, g[i], From(e, i), e[i])
  BY DEF WholeSoFar
<1> HIDE DEF last
<1>3. Joined(f, d, Len(d), f2)
  <2>1. CASE d = <<>>
    <3>1. f \o d = f
      BY <1>1, <2>1, ConcatEmptySeq
    <3>2. f2 = f
      BY <3>1 DEF Write
    <3> QED
      BY <1>1, <2>1, <3>2 DEF Joined
  <2>2. CASE d # <<>>
    <3>1. Len(d) \in 1..Len(d) /\ \A i \in 1..(Len(d) - 1) : d[i] # NewLine
      BY <1>1, <2>2
    <3>2. Len(f) + Len(d) <= FifoLimit
      BY <3>1, FitsFifo
    <3>3. d = SubSeq(d, 1, Len(d))
      BY <1>1, SubSeqFull
    <3>4. Len(d) \in 0..Len(d)
      BY <1>1
    <3> QED
      BY <1>1, <3>2, <3>3, <3>4, Joins
  <2> QED
    BY <2>1, <2>2
<1>4. /\ Len(f2) = Len(f) + Len(d)
      /\ \A i \in 1..Len(f) : f2[i] = f[i]
      /\ \A i \in 1..Len(d) : f2[Len(f) + i] = d[i]
  BY <1>3 DEF Joined
<1>5. Len(d2) = 0
  OBVIOUS
<1>6. ASSUME NEW i \in 1..Len(f2) PROVE f2[i] = w[last + i] /\ f2[i] # NewLine
  <2>1. CASE i <= Len(f)
    <3>1. i \in 1..Len(f)
      BY <1>1, <2>1
    <3> QED
      BY <1>2, <1>4, <3>1
  <2>2. CASE i > Len(f)
    <3> DEFINE n == i - Len(f)
    <3>1. n \in 1..Len(d) /\ Len(f) + n = i /\ last + Len(f) + n = last + i
      BY <1>1, <1>2, <1>4, <2>2
    <3> HIDE DEF n
    <3>2. f2[Len(f) + n] = d[n] /\ d[n] = w[last + Len(f) + n] /\ d[n] # NewLine
      BY <1>2, <1>4, <3>1
    <3> QED
      BY <3>1, <3>2
  <2> QED
    BY <1>1, <1>4, <2>1, <2>2
<1>7. last + Len(f2) + Len(d2) = Len(w)
  BY <1>1, <1>2, <1>4, <1>5
<1>8. \A i \in 1..Len(d2) : d2[i] = w[last + Len(f2) + i] /\ v[last + Len(f2) + i] = l
  BY <1>5
<1> QED
  BY <1>2, <1>6, <1>7, <1>8 DEF WholeSoFar, last

\* What comes out of an AVFifo, or is written to it, is text.
LEMMA WriteText ==
  ASSUME NEW f \in Seq(Characters), NEW x \in Seq(Characters)
  PROVE  Write(f, x) \in Seq(Characters)
BY DEF Write

Bridge(t) == Texts(wrote[t], with[t], fifo[t], data[t], avLevel[t], logged[t], ended[t])
BridgeWhole(t) ==
  ShortLines(t) /\ t \notin starved =>
    WholeSoFar(wrote[t], with[t], fifo[t], data[t], avLevel[t], logged[t], ended[t])

BridgeInv ==
  /\ fifo \in [Callers -> Seq(Characters)] /\ data \in [Callers -> Seq(Characters)]
  /\ wrote \in [Callers -> Seq(Characters)] /\ with \in [Callers -> Seq(AvLevels)]
  /\ avLevel \in [Callers -> AvLevels]
  /\ logged \in [Callers -> Seq(LogLines)] /\ ended \in [Callers -> Seq(Nat)]
  /\ \A t \in Callers : /\ t \notin inCallback => data[t] = <<>>
                        /\ Bridge(t) /\ BridgeWhole(t)

\* The steps of another thread change nothing.
LEMMA BridgeOthers ==
  ASSUME NEW t, Bridge(t), BridgeWhole(t), t \notin inCallback => data[t] = <<>>,
         wrote'[t] = wrote[t], with'[t] = with[t], fifo'[t] = fifo[t], data'[t] = data[t],
         avLevel'[t] = avLevel[t], logged'[t] = logged[t], ended'[t] = ended[t],
         t \in inCallback' <=> t \in inCallback, t \in starved' <=> t \in starved
  PROVE  /\ Bridge(t)' /\ BridgeWhole(t)'
         /\ t \notin inCallback' => data'[t] = <<>>
BY DEF Bridge, BridgeWhole, ShortLines

LEMMA BridgeBegins == BridgeInit => BridgeInv
<1> SUFFICES ASSUME BridgeInit PROVE BridgeInv
  OBVIOUS
<1>1. /\ fifo = [t \in Callers |-> <<>>] /\ data = [t \in Callers |-> <<>>]
      /\ avLevel = [t \in Callers |-> "info"]
      /\ logged = [t \in Callers |-> <<>>] /\ ended = [t \in Callers |-> <<>>]
      /\ wrote = [t \in Callers |-> <<>>] /\ with = [t \in Callers |-> <<>>]
  BY DEF BridgeInit
<1>2. "info" \in AvLevels
  BY DEF AvLevels
<1>3. ASSUME NEW t \in Callers PROVE Bridge(t) /\ BridgeWhole(t) /\ data[t] = <<>>
  <2>1. /\ fifo[t] = <<>> /\ data[t] = <<>> /\ logged[t] = <<>> /\ ended[t] = <<>>
        /\ wrote[t] = <<>> /\ with[t] = <<>> /\ avLevel[t] = "info"
    BY <1>1
  <2>2. Bridge(t)
    BY <1>2, <2>1 DEF Bridge, Texts
  <2>3. WholeSoFar(<<>>, <<>>, <<>>, <<>>, "info", <<>>, <<>>)
    BY DEF WholeSoFar, From
  <2> QED
    BY <2>1, <2>2, <2>3 DEF BridgeWhole
<1>4. /\ fifo \in [Callers -> Seq(Characters)] /\ data \in [Callers -> Seq(Characters)]
      /\ wrote \in [Callers -> Seq(Characters)] /\ with \in [Callers -> Seq(AvLevels)]
      /\ avLevel \in [Callers -> AvLevels]
      /\ logged \in [Callers -> Seq(LogLines)] /\ ended \in [Callers -> Seq(Nat)]
  BY <1>1, <1>2
<1> QED
  BY <1>3, <1>4 DEF BridgeInv

\* A call of the callback.
LEMMA BridgeCalled ==
  ASSUME BridgeInv, NEW t \in Callers, NEW more \in Seq(Characters), NEW l \in AvLevels,
         BridgeCall(t, more, l)
  PROVE  BridgeInv'
<1>1. /\ t \notin inCallback /\ inCallback' = inCallback \cup {t}
      /\ data' = [data EXCEPT ![t] = more] /\ avLevel' = [avLevel EXCEPT ![t] = l]
      /\ fifo' = fifo /\ logged' = logged /\ ended' = ended /\ starved' = starved
      /\ wrote' = [wrote EXCEPT ![t] = @ \o more]
      /\ with' = [with EXCEPT ![t] = @ \o Each(Len(more), l)]
  BY DEF BridgeCall, Each
<1>2. /\ fifo \in [Callers -> Seq(Characters)] /\ data \in [Callers -> Seq(Characters)]
      /\ wrote \in [Callers -> Seq(Characters)] /\ with \in [Callers -> Seq(AvLevels)]
      /\ avLevel \in [Callers -> AvLevels]
      /\ logged \in [Callers -> Seq(LogLines)] /\ ended \in [Callers -> Seq(Nat)]
      /\ \A u \in Callers : /\ u \notin inCallback => data[u] = <<>>
                            /\ Bridge(u) /\ BridgeWhole(u)
  BY DEF BridgeInv
<1>3. /\ data'[t] = more /\ avLevel'[t] = l /\ wrote'[t] = wrote[t] \o more
      /\ with'[t] = with[t] \o Each(Len(more), l) /\ data[t] = <<>>
  BY <1>1, <1>2
<1>4. LoggedMore(wrote[t], with[t], more, l, wrote'[t], with'[t])
  <2>1. wrote[t] \in Seq(Characters) /\ with[t] \in Seq(AvLevels) /\ Len(with[t]) = Len(wrote[t])
    BY <1>2 DEF Bridge, Texts
  <2> QED
    BY <1>3, <2>1, LogsMore
<1>5. wrote'[t] \in Seq(Characters) /\ with'[t] \in Seq(AvLevels)
  BY <1>4 DEF LoggedMore
<1>6. /\ fifo' \in [Callers -> Seq(Characters)] /\ data' \in [Callers -> Seq(Characters)]
      /\ avLevel' \in [Callers -> AvLevels]
      /\ logged' \in [Callers -> Seq(LogLines)] /\ ended' \in [Callers -> Seq(Nat)]
  BY <1>1, <1>2
<1>7. wrote' \in [Callers -> Seq(Characters)] /\ with' \in [Callers -> Seq(AvLevels)]
  <2>1. wrote' = [wrote EXCEPT ![t] = wrote'[t]] /\ with' = [with EXCEPT ![t] = with'[t]]
    BY <1>1, <1>2, <1>3
  <2> QED
    BY <1>2, <1>5, <2>1
<1>8. Bridge(t)' /\ BridgeWhole(t)'
  <2>1. Bridge(t)'
    BY <1>1, <1>2, <1>3, <1>4 DEF Bridge, Texts, LoggedMore
  <2>2. ASSUME ShortLines(t)', t \notin starved'
        PROVE  WholeSoFar(wrote'[t], with'[t], fifo'[t], data'[t], avLevel'[t], logged'[t], ended'[t])
    <3>1. Short(wrote'[t])
      BY <2>2 DEF ShortLines, Short
    <3>2. Short(wrote[t])
      <4>1. /\ wrote[t] \in Seq(Characters)
            /\ \A i \in 1..Len(wrote[t]) : wrote'[t][i] = wrote[t][i]
            /\ Len(wrote'[t]) = Len(wrote[t]) + Len(more)
        BY <1>2, <1>4 DEF LoggedMore
      <4>2. Len(wrote[t]) <= Len(wrote'[t])
        BY <4>1
      <4> QED
        BY <1>5, <3>1, <4>1, <4>2, ShortBefore
    <3>3. WholeSoFar(wrote[t], with[t], fifo[t], data[t], avLevel[t], logged[t], ended[t])
      BY <1>1, <1>2, <2>2, <3>2 DEF BridgeWhole, ShortLines, Short
    <3>4. Texts(wrote[t], with[t], fifo[t], data[t], avLevel[t], logged[t], ended[t])
      BY <1>2 DEF Bridge
    <3>5. WholeSoFar(wrote'[t], with'[t], fifo[t], more, l, logged[t], ended[t])
      BY <1>3, <1>4, <3>3, <3>4, CallWhole
    <3> QED
      BY <1>1, <1>3, <3>5
  <2> QED
    BY <2>1, <2>2 DEF BridgeWhole
<1>9. ASSUME NEW u \in Callers
      PROVE  /\ u \notin inCallback' => data'[u] = <<>>
             /\ Bridge(u)' /\ BridgeWhole(u)'
  <2>1. CASE u = t
    BY <1>1, <1>8, <2>1
  <2>2. CASE u # t
    <3>1. /\ wrote'[u] = wrote[u] /\ with'[u] = with[u] /\ fifo'[u] = fifo[u] /\ data'[u] = data[u]
          /\ avLevel'[u] = avLevel[u] /\ logged'[u] = logged[u] /\ ended'[u] = ended[u]
          /\ (u \in inCallback' <=> u \in inCallback) /\ (u \in starved' <=> u \in starved)
      BY <1>1, <1>2, <2>2
    <3> QED
      BY <1>2, <3>1, BridgeOthers
  <2> QED
    BY <2>1, <2>2
<1> QED
  BY <1>6, <1>7, <1>9 DEF BridgeInv

\* The end of a line.
LEMMA BridgeLine ==
  ASSUME BridgeInv, NEW t \in Callers, NEW room \in BOOLEAN, EndLine(t, room)
  PROVE  BridgeInv'
<1>1. PICK k \in 1..Len(data[t]) :
        /\ data[t][k] = NewLine /\ \A i \in 1..(k - 1) : data[t][i] # NewLine
        /\ logged' = [logged EXCEPT ![t] =
             Append(@, [text |-> WriteOr(room, fifo[t], SubSeq(data[t], 1, k)),
                        level |-> Level(avLevel[t])])]
        /\ data' = [data EXCEPT ![t] = SubSeq(@, k + 1, Len(@))]
        /\ ended' = [ended EXCEPT ![t] = Append(@, Len(wrote[t]) - Len(data[t]) + k)]
  BY DEF EndLine
<1>2. /\ t \in inCallback /\ fifo' = [fifo EXCEPT ![t] = <<>>]
      /\ inCallback' = inCallback /\ avLevel' = avLevel /\ wrote' = wrote /\ with' = with
      /\ starved' = IF room THEN starved ELSE starved \cup {t}
  BY DEF EndLine, Starve
<1>3. /\ fifo \in [Callers -> Seq(Characters)] /\ data \in [Callers -> Seq(Characters)]
      /\ wrote \in [Callers -> Seq(Characters)] /\ with \in [Callers -> Seq(AvLevels)]
      /\ avLevel \in [Callers -> AvLevels]
      /\ logged \in [Callers -> Seq(LogLines)] /\ ended \in [Callers -> Seq(Nat)]
      /\ \A u \in Callers : /\ u \notin inCallback => data[u] = <<>>
                            /\ Bridge(u) /\ BridgeWhole(u)
  BY DEF BridgeInv
<1> DEFINE f == fifo[t]
           d == data[t]
           x == WriteOr(room, f, SubSeq(d, 1, k))
           line == [text |-> x, level |-> Level(avLevel[t])]
<1>4. f \in Seq(Characters) /\ d \in Seq(Characters) /\ k \in Nat /\ k \in 0..Len(d)
  BY <1>3
<1>5. x \in Seq(Characters)
  <2>1. \A i \in 1..k : d[i] \in Characters
    BY <1>4
  <2>2. SubSeq(d, 1, k) \in Seq(Characters)
    BY <1>4, <2>1, SubSeqProperties
  <2> HIDE DEF f, d
  <2> QED
    BY <1>4, <2>2, WriteText DEF WriteOr
<1> HIDE DEF x
<1>6. Level(avLevel[t]) \in SvLevels
  BY <1>3 DEF Level, AvLevels, SvLevels
<1>7. line \in LogLines /\ line.text = x /\ line.level = Level(avLevel[t])
  BY <1>5, <1>6 DEF LogLines
<1>8. /\ logged'[t] = Append(logged[t], line) /\ fifo'[t] = <<>>
      /\ data'[t] = SubSeq(d, k + 1, Len(d))
      /\ ended'[t] = Append(ended[t], Len(wrote[t]) - Len(d) + k)
  BY <1>1, <1>2, <1>3 DEF x
<1> HIDE DEF line, f, d
<1>9. RestOf(d, k, data'[t])
  BY <1>4, <1>8, Rests
<1>10. Texts(wrote[t], with[t], f, d, avLevel[t], logged[t], ended[t])
  BY <1>3 DEF Bridge, f, d
<1>11. k \in 1..Len(d) /\ d[k] = NewLine /\ \A i \in 1..(k - 1) : d[i] # NewLine
  BY <1>1 DEF d
<1>12. Texts(wrote[t], with[t], fifo'[t], data'[t], avLevel[t], logged'[t], ended'[t])
  BY <1>4, <1>7, <1>8, <1>9, <1>10, <1>11, EndTexts
<1>13. ASSUME ShortLines(t), t \notin starved'
       PROVE  WholeSoFar(wrote[t], with[t], fifo'[t], data'[t], avLevel[t], logged'[t], ended'[t])
  <2>1. Short(wrote[t])
    BY <1>13 DEF ShortLines, Short
  <2>2. WholeSoFar(wrote[t], with[t], f, d, avLevel[t], logged[t], ended[t])
    BY <1>2, <1>3, <1>13 DEF BridgeWhole, f, d
  <2>3. Len(f) + k <= FifoLimit
    BY <1>10, <1>11, <2>1, <2>2, FitsFifo
  <2>4. Joined(f, d, k, line.text)
    <3>1. x = Write(f, SubSeq(d, 1, k))
      BY <1>2, <1>13 DEF x, WriteOr
    <3> QED
      BY <1>4, <1>7, <2>3, <3>1, Joins
  <2> QED
    BY <1>4, <1>7, <1>8, <1>9, <1>10, <1>11, <2>2, <2>4, EndWhole
<1>14. /\ fifo' \in [Callers -> Seq(Characters)] /\ data' \in [Callers -> Seq(Characters)]
       /\ logged' \in [Callers -> Seq(LogLines)] /\ ended' \in [Callers -> Seq(Nat)]
  <2>1. /\ fifo'[t] \in Seq(Characters) /\ data'[t] \in Seq(Characters)
        /\ logged'[t] \in Seq(LogLines) /\ ended'[t] \in Seq(Nat)
    BY <1>12 DEF Texts
  <2>2. /\ fifo' = [fifo EXCEPT ![t] = fifo'[t]] /\ data' = [data EXCEPT ![t] = data'[t]]
        /\ logged' = [logged EXCEPT ![t] = logged'[t]] /\ ended' = [ended EXCEPT ![t] = ended'[t]]
    BY <1>1, <1>2, <1>3
  <2> QED
    BY <1>3, <2>1, <2>2
<1>15. ASSUME NEW u \in Callers
       PROVE  /\ u \notin inCallback' => data'[u] = <<>>
              /\ Bridge(u)' /\ BridgeWhole(u)'
  <2>1. CASE u = t
    <3>1. Bridge(t)'
      BY <1>2, <1>12 DEF Bridge
    <3>2. BridgeWhole(t)'
      BY <1>2, <1>13 DEF BridgeWhole, ShortLines
    <3> QED
      BY <1>2, <2>1, <3>1, <3>2
  <2>2. CASE u # t
    <3>1. /\ wrote'[u] = wrote[u] /\ with'[u] = with[u] /\ fifo'[u] = fifo[u] /\ data'[u] = data[u]
          /\ avLevel'[u] = avLevel[u] /\ logged'[u] = logged[u] /\ ended'[u] = ended[u]
          /\ (u \in inCallback' <=> u \in inCallback) /\ (u \in starved' <=> u \in starved)
      BY <1>1, <1>2, <1>3, <2>2
    <3> QED
      BY <1>3, <3>1, BridgeOthers
  <2> QED
    BY <2>1, <2>2
<1> QED
  BY <1>2, <1>3, <1>14, <1>15 DEF BridgeInv

\* The end of the call.
LEMMA BridgeRest ==
  ASSUME BridgeInv, NEW t \in Callers, NEW room \in BOOLEAN, KeepRest(t, room)
  PROVE  BridgeInv'
<1>1. /\ \A i \in 1..Len(data[t]) : data[t][i] # NewLine
      /\ fifo' = [fifo EXCEPT ![t] = WriteOr(room, @, data[t])]
      /\ starved' = IF room THEN starved ELSE starved \cup {t}
      /\ data' = [data EXCEPT ![t] = <<>>]
      /\ inCallback' = inCallback \ {t}
      /\ avLevel' = avLevel /\ wrote' = wrote /\ with' = with
      /\ logged' = logged /\ ended' = ended
  BY DEF KeepRest, Starve
<1>2. /\ fifo \in [Callers -> Seq(Characters)] /\ data \in [Callers -> Seq(Characters)]
      /\ wrote \in [Callers -> Seq(Characters)] /\ with \in [Callers -> Seq(AvLevels)]
      /\ avLevel \in [Callers -> AvLevels]
      /\ logged \in [Callers -> Seq(LogLines)] /\ ended \in [Callers -> Seq(Nat)]
      /\ \A u \in Callers : /\ u \notin inCallback => data[u] = <<>>
                            /\ Bridge(u) /\ BridgeWhole(u)
  BY DEF BridgeInv
<1>3. fifo'[t] = WriteOr(room, fifo[t], data[t]) /\ data'[t] = <<>>
  BY <1>1, <1>2
<1>4. fifo'[t] \in Seq(Characters)
  BY <1>2, <1>3, WriteText DEF WriteOr
<1>5. fifo' \in [Callers -> Seq(Characters)] /\ data' \in [Callers -> Seq(Characters)]
  <2>1. fifo' = [fifo EXCEPT ![t] = fifo'[t]]
    BY <1>1, <1>2, <1>3
  <2> QED
    BY <1>1, <1>2, <1>4, <2>1
<1>6. Bridge(t)'
  BY <1>1, <1>2, <1>3, <1>4 DEF Bridge, Texts
<1>7. BridgeWhole(t)'
  <2> SUFFICES ASSUME ShortLines(t), t \notin starved'
               PROVE  WholeSoFar(wrote[t], with[t], fifo'[t], data'[t], avLevel[t], logged[t], ended[t])
    BY <1>1 DEF BridgeWhole, ShortLines
  <2>1. /\ Texts(wrote[t], with[t], fifo[t], data[t], avLevel[t], logged[t], ended[t])
        /\ WholeSoFar(wrote[t], with[t], fifo[t], data[t], avLevel[t], logged[t], ended[t])
    BY <1>1, <1>2 DEF Bridge, BridgeWhole
  <2>2. Short(wrote[t])
    BY DEF ShortLines, Short
  <2>3. fifo'[t] = Write(fifo[t], data[t])
    BY <1>1, <1>3 DEF WriteOr
  <2> QED
    BY <1>1, <1>3, <2>1, <2>2, <2>3, RestWaits
<1>8. ASSUME NEW u \in Callers
      PROVE  /\ u \notin inCallback' => data'[u] = <<>>
             /\ Bridge(u)' /\ BridgeWhole(u)'
  <2>1. CASE u = t
    BY <1>3, <1>6, <1>7, <2>1
  <2>2. CASE u # t
    <3>1. /\ wrote'[u] = wrote[u] /\ with'[u] = with[u] /\ fifo'[u] = fifo[u] /\ data'[u] = data[u]
          /\ avLevel'[u] = avLevel[u] /\ logged'[u] = logged[u] /\ ended'[u] = ended[u]
          /\ (u \in inCallback' <=> u \in inCallback) /\ (u \in starved' <=> u \in starved)
      BY <1>1, <1>2, <2>2
    <3> QED
      BY <1>2, <3>1, BridgeOthers
  <2> QED
    BY <2>1, <2>2
<1> QED
  BY <1>1, <1>2, <1>5, <1>8 DEF BridgeInv

\* A text with the characters of another from a place on is that part of it.
LEMMA PartOf ==
  ASSUME NEW x \in Seq(Characters), NEW w \in Seq(Characters), NEW from \in Nat, NEW to \in Nat,
         to <= Len(w), Len(x) = to - from, \A k \in 1..Len(x) : x[k] = w[from + k]
  PROVE  x = SubSeq(w, from + 1, to)
<1> DEFINE part == SubSeq(w, from + 1, to)
<1>1. \A i \in (from + 1)..to : w[i] \in Characters
  <2> TAKE i \in (from + 1)..to
  <2>1. i \in 1..Len(w)
    OBVIOUS
  <2> QED
    BY <2>1, ElementOfSeq
<1>2. /\ part \in Seq(Characters)
      /\ Len(part) = IF from + 1 <= to THEN to - (from + 1) + 1 ELSE 0
      /\ \A i \in 1..(to - (from + 1) + 1) : part[i] = w[(from + 1) + i - 1]
  <2>1. from + 1 \in Int /\ to \in Int
    OBVIOUS
  <2> QED
    BY <1>1, <2>1, SubSeqProperties
<1> HIDE DEF part
<1>3. Len(x) \in Nat
  OBVIOUS
<1>4. Len(part) = Len(x)
  BY <1>2, <1>3
<1>5. \A i \in 1..Len(x) : i \in 1..(to - (from + 1) + 1) /\ (from + 1) + i - 1 = from + i
  BY <1>3
<1>6. \A i \in 1..Len(x) : x[i] = part[i]
  BY <1>2, <1>5
<1>7. x = part
  BY <1>2, <1>4, <1>6, SeqEqual
<1> QED
  BY <1>7 DEF part

\* What each thread wrote is, line after line, what it logged, and what is left.
LEMMA WholeLines ==
  ASSUME BridgeInv, NEW t \in Callers, ShortLines(t), t \notin starved
  PROVE  LET n == Len(logged[t])
         IN /\ \A i \in 1..n :
                 LET from == Start(t, i)
                     to == ended[t][i]
                 IN /\ logged[t][i].text = SubSeq(wrote[t], from + 1, to)
                    /\ logged[t][i].level = Level(with[t][to])
                    /\ wrote[t][to] = NewLine /\ \A k \in (from + 1)..(to - 1) : wrote[t][k] # NewLine
            /\ fifo[t] \o data[t] = SubSeq(wrote[t], Start(t, n + 1) + 1, Len(wrote[t]))
            /\ \A k \in 1..Len(fifo[t]) : fifo[t][k] # NewLine
<1> DEFINE w == wrote[t]
           g == logged[t]
           e == ended[t]
           f == fifo[t]
           d == data[t]
           last == From(e, Len(e) + 1)
<1>1. /\ Texts(w, with[t], f, d, avLevel[t], g, e)
      /\ WholeSoFar(w, with[t], f, d, avLevel[t], g, e)
  BY DEF BridgeInv, Bridge, BridgeWhole
<1>2. \A i : Start(t, i) = From(e, i)
  BY DEF Start, From
<1> HIDE DEF w, g, e, f, d
<1>3. /\ w \in Seq(Characters) /\ f \in Seq(Characters) /\ d \in Seq(Characters)
      /\ g \in Seq(LogLines) /\ e \in Seq(Nat) /\ Len(e) = Len(g)
      /\ Len(w) \in Nat /\ Len(f) \in Nat /\ Len(d) \in Nat
  BY <1>1 DEF Texts
<1>4. /\ last \in Nat /\ last + Len(f) + Len(d) = Len(w)
      /\ \A i \in 1..Len(f) : f[i] = w[last + i] /\ f[i] # NewLine
      /\ \A i \in 1..Len(d) : d[i] = w[last + Len(f) + i]
      /\ \A i \in 1..Len(e) : LineOf(w, with[t], g[i], From(e, i), e[i])
  BY <1>1 DEF WholeSoFar
<1>5. ASSUME NEW i \in 1..Len(g)
      PROVE  /\ g[i].text = SubSeq(w, From(e, i) + 1, e[i])
             /\ g[i].level = Level(with[t][e[i]])
             /\ w[e[i]] = NewLine /\ \A k \in (From(e, i) + 1)..(e[i] - 1) : w[k] # NewLine
  <2> DEFINE from == From(e, i)
             to == e[i]
             x == g[i].text
  <2>1. LineOf(w, with[t], g[i], from, to)
    BY <1>3, <1>4
  <2>2. x \in Seq(Characters)
    <3>1. g[i] \in LogLines
      BY <1>3
    <3> QED
      BY <3>1 DEF LogLines
  <2> HIDE DEF from, to
  <2>3. /\ from \in Nat /\ to \in Nat /\ to <= Len(w) /\ Len(x) = to - from
        /\ \A k \in 1..Len(x) : x[k] = w[from + k]
    BY <1>3, <2>1 DEF LineOf
  <2> HIDE DEF x
  <2>4. x = SubSeq(w, from + 1, to)
    <3>1. w \in Seq(Characters)
      BY <1>3
    <3> QED
      BY <2>2, <2>3, <3>1, PartOf
  <2> QED
    BY <2>1, <2>4 DEF LineOf, from, to, x
<1> HIDE DEF last
<1>6. f \o d = SubSeq(w, last + 1, Len(w))
  <2> DEFINE x == f \o d
  <2>1. /\ x \in Seq(Characters) /\ Len(x) = Len(f) + Len(d)
        /\ \A i \in 1..(Len(f) + Len(d)) : x[i] = IF i <= Len(f) THEN f[i] ELSE d[i - Len(f)]
    BY <1>3, ConcatProperties
  <2> HIDE DEF x
  <2>2. ASSUME NEW i \in 1..Len(x) PROVE x[i] = w[last + i]
    <3>1. i \in 1..(Len(f) + Len(d))
      BY <2>1
    <3>2. CASE i <= Len(f)
      <4>1. i \in 1..Len(f)
        BY <1>3, <3>2
      <4> QED
        BY <1>4, <2>1, <3>1, <3>2, <4>1
    <3>3. CASE ~(i <= Len(f))
      <4> DEFINE n == i - Len(f)
      <4>1. n \in 1..Len(d) /\ last + Len(f) + n = last + i
        BY <1>3, <1>4, <3>1, <3>3
      <4>2. x[i] = d[n]
        BY <2>1, <3>1, <3>3
      <4> HIDE DEF n
      <4> QED
        BY <1>4, <4>1, <4>2
    <3> QED
      BY <3>2, <3>3
  <2>3. Len(x) = Len(w) - last
    BY <1>3, <1>4, <2>1
  <2>4. x = SubSeq(w, last + 1, Len(w))
    BY <1>3, <1>4, <2>1, <2>2, <2>3, PartOf
  <2> QED
    BY <2>4 DEF x
<1>7. last = Start(t, Len(g) + 1)
  BY <1>2, <1>3 DEF last
<1> QED
  BY ZenonT(150), <1>2, <1>4, <1>5, <1>6, <1>7 DEF w, g, e, f, d

\* Nothing that a thread logs with FFmpeg is lost, doubled or mixed up, whatever
\* pieces it comes in and whatever the other threads log or lose meanwhile.
THEOREM LinesStayWhole == BridgeSpec => []LinesWhole
<1>1. BridgeInit => BridgeInv
  BY BridgeBegins
<1>2. BridgeInv /\ [BridgeNext]_bridgeVars => BridgeInv'
  <2> SUFFICES ASSUME BridgeInv, [BridgeNext]_bridgeVars PROVE BridgeInv'
    OBVIOUS
  <2>1. ASSUME NEW t \in Callers, NEW room \in BOOLEAN, EndLine(t, room) PROVE BridgeInv'
    BY <2>1, BridgeLine
  <2>2. ASSUME NEW t \in Callers, NEW room \in BOOLEAN, KeepRest(t, room) PROVE BridgeInv'
    BY <2>2, BridgeRest
  <2>3. ASSUME NEW t \in Callers, NEW more \in Seq(Characters), NEW l \in AvLevels,
               BridgeCall(t, more, l)
        PROVE  BridgeInv'
    BY <2>3, BridgeCalled
  <2>4. CASE UNCHANGED bridgeVars
    BY <2>4 DEF bridgeVars, BridgeInv, Bridge, BridgeWhole, ShortLines
  <2> QED
    BY <2>1, <2>2, <2>3, <2>4 DEF BridgeNext, BridgeStep
<1>3. BridgeInv => LinesWhole
  BY WholeLines DEF LinesWhole
<1> QED
  BY <1>1, <1>2, <1>3, PTL DEF BridgeSpec

----------------------------------------------------------------------------
(* PathShortener.  Place is how long the cut path would be without the end *)
(* of the buffer; the buffer has what of it is before its end.             *)

TextCharacters == Letters \cup {Sep, Nul}
Cuts == [at : Nat, size : Nat, to : Nat, kept : Nat]

Bound == bufSize - 1
Begin == IF Absolute(path) THEN 1 ELSE 0
Place == IF cuts = <<>> THEN Begin ELSE cuts[Len(cuts)].to + cuts[Len(cuts)].kept + 1

\* Element i while others follow.
CutSoFar(i) ==
  LET c == cuts[i]
  IN /\ c.at = (IF i = 1 THEN 0 ELSE cuts[i - 1].at + cuts[i - 1].size + 1)
     /\ c.to = (IF i = 1 THEN Begin ELSE cuts[i - 1].to + cuts[i - 1].kept + 1)
     /\ c.at + c.size + 1 < Len(text) /\ text[c.at + c.size + 1] = Sep
     /\ \A k \in 1..c.size : text[c.at + k] # Sep
     /\ \A k \in 1..c.kept : c.to + k <= Len(buffer) => buffer[c.to + k] = text[c.at + k]
     /\ i # 1 /\ c.to <= Len(buffer) => buffer[c.to] = Sep
     /\ c.kept <= c.size /\ (c.kept = 0) = (c.size = 0)
     /\ c.to + c.kept + 1 <= Place
     /\ c.kept < c.size => \A k \in 1..(i - 1) : cuts[k].kept <= 1
     /\ over > 0 => c.kept <= 1

\* What was written and what is still to come is too long by what is over; as
\* long as there is something over all elements are cut to one character.
LoopInv ==
  /\ bufSize \in Nat \ {0} /\ Len(path) >= Bound
  /\ text = (IF Absolute(path) THEN Append(Tail(path), Nul) ELSE path)
  /\ at \in 0..Len(text) /\ over \in Nat
  /\ cuts \in Seq(Cuts) /\ buffer \in Seq(TextCharacters)
  /\ Len(buffer) = Least(Place, Bound)
  /\ Place + (Len(text) - at) = Begin + Bound + over
  /\ cuts = <<>> => at = 0
  /\ cuts # <<>> =>
       /\ at = cuts[Len(cuts)].at + cuts[Len(cuts)].size + 1 /\ at < Len(text)
       /\ Place <= Len(buffer) => buffer[Place] = Sep
  /\ \A k \in 1..Len(buffer) : buffer[k] # Nul
  /\ \A i \in 1..Len(cuts) : CutSoFar(i)

ShortenInv ==
  /\ shortening \in {"idle", "begin", "loop", "pointer", "buffer"}
  /\ shortening # "idle" => path \in Paths /\ bufSize \in Nat
  /\ shortening = "loop" => LoopInv
  /\ shortening \in {"pointer", "buffer"} => ShortenedWell

\* Characters go where they belong, as long as there is room.
Written(q, here, chars, r) ==
  /\ r \in Seq(TextCharacters) /\ Len(r) = Least(here + Len(chars), Bound)
  /\ \A i \in 1..Len(q) : i <= Len(r) /\ r[i] = q[i]
  /\ \A i \in 1..Len(chars) : here + i <= Len(r) => r[here + i] = chars[i]
  /\ \A i \in 1..Len(r) : i <= Len(q) \/ i - here \in 1..Len(chars)

LEMMA PutWrites ==
  ASSUME bufSize \in Nat \ {0}, NEW q \in Seq(TextCharacters), NEW here \in Nat,
         Len(q) = Least(here, Bound), NEW chars \in Seq(TextCharacters), NEW r, r = Put(q, chars)
  PROVE  Written(q, here, chars, r)
<1> DEFINE n == Least(Len(chars), Bound - Len(q))
           part == SubSeq(chars, 1, n)
<1>1. Len(q) \in Nat /\ Len(chars) \in Nat /\ Bound \in Nat
  BY DEF Bound
<1>2. n \in 0..Len(chars) /\ Len(q) + n = Least(here + Len(chars), Bound) /\ Len(q) <= here
      /\ n \in 0..(Bound - Len(q)) /\ (here > Len(q) => n = 0)
  <2>1. CASE here < Bound
    <3>1. Len(q) = here
      BY <1>1, <2>1 DEF Least
    <3>2. n = IF Len(chars) < Bound - here THEN Len(chars) ELSE Bound - here
      BY <3>1 DEF Least
    <3>3. Least(here + Len(chars), Bound) = IF here + Len(chars) < Bound THEN here + Len(chars) ELSE Bound
      BY DEF Least
    <3> HIDE DEF n
    <3> QED
      BY <1>1, <2>1, <3>1, <3>2, <3>3
  <2>2. CASE ~(here < Bound)
    <3>1. Len(q) = Bound
      BY <1>1, <2>2 DEF Least
    <3>2. n = 0
      BY <1>1, <3>1 DEF Least
    <3>3. Least(here + Len(chars), Bound) = Bound
      BY <1>1, <2>2 DEF Least
    <3> HIDE DEF n
    <3> QED
      BY <1>1, <2>2, <3>1, <3>2, <3>3
  <2> QED
    BY <2>1, <2>2
<1> HIDE DEF n
<1>3. part \in Seq(TextCharacters) /\ Len(part) = n /\ \A i \in 1..n : part[i] = chars[i]
  <2>1. \A i \in 1..n : chars[i] \in TextCharacters
    BY <1>1, <1>2
  <2>2. /\ part \in Seq(TextCharacters) /\ Len(part) = (IF 1 <= n THEN n - 1 + 1 ELSE 0)
        /\ \A i \in 1..(n - 1 + 1) : part[i] = chars[1 + i - 1]
    BY <1>2, <2>1, SubSeqProperties
  <2> QED
    BY <1>2, <2>2
<1>4. r = q \o part
  BY DEF Put, Bound, n
<1> HIDE DEF part
<1>5. /\ r \in Seq(TextCharacters) /\ Len(r) = Len(q) + n
      /\ \A i \in 1..(Len(q) + n) : r[i] = IF i <= Len(q) THEN q[i] ELSE part[i - Len(q)]
  BY <1>3, <1>4, ConcatProperties
<1>6. \A i \in 1..Len(q) : i <= Len(r) /\ r[i] = q[i]
  BY <1>1, <1>2, <1>5
<1>7. ASSUME NEW i \in 1..Len(chars), here + i <= Len(r) PROVE r[here + i] = chars[i]
  <2>1. here = Len(q) /\ i \in 1..n
    BY <1>1, <1>2, <1>5, <1>7
  <2>2. here + i \in 1..(Len(q) + n) /\ ~(here + i <= Len(q)) /\ (here + i) - Len(q) = i
    BY <1>1, <1>2, <2>1
  <2> QED
    BY <1>3, <1>5, <2>1, <2>2
<1>8. ASSUME NEW i \in 1..Len(r), ~(i <= Len(q)) PROVE i - here \in 1..Len(chars)
  BY <1>1, <1>2, <1>5, <1>8
<1> QED
  BY <1>2, <1>5, <1>6, <1>7, <1>8 DEF Written

\* What the loop goes over is as long as the path; only the last character of
\* an absolute one is the Nul.
LEMMA TextOfPath ==
  ASSUME path \in Paths, NEW x, x = (IF Absolute(path) THEN Append(Tail(path), Nul) ELSE path)
  PROVE  /\ x \in Seq(TextCharacters) /\ Len(x) = Len(path)
         /\ \A i \in 1..Len(x) : x[i] = Nul <=> (Absolute(path) /\ i = Len(x))
         /\ path # <<>> /\ path[Len(path)] # Sep => Len(x) > 0 /\ x[Len(x)] # Sep
<1> USE ShortenAssumption
<1>1. path \in Seq(Letters \cup {Sep}) /\ Len(path) \in Nat /\ (path # <<>> => Len(path) > 0)
  BY DEF Paths
<1>2. \A i \in 1..Len(path) : path[i] # Nul /\ path[i] \in TextCharacters
  <2> TAKE i \in 1..Len(path)
  <2>1. path[i] \in Letters \cup {Sep}
    BY <1>1, ElementOfSeq
  <2> QED
    BY <2>1 DEF TextCharacters
<1>3. CASE ~Absolute(path)
  <2>1. x = path /\ path \in Seq(TextCharacters)
    BY <1>1, <1>3 DEF TextCharacters
  <2> QED
    BY <1>1, <1>2, <1>3, <2>1
<1>4. CASE Absolute(path)
  <2>1. path # <<>>
    BY <1>4 DEF Absolute
  <2> DEFINE tail == Tail(path)
  <2>2. /\ tail \in Seq(Letters \cup {Sep}) /\ Len(tail) = Len(path) - 1
        /\ \A i \in 1..Len(tail) : tail[i] = path[i + 1]
    BY <1>1, <2>1, HeadTailProperties
  <2> HIDE DEF tail
  <2>3. x = Append(tail, Nul) /\ tail \in Seq(TextCharacters) /\ Nul \in TextCharacters
    BY <1>4, <2>2 DEF tail, TextCharacters
  <2>4. /\ x \in Seq(TextCharacters) /\ Len(x) = Len(tail) + 1 /\ x[Len(tail) + 1] = Nul
        /\ \A i \in 1..Len(tail) : x[i] = tail[i]
    <3>1. tail \in Seq(TextCharacters) /\ Nul \in TextCharacters
      BY <2>3
    <3>2. /\ Append(tail, Nul) \in Seq(TextCharacters) /\ Len(Append(tail, Nul)) = Len(tail) + 1
          /\ Append(tail, Nul)[Len(tail) + 1] = Nul
          /\ \A i \in 1..Len(tail) : Append(tail, Nul)[i] = tail[i]
      BY <3>1, AppendProperties
    <3> QED
      BY <2>3, <3>2
  <2>5. Len(x) = Len(path) /\ Len(x) > 0 /\ x[Len(x)] = Nul
    BY <1>1, <2>1, <2>2, <2>4
  <2>6. ASSUME NEW i \in 1..Len(x), i # Len(x) PROVE x[i] # Nul
    <3>1. i \in 1..Len(tail) /\ i + 1 \in 1..Len(path)
      BY <1>1, <2>2, <2>5, <2>6
    <3> QED
      BY <1>2, <2>2, <2>4, <3>1
  <2> QED
    BY <1>4, <2>4, <2>5, <2>6
<1> QED
  BY <1>3, <1>4

\* What is behind a prefix is a path.
LEMMA PathBehindPrefix ==
  ASSUME NEW full \in Paths, NEW prefix \in Paths \cup {NoPrefix}
  PROVE  WithoutPrefix(full, prefix) \in Paths
<1> DEFINE rest == SubSeq(full, Len(prefix) + 1, Len(full))
<1>1. Len(prefix) \in Nat /\ Len(full) \in Nat
  BY DEF Paths, NoPrefix
<1>2. \A i \in (Len(prefix) + 1)..Len(full) : full[i] \in Letters \cup {Sep}
  <2> TAKE i \in (Len(prefix) + 1)..Len(full)
  <2>1. i \in 1..Len(full)
    BY <1>1
  <2> QED
    BY <2>1 DEF Paths
<1>3. rest \in Seq(Letters \cup {Sep})
  <2>1. Len(prefix) + 1 \in Int /\ Len(full) \in Int
    BY <1>1
  <2> QED
    BY <1>2, <2>1, SubSeqProperties
<1> HIDE DEF rest
<1>4. rest # <<>> => Tail(rest) \in Seq(Letters \cup {Sep})
  BY <1>3, HeadTailProperties
<1> QED
  BY <1>3, <1>4 DEF WithoutPrefix, Paths, rest

\* The element that ends at next.
LastOne(next) == next + 1 >= Len(text)
Kept(next) == next - at - Cut(next - at, LastOne(next))

Takes(next) ==
  /\ next < Len(text) => text[next + 1] = Sep
  /\ \A k \in at..(next - 1) : text[k + 1] # Sep
  /\ over' = over - Cut(next - at, LastOne(next))
  /\ buffer' = Put(Put(buffer, SubSeq(text, at + 1, at + Kept(next))),
                   IF LastOne(next) THEN <<>> ELSE <<Sep>>)
  /\ cuts' = Append(cuts, [at |-> at, size |-> next - at, to |-> Place, kept |-> Kept(next)])
  /\ at' = next + 1
  /\ shortening' = IF LastOne(next) THEN "buffer" ELSE "loop"
  /\ path' = path /\ text' = text /\ bufSize' = bufSize

LEMMA ElementTakes ==
  ASSUME Element
  PROVE  shortening = "loop" /\ \E next \in at..Len(text) : Takes(next)
BY DEF Element, Takes, LastOne, Kept, Place, Begin

\* How an element is cut.
LEMMA ElementCut ==
  ASSUME LoopInv, NEW next \in at..Len(text), Takes(next)
  PROVE  /\ next \in Nat /\ next - at \in Nat /\ Kept(next) \in 0..(next - at)
         /\ (Kept(next) = 0) = (next - at = 0)
         /\ over' \in Nat /\ over' = over - ((next - at) - Kept(next))
         /\ LastOne(next) => Kept(next) = next - at
         /\ ~LastOne(next) /\ over' > 0 => Kept(next) <= 1
         /\ Kept(next) < next - at => over > 0
<1> DEFINE n == next - at
           c == Cut(n, LastOne(next))
<1>1. at \in Nat /\ next \in Nat /\ n \in Nat /\ over \in Nat
  <2>1. at \in 0..Len(text) /\ Len(text) \in Nat /\ over \in Nat
    BY DEF LoopInv
  <2> QED
    BY <2>1
<1>2. Kept(next) = n - c /\ over' = over - c
  BY DEF Kept, Takes
<1> HIDE DEF n
<1>3. c = IF LastOne(next) \/ n = 0 THEN 0 ELSE IF n - 1 < over THEN n - 1 ELSE over
  BY DEF Cut, Least
<1> HIDE DEF c
<1>4. c \in Nat /\ c <= over /\ (n = 0 => c = 0) /\ (n > 0 => c < n) /\ (LastOne(next) => c = 0)
      /\ (~LastOne(next) /\ over - c > 0 => n - c <= 1) /\ (c > 0 => over > 0)
  BY <1>1, <1>3
<1>5. /\ n - c \in 0..n /\ (n - c = 0 <=> n = 0) /\ over - c \in Nat /\ over - c = over - (n - (n - c))
      /\ (LastOne(next) => n - c = n) /\ (n - c < n => over > 0)
  BY <1>1, <1>4
<1> QED
  BY <1>1, <1>2, <1>4, <1>5 DEF n

\* What an element writes.
ElementWritten(next, here, kept) ==
  /\ buffer' \in Seq(TextCharacters)
  /\ Len(buffer') = Least(here + kept + (IF LastOne(next) THEN 0 ELSE 1), Bound)
  /\ \A i \in 1..Len(buffer) : i <= Len(buffer') /\ buffer'[i] = buffer[i]
  /\ \A i \in 1..kept : here + i <= Len(buffer') => buffer'[here + i] = text[at + i]
  /\ ~LastOne(next) /\ here + kept + 1 <= Len(buffer') => buffer'[here + kept + 1] = Sep
  /\ \A i \in 1..Len(buffer') :
       i <= Len(buffer) \/ i - here \in 1..kept \/ (~LastOne(next) /\ i = here + kept + 1)

LEMMA PlaceType ==
  ASSUME LoopInv
  PROVE  Place \in Nat
<1>1. cuts \in Seq(Cuts)
  BY DEF LoopInv
<1>2. cuts # <<>> => cuts[Len(cuts)] \in Cuts
  BY <1>1
<1> QED
  BY <1>2 DEF Place, Begin, Cuts

LEMMA ElementWrites ==
  ASSUME LoopInv, path \in Paths, NEW next \in at..Len(text), Takes(next)
  PROVE  ElementWritten(next, Place, Kept(next))
<1> DEFINE kept == Kept(next)
           here == Place
           elem == SubSeq(text, at + 1, at + kept)
           mid == Put(buffer, elem)
           rest == IF LastOne(next) THEN <<>> ELSE <<Sep>>
<1>1. /\ at \in 0..Len(text) /\ text \in Seq(TextCharacters) /\ bufSize \in Nat \ {0}
      /\ buffer \in Seq(TextCharacters) /\ Len(buffer) = Least(here, Bound)
  BY TextOfPath DEF LoopInv
<1>2. kept \in 0..(next - at) /\ next \in 0..Len(text) /\ Len(text) \in Nat /\ at \in Nat
  BY <1>1, ElementCut
<1>3. here \in Nat
  BY PlaceType
<1> HIDE DEF kept, here
<1>4. elem \in Seq(TextCharacters) /\ Len(elem) = kept /\ \A i \in 1..kept : elem[i] = text[at + i]
  <2>1. \A i \in (at + 1)..(at + kept) : text[i] \in TextCharacters
    <3> TAKE i \in (at + 1)..(at + kept)
    <3>1. i \in 1..Len(text)
      BY <1>2
    <3> QED
      BY <1>1, <3>1, ElementOfSeq
  <2>2. /\ elem \in Seq(TextCharacters)
        /\ Len(elem) = IF at + 1 <= at + kept THEN (at + kept) - (at + 1) + 1 ELSE 0
        /\ \A i \in 1..((at + kept) - (at + 1) + 1) : elem[i] = text[(at + 1) + i - 1]
    <3>1. at + 1 \in Int /\ at + kept \in Int
      BY <1>2
    <3> QED
      BY <2>1, <3>1, SubSeqProperties
  <2>3. Len(elem) = kept
    BY <1>2, <2>2
  <2>4. \A i \in 1..kept : i \in 1..((at + kept) - (at + 1) + 1) /\ (at + 1) + i - 1 = at + i
    BY <1>2
  <2> QED
    BY <2>2, <2>3, <2>4
<1> HIDE DEF elem
<1>5. Written(buffer, here, elem, mid)
  BY <1>1, <1>3, <1>4, PutWrites
<1>6. rest \in Seq(TextCharacters) /\ Len(rest) = IF LastOne(next) THEN 0 ELSE 1
  <2>1. Sep \in TextCharacters
    BY DEF TextCharacters
  <2> QED
    BY <2>1
<1>7. buffer' = Put(mid, rest)
  BY DEF Takes, mid, elem, kept, rest
<1> HIDE DEF mid
<1>8. here + kept \in Nat /\ mid \in Seq(TextCharacters) /\ Len(mid) = Least(here + kept, Bound)
  BY <1>2, <1>3, <1>4, <1>5 DEF Written
<1>9. ~LastOne(next) => rest[1] = Sep
  OBVIOUS
<1> HIDE DEF rest
<1>10. Written(mid, here + kept, rest, buffer')
  BY <1>1, <1>6, <1>7, <1>8, PutWrites
<1>11. /\ buffer' \in Seq(TextCharacters) /\ Len(mid) \in Nat /\ Len(buffer') \in Nat
       /\ Len(buffer) \in Nat /\ Bound \in Nat
  BY <1>1, <1>8, <1>10 DEF Written, Bound
<1>12. Len(buffer') = Least(here + kept + (IF LastOne(next) THEN 0 ELSE 1), Bound)
  BY <1>6, <1>10 DEF Written
<1>13. ASSUME NEW i \in 1..Len(buffer) PROVE i <= Len(buffer') /\ buffer'[i] = buffer[i]
  <2>1. i <= Len(mid) /\ mid[i] = buffer[i]
    BY <1>5 DEF Written
  <2>2. i \in 1..Len(mid)
    BY <1>11, <2>1
  <2> QED
    BY <1>10, <2>1, <2>2 DEF Written
<1>14. ASSUME NEW i \in 1..kept, here + i <= Len(buffer') PROVE buffer'[here + i] = text[at + i]
  <2>1. here + i <= Bound /\ here + i <= here + kept
    BY <1>2, <1>3, <1>11, <1>12, <1>14 DEF Least
  <2>2. here + i \in 1..Len(mid)
    BY <1>2, <1>3, <1>8, <1>11, <2>1 DEF Least
  <2>3. mid[here + i] = elem[i]
    BY <1>4, <1>5, <2>2 DEF Written
  <2>4. buffer'[here + i] = mid[here + i]
    BY <1>10, <2>2 DEF Written
  <2> QED
    BY <1>4, <2>3, <2>4
<1>15. ASSUME ~LastOne(next), here + kept + 1 <= Len(buffer')
       PROVE  buffer'[here + kept + 1] = Sep
  <2>1. 1 \in 1..Len(rest)
    BY <1>6, <1>15
  <2> QED
    BY <1>9, <1>10, <1>15, <2>1 DEF Written
<1>16. ASSUME NEW i \in 1..Len(buffer')
       PROVE  i <= Len(buffer) \/ i - here \in 1..kept \/ (~LastOne(next) /\ i = here + kept + 1)
  <2>1. CASE i <= Len(mid)
    <3>1. i \in 1..Len(mid)
      BY <1>11, <2>1
    <3> QED
      BY <1>4, <1>5, <3>1 DEF Written
  <2>2. CASE i - (here + kept) \in 1..Len(rest)
    <3>1. Len(rest) = 1 /\ ~LastOne(next)
      BY <1>6, <2>2
    <3>2. i - (here + kept) = 1
      BY <2>2, <3>1
    <3> QED
      BY <1>2, <1>3, <3>1, <3>2
  <2> QED
    BY <1>10, <2>1, <2>2 DEF Written
<1> QED
  BY <1>11, <1>12, <1>13, <1>14, <1>15, <1>16 DEF ElementWritten, kept, here

\* The row of elements grows by the one that is taken.
LEMMA ElementKnown ==
  ASSUME LoopInv, path \in Paths, NEW next \in at..Len(text), Takes(next)
  PROVE  LET n == Len(cuts) + 1
         IN /\ cuts' \in Seq(Cuts) /\ Len(cuts') = n /\ cuts' # <<>>
            /\ \A i \in 1..Len(cuts) : cuts'[i] = cuts[i]
            /\ cuts'[n].at = at /\ cuts'[n].size = next - at
            /\ cuts'[n].to = Place /\ cuts'[n].kept = Kept(next)
<1> DEFINE c == [at |-> at, size |-> next - at, to |-> Place, kept |-> Kept(next)]
<1>1. cuts \in Seq(Cuts) /\ at \in 0..Len(text) /\ text \in Seq(TextCharacters)
  BY TextOfPath DEF LoopInv
<1>2. next - at \in Nat /\ Kept(next) \in 0..(next - at) /\ Place \in Nat /\ at \in Nat
  BY <1>1, ElementCut, PlaceType
<1>3. c \in Cuts
  BY <1>2 DEF Cuts
<1>4. c.at = at /\ c.size = next - at /\ c.to = Place /\ c.kept = Kept(next)
  OBVIOUS
<1>5. cuts' = Append(cuts, c)
  BY DEF Takes
<1> HIDE DEF c
<1>6. /\ cuts' \in Seq(Cuts) /\ Len(cuts') = Len(cuts) + 1 /\ cuts' # <<>>
      /\ \A i \in 1..Len(cuts) : cuts'[i] = cuts[i]
      /\ cuts'[Len(cuts) + 1] = c
  BY <1>1, <1>3, <1>5, AppendProperties
<1> QED
  BY <1>4, <1>6

\* What was written before an element stays, and so do the elements before it.
LEMMA BufferStays ==
  ASSUME LoopInv, path \in Paths, NEW next \in at..Len(text), Takes(next),
         NEW p \in Nat \ {0}, p <= Place, p <= Len(buffer')
  PROVE  p <= Len(buffer) /\ buffer'[p] = buffer[p]
<1>1. ElementWritten(next, Place, Kept(next))
  BY ElementWrites
<1>2. Place \in Nat /\ Kept(next) \in Nat /\ Bound \in Nat
  <2>1. next - at \in Nat /\ Kept(next) \in 0..(next - at) /\ bufSize \in Nat \ {0}
    BY ElementCut DEF LoopInv
  <2> QED
    BY <2>1, PlaceType DEF Bound
<1>3. Len(buffer) = Least(Place, Bound) /\ Len(buffer) \in Nat
  BY DEF LoopInv
<1>4. p <= Bound
  BY <1>1, <1>2 DEF ElementWritten, Least
<1>5. p \in 1..Len(buffer)
  BY <1>2, <1>3, <1>4 DEF Least
<1> QED
  BY <1>1, <1>5 DEF ElementWritten

\* An element of the row that is there when the next one is taken.
LEMMA OldElement ==
  ASSUME LoopInv, path \in Paths, NEW next \in at..Len(text), Takes(next), NEW i \in 1..Len(cuts)
  PROVE  LET c == cuts[i]
         IN /\ cuts[i] \in Cuts /\ cuts'[i] = c /\ (i # 1 => cuts[i - 1] \in Cuts /\ cuts'[i - 1] = cuts[i - 1])
            /\ CutSoFar(i)
            /\ \A k \in 1..c.kept : c.to + k <= Len(buffer') => buffer'[c.to + k] = text[c.at + k]
            /\ i # 1 /\ c.to <= Len(buffer') => buffer'[c.to] = Sep
            /\ \A k \in 1..(i - 1) : cuts'[k] = cuts[k]
<1> DEFINE c == cuts[i]
<1>1. cuts \in Seq(Cuts) /\ CutSoFar(i) /\ Place \in Nat
  BY PlaceType DEF LoopInv
<1>2. \A k \in 1..Len(cuts) : cuts'[k] = cuts[k] /\ cuts[k] \in Cuts
  BY <1>1, ElementKnown, ElementOfSeq
<1>3. i # 1 => i - 1 \in 1..Len(cuts)
  BY <1>1
<1>4. \A k \in 1..(i - 1) : k \in 1..Len(cuts)
  BY <1>1
<1>5. c \in Cuts /\ c.to \in Nat /\ c.kept \in Nat /\ c.to + c.kept + 1 <= Place
  <2>1. c \in Cuts
    BY <1>2
  <2>2. c.to \in Nat /\ c.kept \in Nat
    BY <2>1 DEF Cuts
  <2>3. c.to + c.kept + 1 <= Place
    BY <1>1 DEF CutSoFar
  <2> QED
    BY <2>1, <2>2, <2>3
<1>6. ASSUME NEW k \in 1..c.kept, c.to + k <= Len(buffer') PROVE buffer'[c.to + k] = text[c.at + k]
  <2>1. c.to + k \in Nat \ {0} /\ c.to + k <= Place
    <3> HIDE DEF c
    <3>1. k \in Nat /\ k > 0 /\ k <= c.kept
      BY <1>5
    <3>2. Place \in Nat /\ c.to \in Nat /\ c.kept \in Nat /\ c.to + c.kept + 1 <= Place
      BY <1>1, <1>5
    <3>3. \A to, kept, m, place \in Nat :
            m > 0 /\ m <= kept /\ to + kept + 1 <= place => to + m \in Nat \ {0} /\ to + m <= place
      OBVIOUS
    <3> QED
      BY <3>1, <3>2, <3>3
  <2>2. c.to + k <= Len(buffer) /\ buffer'[c.to + k] = buffer[c.to + k]
    BY <1>6, <2>1, BufferStays
  <2> QED
    BY <1>1, <2>2 DEF CutSoFar
<1>7. ASSUME i # 1, c.to <= Len(buffer') PROVE buffer'[c.to] = Sep
  <2>1. c.to = cuts[i - 1].to + cuts[i - 1].kept + 1 /\ cuts[i - 1] \in Cuts
    BY <1>1, <1>2, <1>3, <1>7 DEF CutSoFar
  <2>2. cuts[i - 1].to \in Nat /\ cuts[i - 1].kept \in Nat
    BY <2>1 DEF Cuts
  <2>3. c.to # 0
    <3>1. \A m, n \in Nat : m + n + 1 # 0
      OBVIOUS
    <3> QED
      BY <2>1, <2>2, <3>1
  <2>4. c.to \in Nat \ {0} /\ c.to <= Place
    BY <1>1, <1>5, <2>3
  <2>5. c.to <= Len(buffer) /\ buffer'[c.to] = buffer[c.to]
    BY <1>7, <2>4, BufferStays
  <2> QED
    BY <1>1, <1>7, <2>5 DEF CutSoFar
<1> QED
  BY <1>1, <1>2, <1>3, <1>4, <1>6, <1>7

\* An element that others follow.
LEMMA ElementLoops ==
  ASSUME LoopInv, path \in Paths, NEW next \in at..Len(text), Takes(next), ~LastOne(next)
  PROVE  LoopInv'
<1>1. PICK n \in Nat : n = Len(cuts) + 1
  BY DEF LoopInv
<1> DEFINE kept == Kept(next)
           here == Place
<1>2. /\ bufSize \in Nat \ {0} /\ Len(path) >= Bound
      /\ text = (IF Absolute(path) THEN Append(Tail(path), Nul) ELSE path)
      /\ at \in 0..Len(text) /\ over \in Nat /\ Len(text) \in Nat /\ cuts \in Seq(Cuts)
      /\ Len(buffer) = Least(here, Bound)
      /\ here + (Len(text) - at) = Begin + Bound + over
      /\ \A k \in 1..Len(buffer) : buffer[k] # Nul
      /\ cuts # <<>> =>
           /\ at = cuts[Len(cuts)].at + cuts[Len(cuts)].size + 1
           /\ here <= Len(buffer) => buffer[here] = Sep
      /\ cuts = <<>> => at = 0
  BY TextOfPath DEF LoopInv
<1>3. path' = path /\ text' = text /\ bufSize' = bufSize /\ at' = next + 1
      /\ Bound' = Bound /\ Begin' = Begin
      /\ (next < Len(text) => text[next + 1] = Sep) /\ \A k \in at..(next - 1) : text[k + 1] # Sep
  BY DEF Takes, Bound, Begin, Absolute
<1>4. here \in Nat /\ Bound \in Nat /\ Begin \in {0, 1} /\ at \in Nat
  BY <1>2, PlaceType DEF Bound, Begin
<1>5. /\ next \in Nat /\ next - at \in Nat /\ kept \in 0..(next - at)
      /\ (kept = 0) = (next - at = 0)
      /\ over' \in Nat /\ over' = over - ((next - at) - kept)
      /\ (over' > 0 => kept <= 1) /\ (kept < next - at => over > 0)
  BY ElementCut
<1>6. /\ cuts' \in Seq(Cuts) /\ Len(cuts') = n /\ cuts' # <<>>
      /\ \A i \in 1..Len(cuts) : cuts'[i] = cuts[i]
      /\ cuts'[n].at = at /\ cuts'[n].size = next - at
      /\ cuts'[n].to = here /\ cuts'[n].kept = kept
  BY <1>1, ElementKnown
<1>7. ElementWritten(next, here, kept)
  BY ElementWrites
<1> HIDE DEF kept, here
<1>8. Place' = here + kept + 1
  BY <1>6 DEF Place
<1>9. next + 1 < Len(text) /\ next + 1 \in 0..Len(text) /\ text[next + 1] = Sep
  <2>1. next \in Nat /\ Len(text) \in Nat /\ ~(next + 1 >= Len(text))
    BY <1>2, <1>5 DEF LastOne
  <2>2. next + 1 < Len(text) /\ next < Len(text)
    BY <2>1
  <2> QED
    BY <1>3, <2>1, <2>2
<1>10. Len(buffer') = Least(here + kept + 1, Bound) /\ buffer' \in Seq(TextCharacters)
  BY <1>7 DEF ElementWritten
<1>11. Place' + (Len(text) - (next + 1)) = Begin + Bound + over'
  <2>1. kept \in Nat /\ over \in Nat /\ Len(text) \in Nat /\ Begin \in Nat
    BY <1>2, <1>4, <1>5
  <2>2. here + (Len(text) - at) = Begin + Bound + over /\ over' = over - ((next - at) - kept)
    BY <1>2, <1>5
  <2> QED
    BY <1>4, <1>5, <1>8, <2>1, <2>2
<1>12. Place' <= Len(buffer') => buffer'[Place'] = Sep
  BY <1>7, <1>8 DEF ElementWritten
<1>13. ASSUME NEW k \in 1..Len(buffer') PROVE buffer'[k] # Nul
  <2>1. CASE k <= Len(buffer)
    <3>1. k \in 1..Len(buffer)
      BY <1>2, <1>10, <2>1
    <3> QED
      BY <1>2, <1>7, <3>1 DEF ElementWritten
  <2>2. CASE k - here \in 1..kept
    <3> DEFINE j == k - here
    <3>1. j \in 1..kept /\ here + j = k /\ k <= Len(buffer')
      BY <1>4, <1>10, <2>2
    <3>2. at + j <= next
      BY <1>4, <1>5, <3>1
    <3>3. /\ j \in 1..kept /\ here + j = k /\ k <= Len(buffer')
          /\ at + j \in 1..Len(text) /\ at + j < Len(text)
      <4>1. j \in Nat \ {0} /\ next + 1 < Len(text) /\ Len(text) \in Nat /\ next \in Nat /\ at \in Nat
        BY <1>2, <1>4, <1>5, <1>9, <3>1
      <4> HIDE DEF j
      <4>2. at + j > 0 /\ at + j < Len(text)
        BY <3>2, <4>1
      <4> QED
        BY <3>1, <4>1, <4>2
    <3> HIDE DEF j
    <3>4. buffer'[k] = text[at + j]
      BY <1>7, <3>3 DEF ElementWritten
    <3>5. text[at + j] # Nul
      <4>1. \A m \in 1..Len(text) : text[m] = Nul => m = Len(text)
        BY <1>2, TextOfPath
      <4> QED
        BY SMTT(30), <1>2, <3>3, <4>1
    <3> QED
      BY <3>4, <3>5
  <2>3. CASE k = here + kept + 1
    <3>1. k <= Len(buffer')
      BY <1>10
    <3>2. buffer'[k] = Sep
      BY <1>7, <2>3, <3>1 DEF ElementWritten
    <3> QED
      BY <3>2, ShortenAssumption
  <2> QED
    BY <1>7, <2>1, <2>2, <2>3 DEF ElementWritten
<1>14. ASSUME NEW i \in 1..Len(cuts) PROVE CutSoFar(i)'
  <2> DEFINE c == cuts[i]
  <2>1. /\ c \in Cuts /\ cuts'[i] = c /\ (i # 1 => cuts[i - 1] \in Cuts /\ cuts'[i - 1] = cuts[i - 1])
        /\ CutSoFar(i)
        /\ \A k \in 1..c.kept : c.to + k <= Len(buffer') => buffer'[c.to + k] = text[c.at + k]
        /\ i # 1 /\ c.to <= Len(buffer') => buffer'[c.to] = Sep
        /\ \A k \in 1..(i - 1) : cuts'[k] = cuts[k]
    BY OldElement
  <2>2. c.to + c.kept + 1 <= Place'
    <3>1. c.to + c.kept + 1 <= here /\ c.to \in Nat /\ c.kept \in Nat
      BY <2>1 DEF CutSoFar, Cuts, here
    <3>2. here \in Nat /\ kept \in Nat
      BY <1>4, <1>5
    <3> QED
      BY <1>8, <3>1, <3>2
  <2>3. over' > 0 => c.kept <= 1
    <3>1. over' > 0 => over > 0
      BY <1>2, <1>5
    <3> QED
      BY <2>1, <3>1 DEF CutSoFar
  <2> QED
    BY <1>3, <2>1, <2>2, <2>3 DEF CutSoFar
<1>15. CutSoFar(n)'
  <2>1. /\ cuts'[n].at = (IF n = 1 THEN 0 ELSE cuts'[n - 1].at + cuts'[n - 1].size + 1)
        /\ cuts'[n].to = (IF n = 1 THEN Begin ELSE cuts'[n - 1].to + cuts'[n - 1].kept + 1)
    <3>1. CASE cuts = <<>>
      <4>1. n = 1 /\ here = Begin
        BY <1>1, <3>1 DEF here, Place
      <4> QED
        BY <1>2, <1>6, <3>1, <4>1
    <3>2. CASE cuts # <<>>
      <4>1. n # 1 /\ n - 1 = Len(cuts) /\ Len(cuts) \in 1..Len(cuts)
        BY <1>1, <1>2, <3>2
      <4>2. here = cuts[Len(cuts)].to + cuts[Len(cuts)].kept + 1
        BY <3>2 DEF here, Place
      <4> QED
        BY <1>2, <1>6, <3>2, <4>1, <4>2
    <3> QED
      BY <3>1, <3>2
  <2>2. at + (next - at) + 1 < Len(text) /\ text[at + (next - at) + 1] = Sep
    <3>1. at + (next - at) + 1 = next + 1
      BY <1>4, <1>5
    <3> QED
      BY <1>3, <1>9, <3>1
  <2>3. ASSUME NEW k \in 1..(next - at) PROVE text[at + k] # Sep
    <3>1. (at + k) - 1 \in at..(next - 1) /\ ((at + k) - 1) + 1 = at + k
      BY <1>4, <1>5
    <3> QED
      BY <1>3, <3>1
  <2>4. \A k \in 1..kept : here + k <= Len(buffer') => buffer'[here + k] = text[at + k]
    BY <1>7 DEF ElementWritten
  <2>5. ASSUME n # 1, here <= Len(buffer') PROVE buffer'[here] = Sep
    <3>1. cuts # <<>> /\ cuts[Len(cuts)] \in Cuts
      BY <1>1, <1>2, <2>5
    <3>2. here = cuts[Len(cuts)].to + cuts[Len(cuts)].kept + 1
      BY <3>1 DEF here, Place
    <3>3. here \in Nat \ {0} /\ here <= here
      BY <3>1, <3>2 DEF Cuts
    <3>4. here <= Len(buffer) /\ buffer'[here] = buffer[here]
      BY <2>5, <3>3, BufferStays DEF here
    <3> QED
      BY <1>2, <3>1, <3>4
  <2>6. kept <= next - at /\ here + kept + 1 <= Place'
    BY <1>4, <1>5, <1>8
  <2>7. ASSUME kept < next - at, NEW k \in 1..(n - 1) PROVE cuts'[k].kept <= 1
    <3>1. over > 0 /\ k \in 1..Len(cuts)
      BY <1>1, <1>2, <1>5, <2>7
    <3>2. CutSoFar(k)
      BY <3>1 DEF LoopInv
    <3> QED
      BY <1>6, <3>1, <3>2 DEF CutSoFar
  <2> QED
    BY <1>3, <1>5, <1>6, <2>1, <2>2, <2>3, <2>4, <2>5, <2>6, <2>7 DEF CutSoFar
<1>16. \A i \in 1..Len(cuts') : CutSoFar(i)'
  <2> TAKE i \in 1..Len(cuts')
  <2>1. i = n \/ i \in 1..Len(cuts)
    BY <1>1, <1>2, <1>6
  <2> QED
    BY <1>14, <1>15, <2>1
<1>17. at' = cuts'[Len(cuts')].at + cuts'[Len(cuts')].size + 1 /\ at' < Len(text')
  BY <1>3, <1>4, <1>5, <1>6, <1>9
<1>18. bufSize' \in Nat \ {0} /\ Len(path') >= Bound' /\ at' \in 0..Len(text')
       /\ text' = (IF Absolute(path') THEN Append(Tail(path'), Nul) ELSE path')
  BY <1>2, <1>3, <1>9
<1> QED
  BY <1>3, <1>5, <1>6, <1>8, <1>10, <1>11, <1>12, <1>13, <1>16, <1>17, <1>18 DEF LoopInv

\* The last element: with it the cut path is as long as the buffer is, or more
\* than that by what is over.
LEMMA ElementEnds ==
  ASSUME LoopInv, path \in Paths, NEW next \in at..Len(text), Takes(next), LastOne(next)
  PROVE  ShortenedWell'
<1>1. PICK n \in Nat : n = Len(cuts) + 1
  BY DEF LoopInv
<1> DEFINE kept == Kept(next)
           here == Place
<1>2. /\ bufSize \in Nat \ {0} /\ Len(path) >= Bound
      /\ text = (IF Absolute(path) THEN Append(Tail(path), Nul) ELSE path)
      /\ at \in 0..Len(text) /\ over \in Nat /\ Len(text) \in Nat /\ cuts \in Seq(Cuts)
      /\ Len(buffer) = Least(here, Bound) /\ buffer \in Seq(TextCharacters)
      /\ here + (Len(text) - at) = Begin + Bound + over
      /\ \A k \in 1..Len(buffer) : buffer[k] # Nul
      /\ cuts # <<>> =>
           /\ at = cuts[Len(cuts)].at + cuts[Len(cuts)].size + 1 /\ at < Len(text)
           /\ here <= Len(buffer) => buffer[here] = Sep
      /\ cuts = <<>> => at = 0
  BY TextOfPath DEF LoopInv
<1>3. /\ path' = path /\ text' = text /\ bufSize' = bufSize /\ shortening' = "buffer"
      /\ (next < Len(text) => text[next + 1] = Sep) /\ \A k \in at..(next - 1) : text[k + 1] # Sep
  BY DEF Takes
<1>4. here \in Nat /\ Bound \in Nat /\ Begin = (IF Absolute(path) THEN 1 ELSE 0) /\ at \in Nat
  BY SMTT(30), <1>2, PlaceType DEF Bound, Begin
<1>5. /\ next \in Nat /\ next - at \in Nat /\ kept = next - at /\ over' = over
      /\ (kept = 0) = (next - at = 0)
  <2>1. /\ next \in Nat /\ next - at \in Nat /\ kept = next - at
        /\ over' = over - ((next - at) - kept) /\ (kept = 0) = (next - at = 0)
    BY ElementCut
  <2> QED
    BY <1>2, <2>1
<1>6. /\ cuts' \in Seq(Cuts) /\ Len(cuts') = n /\ cuts' # <<>>
      /\ \A i \in 1..Len(cuts) : cuts'[i] = cuts[i]
      /\ cuts'[n].at = at /\ cuts'[n].size = next - at
      /\ cuts'[n].to = here /\ cuts'[n].kept = kept
  BY <1>1, ElementKnown
<1>7. ElementWritten(next, here, kept)
  BY ElementWrites
<1> HIDE DEF kept, here
<1>8. Len(buffer') = Least(here + kept, Bound)
  BY <1>2, <1>4, <1>5, <1>7 DEF ElementWritten
<1>9. Len(buffer') < bufSize'
  <2>1. here \in Nat /\ kept \in Nat /\ bufSize \in Nat \ {0}
    BY <1>2, <1>4, <1>5
  <2>2. Least(here + kept, bufSize - 1) < bufSize
    BY <2>1 DEF Least
  <2> QED
    BY <1>3, <1>8, <2>2 DEF Bound
<1>10. ASSUME path # <<>>, path[Len(path)] # Sep
      PROVE  /\ next = Len(text) /\ at < Len(text) /\ here + kept = Begin + Bound + over /\ kept > 0
  <2>1. Len(text) > 0 /\ text[Len(text)] # Sep
    BY <1>2, <1>10, TextOfPath
  <2>2. next <= Len(text) /\ next + 1 >= Len(text)
    BY <1>2, <1>5 DEF LastOne
  <2>3. next # Len(text) - 1
    BY <1>2, <1>3, <2>1
  <2>4. next = Len(text)
    BY <1>2, <1>5, <2>2, <2>3
  <2>5. at < Len(text)
    BY <1>2, <2>1
  <2>6. kept = Len(text) - at
    BY <1>5, <2>4
  <2> QED
    BY <1>2, <1>4, <2>4, <2>5, <2>6
<1>11. ASSUME NEW i \in 1..Len(cuts')
       PROVE  /\ (cuts'[i].kept = 0) = (cuts'[i].size = 0)
              /\ i = Len(cuts') => cuts'[i].kept = cuts'[i].size
  <2>1. CASE i = n
    BY <1>5, <1>6, <2>1
  <2>2. CASE i \in 1..Len(cuts)
    <3>1. CutSoFar(i) /\ cuts'[i] = cuts[i] /\ i # Len(cuts')
      BY <1>1, <1>2, <1>6, <2>2 DEF LoopInv
    <3> QED
      BY <3>1 DEF CutSoFar
  <2> QED
    BY <1>1, <1>2, <1>6, <2>1, <2>2
<1>12. ASSUME over # 0, NEW i \in 1..(Len(cuts') - 1) PROVE cuts'[i].kept <= 1
  <2>1. i \in 1..Len(cuts) /\ over > 0
    BY <1>1, <1>2, <1>6, <1>12
  <2>2. CutSoFar(i) /\ cuts'[i] = cuts[i]
    BY <1>6, <2>1 DEF LoopInv
  <2> QED
    BY <2>1, <2>2 DEF CutSoFar
<1>13. ASSUME path # <<>>, path[Len(path)] # Sep, over = 0
       PROVE  /\ Len(buffer') = bufSize' - 1
              /\ \A k \in 1..Len(buffer') : buffer'[k] # Nul
              /\ \A i \in 1..Len(cuts') :
                   /\ CutElement(i)'
                   /\ cuts'[i].kept < cuts'[i].size => \A k \in 1..(i - 1) : cuts'[k].kept <= 1
  <2>1. /\ next = Len(text) /\ at < Len(text) /\ kept > 0 /\ kept \in Nat
        /\ here + kept = Begin + Bound /\ Begin \in {0, 1}
    <3>1. here + kept = Begin + Bound + 0 /\ Begin \in {0, 1}
      BY <1>4, <1>10, <1>13
    <3> QED
      BY <1>4, <1>5, <1>10, <1>13, <3>1
  <2>2. Len(buffer') = Bound
    <3>1. ~(here + kept < Bound)
      BY <1>4, <2>1
    <3> QED
      BY <1>8, <3>1 DEF Least
  <2>3. here <= Bound /\ Len(buffer) = here
    <3>1. here <= Bound
      BY <1>4, <2>1
    <3> QED
      BY <1>2, <1>4, <3>1 DEF Least
  <2>4. ASSUME NEW k \in 1..Len(buffer') PROVE buffer'[k] # Nul
    <3>1. CASE k <= Len(buffer)
      <4>1. k \in 1..Len(buffer)
        BY <1>4, <2>2, <2>3, <3>1
      <4> QED
        BY <1>2, <1>7, <4>1 DEF ElementWritten
    <3>2. CASE k - here \in 1..kept
      <4> DEFINE j == k - here
      <4>1. j \in 1..kept /\ here + j = k /\ k <= Len(buffer') /\ k <= Bound
        BY <1>4, <2>2, <3>2
      <4>2. j \in Nat \ {0} /\ at + j <= Len(text)
        BY <1>2, <1>4, <1>5, <2>1, <4>1
      <4> HIDE DEF j
      <4>3. buffer'[k] = text[at + j]
        BY <1>7, <4>1 DEF ElementWritten
      <4>4. at + j \in 1..Len(text)
        BY <1>2, <1>4, <4>2
      <4>5. SUFFICES ASSUME text[at + j] = Nul PROVE FALSE
        BY <4>3
      <4>6. Absolute(path) /\ at + j = Len(text)
        BY <1>2, <4>4, <4>5, TextOfPath
      <4>7. kept = Len(text) - at /\ Begin = 1
        BY <1>4, <1>5, <2>1, <4>6
      <4>8. j = kept
        BY <1>2, <1>4, <4>2, <4>6, <4>7
      <4> QED
        BY <1>4, <2>1, <4>1, <4>7, <4>8
    <3> QED
      BY <1>7, <3>1, <3>2 DEF ElementWritten
  <2>5. ASSUME NEW i \in 1..Len(cuts)
        PROVE  /\ CutElement(i)'
               /\ cuts'[i].kept < cuts'[i].size => \A k \in 1..(i - 1) : cuts'[k].kept <= 1
    <3> DEFINE c == cuts[i]
    <3>1. /\ c \in Cuts /\ cuts'[i] = c /\ (i # 1 => cuts[i - 1] \in Cuts /\ cuts'[i - 1] = cuts[i - 1])
          /\ CutSoFar(i)
          /\ \A k \in 1..c.kept : c.to + k <= Len(buffer') => buffer'[c.to + k] = text[c.at + k]
          /\ i # 1 /\ c.to <= Len(buffer') => buffer'[c.to] = Sep
          /\ \A k \in 1..(i - 1) : cuts'[k] = cuts[k]
      BY OldElement
    <3>2. i # Len(cuts') /\ c.at + c.size # Len(text)
      <4>1. c.at \in Nat /\ c.size \in Nat /\ c.at + c.size + 1 < Len(text)
        BY <3>1 DEF CutSoFar, Cuts
      <4>2. Len(text) \in Nat
        BY <1>1
      <4>3. c.at + c.size # Len(text)
        BY <4>1, <4>2
      <4>4. Len(cuts') = Len(cuts) + 1 /\ Len(cuts) \in Nat
        BY <1>1, <1>2, <1>6
      <4>5. i # Len(cuts')
        BY <4>4
      <4> QED
        BY <4>3, <4>5
    <3>3. c.to <= Len(buffer')
      <4>1. c.to \in Nat /\ c.kept \in Nat /\ c.to + c.kept + 1 <= here
        BY <3>1 DEF CutSoFar, Cuts, here
      <4> QED
        BY <1>4, <2>2, <2>3, <4>1
    <3> QED
      BY <1>3, <3>1, <3>2, <3>3 DEF CutElement, CutSoFar, Begin
  <2>6. CutElement(n)'
    <3>1. /\ cuts'[n].at = (IF n = 1 THEN 0 ELSE cuts'[n - 1].at + cuts'[n - 1].size + 1)
          /\ cuts'[n].to = (IF n # 1 THEN cuts'[n - 1].to + cuts'[n - 1].kept + 1
                            ELSE IF Absolute(path) THEN 1 ELSE 0)
      <4>1. CASE cuts = <<>>
        <5>1. n = 1 /\ here = Begin
          BY <1>1, <4>1 DEF here, Place
        <5> QED
          BY <1>2, <1>4, <1>6, <4>1, <5>1
      <4>2. CASE cuts # <<>>
        <5>1. n # 1 /\ n - 1 = Len(cuts) /\ Len(cuts) \in 1..Len(cuts)
          BY <1>1, <1>2, <4>2
        <5>2. here = cuts[Len(cuts)].to + cuts[Len(cuts)].kept + 1
          BY <4>2 DEF here, Place
        <5> QED
          BY <1>2, <1>6, <4>2, <5>1, <5>2
      <4> QED
        BY <4>1, <4>2
    <3>2. at + (next - at) = Len(text)
      BY <1>4, <1>5, <2>1
    <3>3. ASSUME NEW k \in 1..(next - at) PROVE text[at + k] # Sep
      <4>1. (at + k) - 1 \in at..(next - 1) /\ ((at + k) - 1) + 1 = at + k
        BY <1>4, <1>5
      <4> QED
        BY <1>3, <4>1
    <3>4. \A k \in 1..kept : here + k <= Len(buffer') => buffer'[here + k] = text[at + k]
      BY <1>7 DEF ElementWritten
    <3>5. ASSUME n # 1 PROVE buffer'[here] = Sep
      <4>1. cuts # <<>> /\ cuts[Len(cuts)] \in Cuts
        BY <1>1, <1>2, <3>5
      <4>2. here = cuts[Len(cuts)].to + cuts[Len(cuts)].kept + 1
        BY <4>1 DEF here, Place
      <4>3. here \in Nat \ {0} /\ here <= here /\ here <= Len(buffer')
        BY <2>2, <2>3, <4>1, <4>2 DEF Cuts
      <4>4. here <= Len(buffer) /\ buffer'[here] = buffer[here]
        BY <4>3, BufferStays DEF here
      <4> QED
        BY <1>2, <4>1, <4>4
    <3> QED
      BY <1>3, <1>6, <3>1, <3>2, <3>3, <3>4, <3>5 DEF CutElement
  <2>7. ~(cuts'[n].kept < cuts'[n].size)
    BY <1>5, <1>6
  <2>8. \A i \in 1..Len(cuts') : i = n \/ i \in 1..Len(cuts)
    BY <1>1, <1>2, <1>6
  <2>9. Len(buffer') = bufSize' - 1
    BY <1>3, <2>2 DEF Bound
  <2> QED
    BY <2>4, <2>5, <2>6, <2>7, <2>8, <2>9
<1> QED
  BY <1>2, <1>3, <1>5, <1>9, <1>11, <1>12, <1>13 DEF ShortenedWell

\* The loop begins with all of the path over but what fits.
LEMMA LoopBegins ==
  ASSUME path \in Paths, bufSize \in Nat, BeginLoop
  PROVE  LoopInv'
<1>1. /\ bufSize \in Nat \ {0} /\ Len(path) \in Nat /\ Bound \in Nat /\ Len(path) >= Bound
      /\ Begin = (IF Absolute(path) THEN 1 ELSE 0)
  BY DEF BeginLoop, Bound, Begin, Paths
<1>2. /\ text' = (IF Absolute(path) THEN Append(Tail(path), Nul) ELSE path)
      /\ buffer' = (IF Absolute(path) THEN Put(<<>>, <<Sep>>) ELSE <<>>)
      /\ over' = Len(path) - Bound /\ at' = 0 /\ cuts' = <<>>
      /\ path' = path /\ bufSize' = bufSize /\ Bound' = Bound /\ Begin' = Begin
  BY DEF BeginLoop, Bound, Begin, Absolute
<1>3. Len(text') = Len(path)
  BY <1>2, TextOfPath
<1>4. Place' = Begin
  BY <1>2 DEF Place
<1>5. /\ buffer' \in Seq(TextCharacters) /\ Len(buffer') = Least(Begin, Bound)
      /\ \A k \in 1..Len(buffer') : buffer'[k] # Nul
  <2>1. CASE Absolute(path)
    <3> DEFINE empty == <<>>
               one == <<Sep>>
    <3>1. empty \in Seq(TextCharacters) /\ Len(empty) = 0 /\ Len(empty) = Least(0, Bound)
      BY <1>1 DEF Least
    <3>2. one \in Seq(TextCharacters) /\ Len(one) = 1 /\ one[1] = Sep
      BY DEF TextCharacters
    <3>3. buffer' = Put(empty, one)
      BY <1>2, <2>1
    <3> HIDE DEF empty, one
    <3>4. PICK none \in Nat : none = 0
      OBVIOUS
    <3>5. Written(empty, none, one, buffer')
      <4>1. Len(empty) = Least(none, Bound)
        BY <3>4, <3>1
      <4> QED
        BY <1>1, <3>1, <3>2, <3>3, <4>1, PutWrites
    <3>6. Len(buffer') = Least(Begin, Bound) /\ buffer' \in Seq(TextCharacters)
      BY <1>1, <2>1, <3>4, <3>2, <3>5 DEF Written
    <3>7. ASSUME NEW k \in 1..Len(buffer') PROVE buffer'[k] # Nul
      <4>1. k = 1 /\ k <= Len(buffer')
        BY <3>4, <3>1, <3>2, <3>5, <3>6 DEF Written
      <4>2. 1 \in 1..Len(one) /\ none + 1 = 1
        BY <3>4, <3>2
      <4>3. buffer'[1] = one[1]
        BY <3>5, <4>1, <4>2 DEF Written
      <4> QED
        BY <3>2, <4>1, <4>3, ShortenAssumption
    <3> QED
      BY <3>6, <3>7
  <2>2. CASE ~Absolute(path)
    <3>1. buffer' = <<>> /\ Begin = 0 /\ Least(0, Bound) = 0
      BY <1>1, <1>2, <2>2 DEF Least
    <3> QED
      BY <3>1
  <2> QED
    BY <2>1, <2>2
<1>6. over' \in Nat /\ Begin + (Len(path) - 0) = Begin + Bound + over'
  BY <1>1, <1>2
<1>7. cuts' \in Seq(Cuts) /\ Len(cuts') = 0
  BY <1>2
<1> QED
  BY <1>1, <1>2, <1>3, <1>4, <1>5, <1>6, <1>7 DEF LoopInv

\* An absolute path is the separator and the rest.
LEMMA ShortIsWell ==
  ASSUME path \in Paths, bufSize \in Nat, ReturnShort
  PROVE  ShortenedWell'
<1>1. path \in Seq(Letters \cup {Sep}) /\ Len(path) < bufSize - 1
  BY DEF Paths, ReturnShort
<1>2. /\ shortening' = "pointer" /\ path' = path /\ bufSize' = bufSize /\ bufSize > 0
      /\ buffer' = (IF Absolute(path) THEN Tail(path) ELSE path)
  BY DEF ReturnShort, Point
<1>3. path \in {buffer', <<Sep>> \o buffer'} /\ Len(buffer') < bufSize
  <2>1. CASE ~Absolute(path)
    BY <1>1, <1>2, <2>1
  <2>2. CASE Absolute(path)
    <3>1. path # <<>> /\ Head(path) = Sep
      BY <2>2 DEF Absolute
    <3> DEFINE tail == Tail(path)
               whole == <<Sep>> \o tail
    <3>2. /\ tail \in Seq(Letters \cup {Sep}) /\ Len(tail) = Len(path) - 1
          /\ \A i \in 1..Len(tail) : tail[i] = path[i + 1]
      BY <1>1, <3>1, HeadTailProperties
    <3>3. buffer' = tail /\ path[1] = Sep
      BY <1>1, <1>2, <2>2, <3>1
    <3> HIDE DEF tail
    <3>4. <<Sep>> \in Seq(Letters \cup {Sep}) /\ Len(<<Sep>>) = 1 /\ <<Sep>>[1] = Sep
      OBVIOUS
    <3>5. /\ whole \in Seq(Letters \cup {Sep}) /\ Len(whole) = 1 + Len(tail)
          /\ \A i \in 1..(1 + Len(tail)) : whole[i] = IF i <= 1 THEN <<Sep>>[i] ELSE tail[i - 1]
      BY <3>2, <3>4, ConcatProperties
    <3> HIDE DEF whole
    <3>6. Len(whole) = Len(path)
      BY <1>1, <3>2, <3>5
    <3>7. ASSUME NEW i \in 1..Len(whole) PROVE whole[i] = path[i]
      <4>1. CASE i = 1
        BY <3>3, <3>4, <3>5, <4>1
      <4>2. CASE i # 1
        <5>1. i - 1 \in 1..Len(tail) /\ (i - 1) + 1 = i /\ ~(i <= 1) /\ i \in 1..(1 + Len(tail))
          BY <3>2, <3>5, <4>2
        <5> QED
          BY <3>2, <3>5, <5>1
      <4> QED
        BY <4>1, <4>2
    <3>8. whole = path
      BY <1>1, <3>5, <3>6, <3>7, SeqEqual
    <3>9. Len(buffer') < bufSize
      BY <1>1, <3>2, <3>3
    <3> QED
      BY <3>3, <3>8, <3>9 DEF whole
  <2> QED
    BY <2>1, <2>2
<1> QED
  BY <1>2, <1>3 DEF ShortenedWell

\* A file name is cut as it should be, whatever the path, the root prefix and
\* the width.
THEOREM PathsShortenedWell == ShortenSpec => []ShortenedWell
<1>1. ShortenInit => ShortenInv
  BY DEF ShortenInit, ShortenInv
<1>2. ShortenInv /\ [ShortenNext]_shortenVars => ShortenInv'
  <2> SUFFICES ASSUME ShortenInv, [ShortenNext]_shortenVars PROVE ShortenInv'
    OBVIOUS
  <2>1. ASSUME NEW limit \in 0..(SizeSpan - 1), NEW full \in Paths, NEW prefix \in Paths \cup {NoPrefix},
               ShortenCall(limit, full, prefix)
        PROVE  ShortenInv'
    <3>1. path' \in Paths /\ shortening' = "begin"
      BY <2>1, PathBehindPrefix DEF ShortenCall
    <3>2. bufSize' \in Nat
      BY <2>1, ShortenAssumption DEF ShortenCall
    <3> QED
      BY <3>1, <3>2 DEF ShortenInv
  <2>2. CASE ReturnPath
    <3>1. path \in Paths /\ bufSize \in Nat
      BY <2>2 DEF ReturnPath, ShortenInv
    <3>2. /\ shortening' = "pointer" /\ buffer' = path /\ path' = path
          /\ bufSize' = 0
      BY <2>2 DEF ReturnPath, Point
    <3>3. ShortenedWell'
      BY <3>2 DEF ShortenedWell
    <3> QED
      BY <3>1, <3>2, <3>3 DEF ShortenInv
  <2>3. CASE ReturnShort
    <3>1. path \in Paths /\ bufSize \in Nat
      BY <2>3 DEF ReturnShort, ShortenInv
    <3>2. shortening' = "pointer" /\ path' = path /\ bufSize' = bufSize
      BY <2>3 DEF ReturnShort, Point
    <3> QED
      BY <2>3, <3>1, <3>2, ShortIsWell DEF ShortenInv
  <2>4. CASE BeginLoop
    <3>1. path \in Paths /\ bufSize \in Nat
      BY <2>4 DEF BeginLoop, ShortenInv
    <3>2. shortening' = "loop" /\ path' = path /\ bufSize' = bufSize
      BY <2>4 DEF BeginLoop
    <3> QED
      BY <2>4, <3>1, <3>2, LoopBegins DEF ShortenInv
  <2>5. CASE Element
    <3>1. shortening = "loop" /\ \E next \in at..Len(text) : Takes(next)
      BY <2>5, ElementTakes
    <3>2. PICK next \in at..Len(text) : Takes(next)
      BY <3>1
    <3>3. path \in Paths /\ bufSize \in Nat /\ LoopInv
      BY <3>1 DEF ShortenInv
    <3>4. /\ path' = path /\ bufSize' = bufSize
          /\ shortening' = IF LastOne(next) THEN "buffer" ELSE "loop"
      BY <3>2 DEF Takes
    <3>5. CASE LastOne(next)
      BY <3>2, <3>3, <3>4, <3>5, ElementEnds DEF ShortenInv
    <3>6. CASE ~LastOne(next)
      BY <3>2, <3>3, <3>4, <3>6, ElementLoops DEF ShortenInv
    <3> QED
      BY <3>5, <3>6
  <2>6. CASE ShortenReturn
    BY <2>6 DEF ShortenReturn, ShortenInv
  <2>7. CASE UNCHANGED shortenVars
    <3>1. LoopInv => LoopInv'
      BY ZenonT(40), <2>7 DEF shortenVars, LoopInv, CutSoFar, Place, Begin, Bound, Absolute
    <3>2. ShortenedWell => ShortenedWell'
      BY <2>7 DEF shortenVars, ShortenedWell, CutElement, Absolute
    <3> QED
      BY <2>7, <3>1, <3>2 DEF shortenVars, ShortenInv
  <2> QED
    BY <2>1, <2>2, <2>3, <2>4, <2>5, <2>6, <2>7 DEF ShortenNext, ShortenStep
<1>3. ShortenInv => ShortenedWell
  BY DEF ShortenInv, ShortenedWell
<1> QED
  BY <1>1, <1>2, <1>3, PTL DEF ShortenSpec
=============================================================================
