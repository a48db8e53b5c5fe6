------------------------------ MODULE RamFrame ------------------------------
(***************************************************************************)
(* Pixel formats (libsve4_utils/formats.c) and the layout of frames in     *)
(* memory (libsve4_decode/ram_frame.c): one buffer, whose data begin with  *)
(* the sve4_decode_ram_frame_t and hold plane after plane.  One iteration  *)
(* of the loop over the planes is one step.  Sums and products are those   *)
(* of sizes that a size_t holds and, for rows of FFmpeg's, an int.         *)
(***************************************************************************)
EXTENDS Integers, Sequences

CONSTANTS
  MallocAlign,   \* SVE4_MAX_ALIGN, which the addresses of blocks are multiples of
  BufferHeader,  \* what a sve4_buffer_t has before its data
  FrameHeader,   \* sizeof(sve4_decode_ram_frame_t)
  Alignments,    \* the powers of two, which sve4_align_up asserts
  MaxFrameSize   \* bound: the sizes that are computed without overflow

ASSUME FrameAssumption ==
  /\ MallocAlign \in Nat \ {0} /\ BufferHeader \in Nat /\ FrameHeader \in Nat \ {0}
  /\ Alignments \subseteq Nat \ {0} /\ MaxFrameSize \in Nat

VARIABLES
  laying,             \* "idle", in the "loop", or "done"
  frame,              \* the arguments: fmt, width, height and plane_align
  size,               \* of the data, up to and with the plane before
  offsets, linesizes, \* of the planes so far
  address             \* of the data, the sve4_decode_ram_frame_t

frameVars == <<laying, frame, size, offsets, linesizes, address>>

Default(pixfmt) == [source |-> "default", pixfmt |-> pixfmt]
Ffmpeg(pixfmt) == [source |-> "ffmpeg", pixfmt |-> pixfmt]

Formats == {Default(f) : f \in {"RGBA8", "ARGB8"}} \cup {Ffmpeg(f) : f \in {"RGBA", "ARGB", "YUV420P"}}

\* av_image_get_linesize for each plane; the length is av_pix_fmt_count_planes.
FfmpegLines(pixfmt, width) ==
  IF pixfmt = "YUV420P" THEN <<width, (width + 1) \div 2, (width + 1) \div 2>> ELSE <<4 * width>>

\* sve4_align_up.
AlignUp(n, align) == ((n + align - 1) \div align) * align

NumPlanes(fmt) == IF fmt.source = "default" THEN 1 ELSE Len(FfmpegLines(fmt.pixfmt, 1))

\* The bytes of a row, and those from one row to the next.
Row(fmt, plane, width) ==
  IF fmt.source = "default" THEN 4 * width ELSE FfmpegLines(fmt.pixfmt, width)[plane]

Linesize(fmt, plane, width, align) == AlignUp(Row(fmt, plane, width), align)

\* Two formats of FFmpeg have a name of the library's own.
Canonicalize(fmt) ==
  CASE fmt = Ffmpeg("RGBA") -> Default("RGBA8")
    [] fmt = Ffmpeg("ARGB") -> Default("ARGB8")
    [] OTHER -> fmt

PixfmtEq(lhs, rhs) == Canonicalize(lhs) = Canonicalize(rhs)

NoFrame == [fmt |-> Default("RGBA8"), width |-> 1, height |-> 1, aligns |-> <<>>]

FrameInit ==
  /\ laying = "idle" /\ frame = NoFrame
  /\ size = 0 /\ offsets = <<>> /\ linesizes = <<>> /\ address = 0

\* sve4_decode_alloc_ram_frame, and what it asserts.
FrameCall(fmt, width, height, aligns) ==
  /\ laying = "idle" /\ width > 0 /\ height > 0
  /\ Len(aligns) = NumPlanes(fmt)
  /\ laying' = "loop"
  /\ frame' = [fmt |-> fmt, width |-> width, height |-> height, aligns |-> aligns]
  /\ size' = FrameHeader /\ offsets' = <<>> /\ linesizes' = <<>>
  /\ UNCHANGED address

\* Variant with a plausible mistake; no run uses it.  A plane ends where its
\* rows would without their alignment:
PlaneTight ==
  LET plane == Len(offsets) + 1
      align == frame.aligns[plane]
      linesize == Linesize(frame.fmt, plane, frame.width, align)
      offset == AlignUp(size, align)
  IN /\ laying = "loop" /\ plane <= NumPlanes(frame.fmt)
     /\ offsets' = Append(offsets, offset)
     /\ linesizes' = Append(linesizes, linesize)
     /\ size' = offset + Row(frame.fmt, plane, frame.width) * frame.height
     /\ UNCHANGED <<laying, frame, address>>

\* An iteration.  Every plane has as many rows as the frame.
Plane ==
  LET plane == Len(offsets) + 1
      align == frame.aligns[plane]
      linesize == Linesize(frame.fmt, plane, frame.width, align)
      offset == AlignUp(size, align)
  IN /\ laying = "loop" /\ plane <= NumPlanes(frame.fmt)
     /\ offsets' = Append(offsets, offset)
     /\ linesizes' = Append(linesizes, linesize)
     /\ size' = offset + linesize * frame.height
     /\ UNCHANGED <<laying, frame, address>>

LaidOut == laying = "loop" /\ Len(offsets) = NumPlanes(frame.fmt)

\* sve4_buffer_create, for which sve4_calloc returned a block.  The alignments
\* of the planes do not go into it.
FrameCreate(block) ==
  /\ LaidOut /\ BufferHeader + size <= MaxFrameSize
  /\ laying' = "done" /\ address' = block + BufferHeader
  /\ UNCHANGED <<frame, size, offsets, linesizes>>

FrameReset ==
  /\ laying' = "idle" /\ frame' = NoFrame
  /\ size' = 0 /\ offsets' = <<>> /\ linesizes' = <<>> /\ address' = 0

\* Without memory there is no frame.
FrameFail == LaidOut /\ FrameReset
FrameFree == laying = "done" /\ FrameReset

FrameStep == Plane \/ FrameFail \/ FrameFree

FrameNext ==
  \/ FrameStep
  \/ \E k \in Nat : FrameCreate(k * MallocAlign)
  \/ \E fmt \in Formats, width, height \in Nat, aligns \in Seq(Alignments) :
       FrameCall(fmt, width, height, aligns)

FrameSpec == FrameInit /\ [][FrameNext]_frameVars

----------------------------------------------------------------------------
\* Where plane i ends.
End(i) == offsets[i] + linesizes[i] * frame.height

\* What malloc and the header of the buffer leave of an alignment is kept.
AlignmentKept(align) == MallocAlign % align = 0 /\ BufferHeader % align = 0

\* No byte of a plane is one of another plane, of a header or outside of the
\* buffer, and every row holds the pixels of its format.  Planes and rows are as
\* far from the start of the frame as their alignment wants, but that start is
\* behind the header of the buffer: planes begin at a multiple of an alignment
\* that this header and malloc keep, and of no other (with 24 bytes, and blocks
\* aligned to 16, of 8 and less).  A format that is taken for equal (a frame of
\* one is then used for the other) has as many planes, with the same rows.
PlanesApart ==
  laying = "done" =>
    /\ \A i \in 1..Len(offsets) :
         LET align == frame.aligns[i]
         IN /\ offsets[i] >= FrameHeader /\ End(i) <= size
            /\ linesizes[i] >= Row(frame.fmt, i, frame.width)
            /\ offsets[i] % align = 0 /\ linesizes[i] % align = 0
            /\ AlignmentKept(align) => (address + offsets[i]) % align = 0
            /\ \A k \in 1..Len(offsets) : i < k => End(i) <= offsets[k]
    /\ \A other \in Formats : PixfmtEq(frame.fmt, other) =>
         /\ Len(offsets) = NumPlanes(other)
         /\ \A i \in 1..Len(offsets) :
              linesizes[i] = Linesize(other, i, frame.width, frame.aligns[i])
=============================================================================
