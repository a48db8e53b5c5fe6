--------------------------- MODULE StreamChooser ---------------------------
(***************************************************************************)
(* Which stream of a file a decoder decodes: the list that the demuxer     *)
(* makes (ffmpeg_demuxer.c), the choosers of libsve4_decode/decoder.c and  *)
(* the check of what they return (ffmpeg.c).  One iteration of a chooser's *)
(* loop is one step.  Indices are those of C.                              *)
(***************************************************************************)
EXTENDS Integers, Sequences, FiniteSets

CONSTANTS
  SizeMaximum,   \* SIZE_MAX: no such stream
  OffsetSpan     \* 2^16: the values of chooser->media_type_data.offset

ASSUME ChooserAssumption == SizeMaximum \in Nat /\ OffsetSpan \in Nat \ {0}

VARIABLES
  choosing,      \* "idle", in the "loop" of a chooser, or "chosen"
  chooser, file, \* the arguments: a chooser, and the streams of the file
  position,      \* i
  left,          \* offset, which is counted down
  index          \* what the chooser returns

chooserVars == <<choosing, chooser, file, position, left, index>>

CodecTypes == {"video", "audio", "subtitle", "attachment", "data"}
Files == Seq([type : CodecTypes, default : BOOLEAN])

\* ffmpeg_media_type_to_sve4: attachments and data are of no known type.
MediaType(type) == IF type \in {"video", "audio", "subtitle"} THEN type ELSE "unknown"

Choosers ==
  [kind : {"default", "user"}]
  \cup [kind : {"typed"}, type : {"video", "audio", "subtitle", "unknown"}, offset : 0..(OffsetSpan - 1)]

\* Stream k in the list of sve4_decode_ffmpeg_demuxer_get_streams.
Stream(k) == [type |-> MediaType(file[k + 1].type), default |-> file[k + 1].default]

ChooserInit ==
  /\ choosing = "idle"
  /\ chooser = [kind |-> "default"] /\ file = <<>>
  /\ position = 0 /\ left = 0 /\ index = SizeMaximum

\* sve4_decode_stream_choose, with the chooser's callback or the default one.
\* The streams of a file are in memory: there are less than SIZE_MAX.
ChooseCall(c, f) ==
  /\ choosing = "idle" /\ Len(f) < SizeMaximum
  /\ choosing' = "loop"
  /\ chooser' = c /\ file' = f
  /\ position' = 0 /\ left' = (IF c.kind = "typed" THEN c.offset ELSE 0)
  /\ UNCHANGED index

Choose(i) == choosing' = "chosen" /\ index' = i /\ UNCHANGED position

GoOn == position' = position + 1 /\ UNCHANGED <<choosing, index>>

\* Variant with a plausible mistake; no run uses it.  The offset counts from one:
TypedFromOne ==
  /\ choosing = "loop" /\ chooser.kind = "typed" /\ position < Len(file)
  /\ IF Stream(position).type = chooser.type
     THEN /\ left' = (left - 1) % OffsetSpan
          /\ IF left = 1 THEN Choose(position) ELSE GoOn
     ELSE GoOn /\ UNCHANGED left
  /\ UNCHANGED <<chooser, file>>

\* An iteration of typed_get_stream: the offset is counted down at each stream
\* of the type, also when it is 0.
TypedIteration ==
  /\ choosing = "loop" /\ chooser.kind = "typed" /\ position < Len(file)
  /\ IF Stream(position).type = chooser.type
     THEN /\ left' = (left - 1) % OffsetSpan
          /\ IF left = 0 THEN Choose(position) ELSE GoOn
     ELSE GoOn /\ UNCHANGED left
  /\ UNCHANGED <<chooser, file>>

TypedNone ==
  /\ choosing = "loop" /\ chooser.kind = "typed" /\ position = Len(file)
  /\ Choose(SizeMaximum)
  /\ UNCHANGED <<chooser, file, left>>

\* An iteration of default_get_stream.
DefaultIteration ==
  /\ choosing = "loop" /\ chooser.kind = "default" /\ position < Len(file)
  /\ IF Stream(position).default THEN Choose(position) ELSE GoOn
  /\ UNCHANGED <<chooser, file, left>>

DefaultNone ==
  /\ choosing = "loop" /\ chooser.kind = "default" /\ position = Len(file)
  /\ Choose(IF file = <<>> THEN SizeMaximum ELSE 0)
  /\ UNCHANGED <<chooser, file, left>>

\* A callback of the user returns what it likes.
UserChoice ==
  /\ choosing = "loop" /\ chooser.kind = "user"
  /\ \E i \in 0..SizeMaximum : Choose(i)
  /\ UNCHANGED <<chooser, file, left>>

\* The check of line 102, which lets the index one behind the last pass; the
\* open goes on or fails, and another may follow.
Accepted == ~(index > Len(file))

ChooseReturn ==
  /\ choosing = "chosen"
  /\ choosing' = "idle"
  /\ chooser' = [kind |-> "default"] /\ file' = <<>>
  /\ position' = 0 /\ left' = 0 /\ index' = SizeMaximum

ChooserStep ==
  \/ TypedIteration \/ TypedNone \/ DefaultIteration \/ DefaultNone
  \/ UserChoice \/ ChooseReturn

ChooserNext == ChooserStep \/ \E c \in Choosers, f \in Files : ChooseCall(c, f)

ChooserSpec == ChooserInit /\ [][ChooserNext]_chooserVars

----------------------------------------------------------------------------
OfType(type) == {k \in 0..(Len(file) - 1) : Stream(k).type = type}
Marked == {k \in 0..(Len(file) - 1) : Stream(k).default}

\* A decoder never gets a stream of another kind than it was opened for, nor
\* one that is not there (unless a callback of the user asks for it): with a
\* type and an offset it gets the stream of the type that has so many of the
\* type before it, otherwise the first one marked, or stream 0 if none is; and
\* the open fails only when there is none.
ChoosesStream ==
  choosing = "chosen" =>
    /\ chooser.kind = "typed" =>
         IF Accepted
         THEN /\ index \in OfType(chooser.type)
              /\ Cardinality({k \in OfType(chooser.type) : k < index}) = chooser.offset
         ELSE Cardinality(OfType(chooser.type)) <= chooser.offset
    /\ chooser.kind = "default" =>
         IF Accepted
         THEN /\ index < Len(file) /\ \A k \in Marked : index <= k
              /\ index \in IF Marked = {} THEN {0} ELSE Marked
         ELSE file = <<>>
=============================================================================
