---------------------------- MODULE WebpDecoder ----------------------------
(***************************************************************************)
(* A decoder of the libwebp backend (libsve4_decode/libwebp.c) with what   *)
(* opens it: the front end reads the head of the file to find the backend  *)
(* (decoder.c), then the backend reads the whole file, both with ReadUrl.  *)
(* It is used by one thread.  One caller's frame goes through get_frame.   *)
(***************************************************************************)
EXTENDS ReadUrl

CONSTANTS
  HeaderSize,   \* bytes read to find the backend
  MinHeader,    \* bytes it takes to recognise a WebP file
  Stamps        \* when each frame of the animation ends

ASSUME WebpAssumption ==
  /\ HeaderSize \in Nat /\ MinHeader \in Nat
  /\ Stamps \in Seq(Nat \ {0})
  /\ \A i, j \in 1..Len(Stamps) : i < j => Stamps[i] < Stamps[j]

VARIABLES
  dec,        \* where the decoder stands between open and close
  data,       \* decoder->data is allocated
  file,       \* inner->ptr is allocated: the bytes of the file
  anim,       \* inner->anim.decoder is there
  next,       \* frames that it has decoded since the start or a reset
  lastPts,    \* inner->anim.last_pts
  frame,      \* the caller's: is it compatible, has it a buffer, one that is
              \* packed: lines as long as the animation's?
  given,      \* history: what the last frame was given
  run,        \* history: frames given since the start or the last seek
  rewound     \* history: there was a seek

innerVars == <<data, file, anim, next, lastPts>>
frameVars == <<frame, given, run, rewound>>
vars == <<readVars, dec, innerVars, frameVars>>

NoTime == [pts |-> 0, duration |-> 0]

\* A frame that the caller zeroed, or had from another decoder: of another
\* size or format, or of the same with longer lines.
Frames ==
  [fits : {FALSE}, buffer : BOOLEAN, packed : {TRUE}]
    \cup [fits : {TRUE}, buffer : {TRUE}, packed : {FALSE}]

NewFrame == [fits |-> TRUE, buffer |-> TRUE, packed |-> TRUE]

Init ==
  /\ ReadInit
  /\ dec = "none" /\ data = FALSE /\ file = FALSE /\ anim = FALSE
  /\ next = 0 /\ lastPts = 0
  /\ frame \in Frames
  /\ given = NoTime /\ run = <<>> /\ rewound = FALSE

Goto(from, to) == dec = from /\ dec' = to

----------------------------------------------------------------------------
(* sve4_decode_decoder_open and sve4_decode_libwebp_open_decoder.          *)

\* The backend is to be found, or given.
OpenAuto ==
  /\ Goto("none", "detect")
  /\ Call(FALSE, HeaderSize)
  /\ UNCHANGED <<innerVars, frameVars>>

OpenWebp ==
  /\ Goto("none", "create")
  /\ UNCHANGED <<readVars, innerVars, frameVars>>

\* Only a file that could be read, and is long enough, can be a WebP file.
\* The others go to the FFmpeg backend.
Detected ==
  /\ stage = "done"
  /\ \/ Goto("detect", "create") /\ result = "ok" /\ bufsize >= MinHeader
     \/ Goto("detect", "none")
  /\ GoIdle
  /\ UNCHANGED <<innerVars, frameVars>>

CreateBuffer ==
  /\ Goto("create", "load")
  /\ data' = TRUE
  /\ Call(TRUE, SizeMax)
  /\ UNCHANGED <<file, anim, next, lastPts, frameVars>>

CreateFails ==
  /\ Goto("create", "none")
  /\ UNCHANGED <<readVars, innerVars, frameVars>>

\* The decoder takes over the bytes.
Loaded ==
  /\ stage = "done" /\ result = "ok"
  /\ Goto("load", "anim")
  /\ file' = TRUE
  /\ GoIdle
  /\ UNCHANGED <<data, anim, next, lastPts, frameVars>>

LoadFails ==
  /\ stage = "done" /\ result # "ok"
  /\ Goto("load", "close")
  /\ GoIdle
  /\ UNCHANGED <<innerVars, frameVars>>

\* WebPAnimDecoderNew.
NewAnim ==
  /\ Goto("anim", "info")
  /\ anim' = TRUE /\ next' = 0
  /\ UNCHANGED <<readVars, data, file, lastPts, frameVars>>

\* Nothing is there to be closed; the decoder is.
NewAnimFails ==
  /\ Goto("anim", "close")
  /\ UNCHANGED <<readVars, innerVars, frameVars>>

OpenAnim ==
  /\ Goto("info", "open")
  /\ lastPts' = 0
  /\ given' = NoTime /\ run' = <<>> /\ rewound' = FALSE
  /\ UNCHANGED <<readVars, data, file, anim, next, frame>>

\* Without information the animation is closed, here and, an empty one, again
\* with the decoder.
GetInfoFails ==
  /\ Goto("info", "close")
  /\ anim' = FALSE /\ next' = 0 /\ lastPts' = 0
  /\ UNCHANGED <<readVars, data, file, frameVars>>

----------------------------------------------------------------------------
(* webp_get_frame and webp_seek.                                           *)

\* Without more frames get_frame changes nothing and returns EOF.
HasMore == dec = "open" /\ next < Len(Stamps)

\* timestamp * ms_to_ns is a product of ints: one that overflows has no
\* defined value (it wraps, or is computed with more bits).
ToNs(t) == IF t <= IntMax THEN {t} ELSE {t, AsInt(t)}

\* Variant: a frame that nobody sees moves the time, too.
SkipFrameTimed ==
  /\ HasMore
  /\ next' = next + 1
  /\ lastPts' \in ToNs(Stamps[next + 1])
  /\ UNCHANGED <<readVars, dec, data, file, anim, frameVars>>

\* Variant: nobody asks whether there is another frame.
SkipFrameUnasked ==
  /\ dec = "open"
  /\ next' = next + 1
  /\ UNCHANGED <<readVars, dec, data, file, anim, lastPts, frameVars>>

\* get_frame without a frame: the next one starts where this one would have.
SkipFrame ==
  /\ HasMore
  /\ next' = next + 1
  /\ UNCHANGED <<readVars, dec, data, file, anim, lastPts, frameVars>>

\* Decoding into the frame that is there, or a new one in its place.  (One
\* that is not packed gets a picture with the lines in the wrong places.)
GetFrame ==
  /\ HasMore
  /\ frame.fits => frame.buffer
  /\ frame' = IF frame.fits THEN frame ELSE NewFrame
  /\ next' = next + 1
  /\ \E pts \in ToNs(Stamps[next + 1]) :
       /\ given' = [pts |-> lastPts, duration |-> pts - lastPts]
       /\ lastPts' = pts
  /\ run' = Append(run, next + 1)
  /\ UNCHANGED <<readVars, dec, data, file, anim, rewound>>

\* There is no memory for a frame: the old one is gone.
AllocFrameFails ==
  /\ HasMore /\ ~frame.fits
  /\ frame' = [frame EXCEPT !.buffer = FALSE]
  /\ UNCHANGED <<readVars, dec, innerVars, given, run, rewound>>

\* WebPAnimDecoderGetNext cannot decode: a new frame stays.  (When the frame
\* fitted before, nothing has changed.)
DecodeFails ==
  /\ HasMore /\ ~frame.fits
  /\ frame' = NewFrame
  /\ UNCHANGED <<readVars, dec, innerVars, given, run, rewound>>

\* The assertion of line 109: a frame that was freed still fits.
GetFreedFrame ==
  /\ HasMore /\ frame.fits /\ ~frame.buffer
  /\ dec' = "aborted"
  /\ UNCHANGED <<readVars, innerVars, frameVars>>

\* The copy of longer lines reads past the end of the decoder's canvas: what
\* is there may be out of reach.
ReadPastCanvas ==
  /\ HasMore /\ frame.fits /\ frame.buffer /\ ~frame.packed
  /\ dec' = "aborted"
  /\ UNCHANGED <<readVars, innerVars, frameVars>>

\* Between calls the caller frees its frame, or uses another.
FreeFrame ==
  /\ dec = "open"
  /\ frame' = [frame EXCEPT !.buffer = FALSE]
  /\ UNCHANGED <<readVars, dec, innerVars, given, run, rewound>>

OtherFrame ==
  /\ dec = "open"
  /\ frame' \in Frames
  /\ UNCHANGED <<readVars, dec, innerVars, given, run, rewound>>

\* Whatever the position, to the start; last_pts stays.
Seek ==
  /\ dec = "open"
  /\ next' = 0
  /\ run' = <<>> /\ rewound' = TRUE
  /\ UNCHANGED <<readVars, dec, data, file, anim, lastPts, frame, given>>

----------------------------------------------------------------------------
(* sve4_decode_decoder_close and decoder_destructor.                       *)

Close ==
  /\ Goto("open", "close")
  /\ UNCHANGED <<readVars, innerVars, frameVars>>

CloseAnim ==
  /\ Goto("close", "free")
  /\ anim' = FALSE /\ next' = 0 /\ lastPts' = 0
  /\ UNCHANGED <<readVars, data, file, frameVars>>

FreeFile ==
  /\ Goto("free", "drop")
  /\ file' = FALSE
  /\ UNCHANGED <<readVars, data, anim, next, lastPts, frameVars>>

DropBuffer ==
  /\ Goto("drop", "none")
  /\ data' = FALSE
  /\ given' = NoTime /\ run' = <<>> /\ rewound' = FALSE
  /\ UNCHANGED <<readVars, file, anim, next, lastPts, frame>>

----------------------------------------------------------------------------
\* What goes on by itself once a call has begun.
Inside ==
  \/ ReadStep /\ UNCHANGED <<dec, innerVars, frameVars>>
  \/ Detected \/ CreateBuffer \/ CreateFails \/ Loaded \/ LoadFails
  \/ NewAnim \/ NewAnimFails \/ OpenAnim \/ GetInfoFails \/ CloseAnim \/ FreeFile \/ DropBuffer

Aborted == dec = "aborted" /\ UNCHANGED vars

Next ==
  \/ Inside \/ OpenAuto \/ OpenWebp
  \/ SkipFrame \/ GetFrame \/ AllocFrameFails \/ DecodeFails
  \/ GetFreedFrame \/ ReadPastCanvas
  \/ FreeFrame \/ OtherFrame \/ Seek \/ Close \/ Aborted

\* A call goes on until it returns.
Spec == Init /\ [][Next]_vars /\ WF_vars(Inside)

----------------------------------------------------------------------------
TypeOK ==
  /\ ReadTypeOK
  /\ dec \in {"none", "detect", "create", "load", "anim", "info", "open", "close", "free", "drop",
              "aborted"}
  /\ data \in BOOLEAN /\ file \in BOOLEAN /\ anim \in BOOLEAN
  /\ next \in 0..Len(Stamps) /\ lastPts \in Int
  /\ frame \in [fits : BOOLEAN, buffer : BOOLEAN, packed : BOOLEAN]
  /\ given \in [pts : Int, duration : Int]
  /\ run \in Seq(1..Len(Stamps)) /\ rewound \in BOOLEAN

\* On every way through open, with reads, allocations and the decoder failing
\* at any point, and after every close nothing is left open or allocated; and
\* nothing goes too early: WebPAnimDecoder reads from the file's bytes without
\* a copy of its own, and they are there as long as it is.
NothingKept ==
  /\ dec = "none" => held = {} /\ ~data /\ ~file /\ ~anim
  /\ stage = "done" => held = IF mine /\ result = "ok" THEN {"buffer"} ELSE {}
  /\ anim => file /\ data

\* A frame starts where the one given before it ended, or at zero, and ends
\* with its own time stamp: a skipped frame makes the next one longer, and
\* after a seek the same holds from the second frame on.  (The first after a
\* seek starts where the last before it ended.)
Timeline ==
  LET n == Len(run)
      start == IF n > 1 THEN Stamps[run[n - 1]] ELSE 0
  IN (n > 1 \/ (n = 1 /\ ~rewound)) /\ Stamps[run[n]] <= IntMax =>
       given = [pts |-> start, duration |-> Stamps[run[n]] - start]

\* An open returns, with a decoder or none: neither the search for the end of
\* what a URL yields nor the way out of a failure goes on for ever.
OpenEnds ==
  (dec \notin {"none", "open", "aborted"}) ~> (dec \in {"none", "open"} \/ TooLarge)
=============================================================================
