------------------------------ MODULE MCCalls ------------------------------
(***************************************************************************)
(* A counted buffer, the callback for FFmpeg's log, and functions that     *)
(* keep no state of their own, each called with a set of arguments.  While *)
(* one of them runs the others do nothing, as they share nothing.          *)
(***************************************************************************)
EXTENDS Buffer, PathShortener, LogBridge, StreamChooser, RamFrame, Allocator, SequencesExt

CONSTANTS
  MaxPath,      \* bound: characters of a path
  MaxPieces,    \* bound: characters that FFmpeg logs in all
  MaxStreams,   \* bound: streams of a file
  MaxBlock      \* bound: bytes of a block

others == <<shortenVars, bridgeVars, chooserVars, frameVars, allocVars>>

\* Relative paths, absolute ones and empty elements; a prefix that ends with a
\* separator, one that does not, and none.
ShortenSome ==
  \E limit \in 0..(SizeSpan - 1), full \in BoundedSeq(Letters \cup {Sep}, MaxPath),
     prefix \in {NoPrefix, <<>>, <<Sep, "a">>, <<"a", Sep>>} :
    ShortenCall(limit, full, prefix)

\* Whole lines, parts of lines and several lines at once, of any thread.
LogSome ==
  \E t \in Callers, level \in {"trace", "error"},
     chars \in {<<"x">>, <<NewLine>>, <<"x", NewLine>>, <<NewLine, "x">>, <<"x", NewLine, "x", NewLine>>} :
    /\ FoldFunction(LAMBDA w, n : Len(w) + n, Len(chars), wrote) <= MaxPieces
    /\ BridgeCall(t, chars, level)

ChooseSome ==
  \E c \in Choosers, f \in BoundedSeq([type : {"video", "audio", "data"}, default : BOOLEAN], MaxStreams) :
    ChooseCall(c, f)

LayOutSome ==
  \E fmt \in Formats, width \in 1..3, height \in 1..2, aligns \in BoundedSeq(Alignments, 3) :
    FrameCall(fmt, width, height, aligns)

\* Of tables that nobody completed only libc's is whole.
AllocateSome ==
  \E given \in Provided, complete \in BOOLEAN, op \in Operations,
     old \in {NoBlock} \cup {Block([i \in 1..n |-> ToString(i)]) : n \in 0..MaxBlock},
     n \in 0..MaxBlock, outcome \in Outcomes :
    AllocCall(given, complete, op, old, n, outcome)

Quiet == memory = "none" /\ ShortenInit /\ ChooserInit /\ FrameInit /\ AllocInit
Unused == Quiet /\ BridgeInit

\* FFmpeg logs nothing more, and what comes next is another run of the program.
LogOver ==
  /\ inCallback = {} /\ \E t \in Callers : wrote[t] # <<>>
  /\ fifo' = [t \in Callers |-> <<>>] /\ logged' = fifo' /\ ended' = fifo'
  /\ wrote' = fifo' /\ with' = fifo' /\ avLevel' = [t \in Callers |-> "info"]
  /\ starved' = {}
  /\ UNCHANGED <<inCallback, data>>

MCInit == Init /\ ShortenInit /\ BridgeInit /\ ChooserInit /\ FrameInit /\ AllocInit

MCNext ==
  \/ /\ ShortenInit /\ BridgeInit /\ ChooserInit /\ FrameInit /\ AllocInit
     /\ Next
     /\ UNCHANGED others
  \/ /\ (Unused /\ ShortenSome) \/ ShortenStep
     /\ UNCHANGED <<vars, bridgeVars, chooserVars, frameVars, allocVars>>
  \/ /\ (Quiet /\ LogSome) \/ BridgeStep \/ LogOver
     /\ UNCHANGED <<vars, shortenVars, chooserVars, frameVars, allocVars>>
  \/ /\ (Unused /\ ChooseSome) \/ ChooserStep
     /\ UNCHANGED <<vars, shortenVars, bridgeVars, frameVars, allocVars>>
  \/ /\ (Unused /\ LayOutSome) \/ FrameStep \/ \E k \in 1..2 : FrameCreate(k * MallocAlign)
     /\ UNCHANGED <<vars, shortenVars, bridgeVars, chooserVars, allocVars>>
  \/ /\ (Unused /\ AllocateSome) \/ AllocReply \/ AllocReturn
     /\ UNCHANGED <<vars, shortenVars, bridgeVars, chooserVars, frameVars>>

MCSpec ==
  MCInit /\ [][MCNext]_<<vars, others>>
  /\ \A t \in Threads : WF_vars((Destruct(t) \/ Free(t)) /\ UNCHANGED others)
=============================================================================
