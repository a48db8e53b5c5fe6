----------------------------- MODULE MCDecoders -----------------------------
(***************************************************************************)
(* Decoders of either backend: one that libwebp opens, from the search for *)
(* the backend to the close, or several of FFmpeg that share a demuxer.    *)
(* The two share nothing, so that nothing is lost by letting one move only *)
(* while the other is at rest.                                             *)
(***************************************************************************)
EXTENDS WebpDecoder, DecoderList

\* An animation of three frames whose last time stamp is out of the range of an
\* int, as is the size of the largest file.
MCStamps == <<1, 3, 4>>

\* At rest, and as at first in all that does not tell: the other functions to
\* read with, and another frame, make no difference to decoders of FFmpeg.
WebpRests ==
  /\ Init /\ api = "stdio" /\ frame = [fits |-> FALSE, buffer |-> FALSE, packed |-> TRUE]

WebpMoves(A) == A /\ UNCHANGED listVars

MCNext ==
  \/ ListInit /\ WebpMoves(Next)
  \/ WebpRests /\ ListNext /\ UNCHANGED vars

MCInit == Init /\ ListInit

MCSpec ==
  /\ MCInit
  /\ [][MCNext]_<<vars, listVars>>
  /\ WF_<<vars, listVars>>(WebpMoves(Inside))
=============================================================================
