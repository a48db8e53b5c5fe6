----------------------------- MODULE MCDemuxer -----------------------------
(***************************************************************************)
(* Instances of Demuxer: the decoders, the file and its streams.           *)
(***************************************************************************)
EXTENDS Demuxer, TLC

CONSTANTS d1, d2, video, audio

Two == <<d1, d2>>

VideoOnly == [d \in Decoders |-> video]
VideoAndAudio == [d \in Decoders |-> IF d = d2 THEN audio ELSE video]

Short == <<video>>
Mixed == <<video, audio>>
=============================================================================
