----------------------------- MODULE LogBridge -----------------------------
(***************************************************************************)
(* sve4_log_ffmpeg_callback (libsve4_log/ffmpeg.c), which makes lines of   *)
(* the pieces that FFmpeg logs.  Each thread has an AVFifo of its own for  *)
(* what waits for the end of its line.  A text is the sequence of its      *)
(* characters; one iteration of the loop over its lines is one step.       *)
(***************************************************************************)
EXTENDS Integers, Sequences

CONSTANTS
  Callers,       \* threads in which FFmpeg logs
  Characters,
  NewLine,
  FifoLimit      \* characters up to which an AVFifo grows

ASSUME BridgeAssumption == FifoLimit \in Nat /\ NewLine \in Characters

VARIABLES
  inCallback,    \* threads inside of the callback
  fifo,          \* msg of each thread
  data,          \* what is left of the text of the call
  avLevel,       \* its level
  logged,        \* history: the lines of each thread
  wrote, with,   \* history: each character that it wrote, and at which level
  ended,         \* history: up to where that is in its lines
  starved        \* history: threads for whose FIFO there was no memory once

bridgeVars == <<inCallback, fifo, data, avLevel, logged, wrote, with, ended, starved>>

AvLevels == {"panic", "fatal", "error", "warning", "info", "verbose", "debug", "trace"}

\* ffmpeg_level_to_sve4.  Fatal errors and panics have no level of their own.
Level(level) ==
  CASE level \in {"trace", "debug"} -> "debug"
    [] level \in {"warning", "error"} -> level
    [] OTHER -> "info"

\* av_fifo_write with AV_FIFO_FLAG_AUTO_GROW: all or, which nobody looks at,
\* nothing, as it is too much or there is no memory for it.
Write(queue, text) == IF Len(queue) + Len(text) > FifoLimit THEN queue ELSE queue \o text
WriteOr(room, queue, text) == IF room THEN Write(queue, text) ELSE queue

Starve(t, room) == starved' = IF room THEN starved ELSE starved \cup {t}

BridgeInit ==
  /\ inCallback = {}
  /\ fifo = [t \in Callers |-> <<>>] /\ data = [t \in Callers |-> <<>>]
  /\ avLevel = [t \in Callers |-> "info"]
  /\ logged = [t \in Callers |-> <<>>] /\ ended = [t \in Callers |-> <<>>]
  /\ wrote = [t \in Callers |-> <<>>] /\ with = [t \in Callers |-> <<>>]
  /\ starved = {}

BridgeCall(t, text, level) ==
  /\ t \notin inCallback
  /\ inCallback' = inCallback \cup {t}
  /\ data' = [data EXCEPT ![t] = text]
  /\ avLevel' = [avLevel EXCEPT ![t] = level]
  /\ wrote' = [wrote EXCEPT ![t] = @ \o text]
  /\ with' = [with EXCEPT ![t] = @ \o [i \in 1..Len(text) |-> level]]
  /\ UNCHANGED <<fifo, logged, ended, starved>>

\* An iteration: the rest of a line goes into the FIFO, out of which comes the
\* line as it is logged.
EndLine(t, room) ==
  /\ t \in inCallback
  /\ \E k \in 1..Len(data[t]) :
       /\ data[t][k] = NewLine /\ \A i \in 1..(k - 1) : data[t][i] # NewLine
       /\ logged' = [logged EXCEPT ![t] =
            Append(@, [text |-> WriteOr(room, fifo[t], SubSeq(data[t], 1, k)),
                       level |-> Level(avLevel[t])])]
       /\ data' = [data EXCEPT ![t] = SubSeq(@, k + 1, Len(@))]
       /\ ended' = [ended EXCEPT ![t] = Append(@, Len(wrote[t]) - Len(data[t]) + k)]
  /\ fifo' = [fifo EXCEPT ![t] = <<>>]
  /\ Starve(t, room)
  /\ UNCHANGED <<inCallback, avLevel, wrote, with>>

\* Variant with a plausible mistake; no run uses it.  The threads share one FIFO:
KeepRestShared(t, room) ==
  /\ t \in inCallback /\ \A i \in 1..Len(data[t]) : data[t][i] # NewLine
  /\ (room \/ data[t] # <<>>) /\ Starve(t, room)
  /\ fifo' = [u \in Callers |-> WriteOr(room, fifo[t], data[t])]
  /\ data' = [data EXCEPT ![t] = <<>>]
  /\ inCallback' = inCallback \ {t}
  /\ UNCHANGED <<avLevel, logged, wrote, with, ended>>

\* What is not a line yet waits for the next call.
KeepRest(t, room) ==
  /\ t \in inCallback /\ \A i \in 1..Len(data[t]) : data[t][i] # NewLine
  /\ (room \/ data[t] # <<>>) /\ Starve(t, room)
  /\ fifo' = [fifo EXCEPT ![t] = WriteOr(room, @, data[t])]
  /\ data' = [data EXCEPT ![t] = <<>>]
  /\ inCallback' = inCallback \ {t}
  /\ UNCHANGED <<avLevel, logged, wrote, with, ended>>

BridgeStep == \E t \in Callers, room \in BOOLEAN : EndLine(t, room) \/ KeepRest(t, room)

BridgeNext ==
  \/ BridgeStep
  \/ \E t \in Callers, text \in Seq(Characters), level \in AvLevels : BridgeCall(t, text, level)

BridgeSpec == BridgeInit /\ [][BridgeNext]_bridgeVars

----------------------------------------------------------------------------
\* No line, nor what may become one, is longer than a FIFO gets.
ShortLines(t) ==
  \A i, k \in 1..Len(wrote[t]) :
    k >= i + FifoLimit => \E j \in i..(k - 1) : wrote[t][j] = NewLine

\* Line i is what comes behind Start(t, i) in what t wrote.
Start(t, i) == IF i = 1 THEN 0 ELSE ended[t][i - 1]

\* Nothing a thread logs is lost, doubled or mixed with what another one logs,
\* whatever pieces it comes in: line after line its lines are what it wrote, a
\* line ends with its only end of line and has the level of the call that ended
\* it, and what is in no line yet waits in the FIFO or is still to be read.
\* (A thread whose FIFO could not grow once has lost that text, and no other.)
LinesWhole ==
  \A t \in Callers : ShortLines(t) /\ t \notin starved =>
    LET n == Len(logged[t])
    IN /\ \A i \in 1..n :
            LET from == Start(t, i)
                to == ended[t][i]
            IN /\ logged[t][i].text = SubSeq(wrote[t], from + 1, to)
               /\ logged[t][i].level = Level(with[t][to])
               /\ wrote[t][to] = NewLine /\ \A k \in (from + 1)..(to - 1) : wrote[t][k] # NewLine
       /\ fifo[t] \o data[t] = SubSeq(wrote[t], Start(t, n + 1) + 1, Len(wrote[t]))
       /\ \A k \in 1..Len(fifo[t]) : fifo[t][k] # NewLine
=============================================================================
