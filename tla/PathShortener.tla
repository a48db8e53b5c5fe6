--------------------------- MODULE PathShortener ---------------------------
(***************************************************************************)
(* sve4_log_shorten_path (libsve4_log/api.c), which cuts the file name of  *)
(* a log line to a width.  A text is the sequence of its characters; one   *)
(* iteration of the loop over the elements of the path is one step.        *)
(***************************************************************************)
EXTENDS Integers, Sequences

CONSTANTS
  SizeSpan,      \* 2^64: the values of a size_t
  Letters,       \* characters but the separator and the Nul
  Sep, Nul

ASSUME ShortenAssumption ==
  SizeSpan \in Nat \ {0} /\ Sep # Nul /\ Sep \notin Letters /\ Nul \notin Letters

VARIABLES
  shortening,    \* "idle", "begin", "loop", or what is returned: "pointer" or "buffer"
  path,          \* the path behind the root prefix
  text,          \* what the loop goes over: from path to path_end
  bufSize,       \* buf_size
  at,            \* path_ptr, an index into text
  buffer,        \* what is written, or pointed to; idx is its length
  over,          \* overbound
  cuts           \* history: per element, where it was, and is, and its sizes

shortenVars == <<shortening, path, text, bufSize, at, buffer, over, cuts>>

Paths == Seq(Letters \cup {Sep})

\* A null pointer for a prefix: the prefix of no path.
NoPrefix == <<Nul>>

Least(a, b) == IF a < b THEN a ELSE b

HasPrefix(full, prefix) ==
  Len(prefix) <= Len(full) /\ SubSeq(full, 1, Len(prefix)) = prefix

\* A separator behind the root prefix goes with it.
WithoutPrefix(full, prefix) ==
  LET rest == SubSeq(full, Len(prefix) + 1, Len(full))
  IN IF ~HasPrefix(full, prefix) THEN full
     ELSE IF rest # <<>> /\ Head(rest) = Sep THEN Tail(rest) ELSE rest

Absolute(p) == p # <<>> /\ Head(p) = Sep

\* Every write stops at the end of the buffer, which keeps room for the Nul.
Put(queue, chars) == queue \o SubSeq(chars, 1, Least(Len(chars), bufSize - 1 - Len(queue)))

ShortenInit ==
  /\ shortening = "idle" /\ path = <<>> /\ text = <<>> /\ bufSize = 0
  /\ at = 0 /\ buffer = <<>> /\ over = 0 /\ cuts = <<>>

\* log_to_file: the limit of a configuration does not count the Nul.  No
\* configuration at all is as the greatest limit, which wraps around to a size
\* that means no buffer; the limit 0 makes a buffer for the Nul alone.
ShortenCall(limit, full, prefix) ==
  /\ shortening = "idle"
  /\ path' = WithoutPrefix(full, prefix)
  /\ bufSize' = (limit + 1) % SizeSpan
  /\ shortening' = "begin"
  /\ UNCHANGED <<text, at, buffer, over, cuts>>

Point(chars) ==
  /\ shortening' = "pointer" /\ buffer' = chars
  /\ UNCHANGED <<path, text, bufSize, at, over, cuts>>

\* Nothing to cut, or no buffer.  A short absolute path loses its separator.
ReturnPath ==
  /\ shortening = "begin" /\ bufSize = 0
  /\ Point(path)

ReturnShort ==
  /\ shortening = "begin" /\ bufSize > 0 /\ Len(path) < bufSize - 1
  /\ Point(IF Absolute(path) THEN Tail(path) ELSE path)

\* The separator an absolute path begins with.  As the length is that of the
\* whole path, its last element ends with its Nul.
BeginLoop ==
  /\ shortening = "begin" /\ bufSize > 0 /\ Len(path) >= bufSize - 1
  /\ shortening' = "loop"
  /\ text' = (IF Absolute(path) THEN Append(Tail(path), Nul) ELSE path)
  /\ buffer' = (IF Absolute(path) THEN Put(<<>>, <<Sep>>) ELSE <<>>)
  /\ over' = Len(path) - (bufSize - 1)
  /\ at' = 0 /\ cuts' = <<>>
  /\ UNCHANGED <<path, bufSize>>

\* Variant with a plausible mistake; no run uses it.  Elements may vanish:
CutAll(elemSize, last) == IF last THEN 0 ELSE Least(elemSize, over)

\* num_trim_chars: an element keeps one character at least, the last one all.
Cut(elemSize, last) == IF last \/ elemSize = 0 THEN 0 ELSE Least(elemSize - 1, over)

\* An iteration.  The last element ends at, or one character before, path_end.
Element ==
  /\ shortening = "loop"
  /\ \E next \in at..Len(text) :
       /\ next < Len(text) => text[next + 1] = Sep
       /\ \A k \in at..(next - 1) : text[k + 1] # Sep
       /\ LET last == next + 1 >= Len(text)
              kept == next - at - Cut(next - at, last)
              elem == SubSeq(text, at + 1, at + kept)
              to == IF cuts = <<>> THEN (IF Absolute(path) THEN 1 ELSE 0)
                    ELSE cuts[Len(cuts)].to + cuts[Len(cuts)].kept + 1
          IN /\ over' = over - Cut(next - at, last)
             /\ buffer' = Put(Put(buffer, elem), IF last THEN <<>> ELSE <<Sep>>)
             /\ cuts' = Append(cuts, [at |-> at, size |-> next - at, to |-> to, kept |-> kept])
             /\ at' = next + 1
             /\ shortening' = IF last THEN "buffer" ELSE "loop"
  /\ UNCHANGED <<path, text, bufSize>>

ShortenReturn ==
  /\ shortening \in {"pointer", "buffer"}
  /\ shortening' = "idle" /\ path' = <<>> /\ text' = <<>> /\ bufSize' = 0
  /\ at' = 0 /\ buffer' = <<>> /\ over' = 0 /\ cuts' = <<>>

ShortenStep == ReturnPath \/ ReturnShort \/ BeginLoop \/ Element \/ ShortenReturn

ShortenNext ==
  \/ ShortenStep
  \/ \E limit \in 0..(SizeSpan - 1), full \in Paths, prefix \in Paths \cup {NoPrefix} :
       ShortenCall(limit, full, prefix)

ShortenSpec == ShortenInit /\ [][ShortenNext]_shortenVars

----------------------------------------------------------------------------
\* What the cut path looks like: its elements are the beginnings of the
\* elements of the path, with separators in between.
CutElement(i) ==
  LET c == cuts[i]
      last == i = Len(cuts)
  IN /\ c.at = (IF i = 1 THEN 0 ELSE cuts[i - 1].at + cuts[i - 1].size + 1)
     /\ c.to = (IF i # 1 THEN cuts[i - 1].to + cuts[i - 1].kept + 1
                ELSE IF Absolute(path) THEN 1 ELSE 0)
     /\ c.at + c.size = Len(text) <=> last
     /\ ~last => text[c.at + c.size + 1] = Sep
     /\ \A k \in 1..c.size : text[c.at + k] # Sep
     /\ \A k \in 1..c.kept : c.to + k <= Len(buffer) => buffer[c.to + k] = text[c.at + k]
     /\ i # 1 => buffer[c.to] = Sep

\* Log lines name the file they come from in the width that is set for them: no
\* more is written than fits.  If cutting every element but the last to one
\* character makes the path fit, all its elements are there, the last one whole,
\* they are cut from the left, and no more than must be; otherwise they are all
\* cut so far.  With the greatest limit it is all of the path, and a path that
\* is short enough is not cut (an absolute one loses the separator it begins
\* with).  That is so for all limits but 0, of which more is promised below.
ShortenedWell ==
  bufSize # 1 =>
    /\ shortening = "pointer" =>
         IF bufSize = 0 THEN buffer = path
         ELSE path \in {buffer, <<Sep>> \o buffer}
    /\ shortening \in {"pointer", "buffer"} /\ bufSize > 0 => Len(buffer) < bufSize
    /\ shortening = "buffer" /\ path # <<>> /\ path[Len(path)] # Sep =>
         /\ \A i \in 1..Len(cuts) :
              /\ (cuts[i].kept = 0) = (cuts[i].size = 0)
              /\ i = Len(cuts) => cuts[i].kept = cuts[i].size
         /\ IF over = 0
            THEN /\ Len(buffer) = bufSize - 1
                 /\ \A k \in 1..Len(buffer) : buffer[k] # Nul
                 /\ \A i \in 1..Len(cuts) :
                      /\ CutElement(i)
                      /\ cuts[i].kept < cuts[i].size => \A k \in 1..(i - 1) : cuts[k].kept <= 1
            ELSE \A i \in 1..(Len(cuts) - 1) : cuts[i].kept <= 1

\* "0 -> no trimming", says init.h of the limit in a configuration: the text is
\* the path.
ZeroTrimsNothing ==
  shortening \in {"pointer", "buffer"} /\ bufSize = 1 => path \in {buffer, <<Sep>> \o buffer}
=============================================================================
