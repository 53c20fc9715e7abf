------------------------------ MODULE Follower ------------------------------
(***************************************************************************)
(* The follower of the protection log: it reads the file it has open to    *)
(* its end, then looks whether the file was truncated or another one is at *)
(* its path, and hands every complete line on (Follow, consume, inspectEOF,*)
(* openFollowerFile).  Around it Nginx writes whole lines to the file it   *)
(* has open, and log rotation renames, creates and truncates files at any  *)
(* time in between.                                                        *)
(*                                                                         *)
(* The characters of a line are its number and how many follow; the one    *)
(* that nothing follows is the line feed.  Read errors, which are retried, *)
(* change nothing and are left out.                                        *)
(***************************************************************************)
EXTENDS Naturals, Sequences, SequencesExt

CONSTANTS
  File,            \* inodes
  Missing,         \* nothing at the path
  TooLong,         \* ErrLineTooLong
  Unsafe,          \* a link or a directory at the path
  MaxLine,         \* max_log_line_bytes
  ReadSize,        \* the size of the read buffer
  LineLength,      \* lengths of lines, without the line feed
  MaxLines,        \* bound: lines written
  MaxTruncations   \* bound: truncations

ASSUME FollowerAssumption ==
  /\ Missing \notin File /\ Unsafe \notin File
  /\ {MaxLine, ReadSize} \subseteq Nat \ {0}
  /\ LineLength \subseteq Nat
  /\ {MaxLines, MaxTruncations} \subseteq Nat

VARIABLES
  content,   \* the characters of every file
  path,      \* what is at the path
  writing,   \* the file Nginx has open
  lengths,   \* history: the lengths of the lines written
  cut,       \* history: lines that were truncated away
  cuts,      \* history: how often each file was truncated
  pc,        \* where Follow is
  file,      \* Follower.file
  offset,    \* Follower.offset
  chunk,     \* what was read and is not consumed yet
  line,      \* Follower.line
  overlong,  \* Follower.overlong
  seen,      \* the file openFollowerFile saw at the path
  handled,   \* history: the lines handed on
  known,     \* history: truncations of the file that were noticed
  overtaken  \* history: the file grew back unnoticed after a truncation

disk == <<content, path, writing, lengths, cut, cuts>>
reader == <<pc, file, offset, chunk, line, overlong, seen, handled, known, overtaken>>
vars == <<disk, reader>>

Line == 1 .. MaxLines
Char == [line : Line, rest : Nat]

(* The text of a line, and what is written for it. *)
Text(n) == [i \in 1 .. lengths[n] |-> [line |-> n, rest |-> lengths[n] + 1 - i]]
Written(n, length) ==
  [i \in 1 .. length + 1 |-> [line |-> n, rest |-> length + 1 - i]]

ASSUME MissingAssumption == Missing \notin Seq(Char)

Created == {f \in File : content[f] # Missing}

TypeOK ==
  /\ content \in [File -> Seq(Char) \cup {Missing}]
  /\ path \in Created \cup {Missing, Unsafe}
  /\ {writing, file} \subseteq Created
  /\ lengths \in Seq(LineLength)
  /\ cut \subseteq Line
  /\ cuts \in [File -> 0 .. MaxTruncations]
  /\ pc \in {"read", "inspect", "compare", "look", "open", "failed", "stopped"}
  /\ offset \in Nat
  /\ chunk \in Seq(Char) /\ Len(chunk) <= ReadSize
  /\ line \in Seq(Char) /\ Len(line) <= MaxLine + 1
  /\ overlong \in BOOLEAN
  /\ seen \in File \cup {Missing}
  /\ handled \in Seq([line : Line, text : Seq(Char) \cup {TooLong}])
  /\ known \in 0 .. MaxTruncations
  /\ overtaken \in BOOLEAN

(* OpenFollower starts at the end of the file: what is in it does not count.*)
Init ==
  /\ \E f \in File :
       /\ content = [g \in File |-> IF g = f THEN <<>> ELSE Missing]
       /\ path = f /\ writing = f /\ file = f
  /\ lengths = <<>> /\ cut = {} /\ cuts = [f \in File |-> 0]
  /\ pc = "read" /\ offset = 0 /\ chunk = <<>> /\ line = <<>>
  /\ overlong = FALSE /\ seen = Missing
  /\ handled = <<>> /\ known = 0 /\ overtaken = FALSE

-----------------------------------------------------------------------------
(* Nginx and the rotation of its log *)

Write(length) ==
  /\ Len(lengths) < MaxLines
  /\ lengths' = Append(lengths, length)
  /\ content' = [content EXCEPT ![writing] = @ \o Written(Len(lengths'), length)]
  /\ UNCHANGED <<path, writing, cut, cuts, reader>>

Rename ==
  /\ path \in File
  /\ path' = Missing
  /\ UNCHANGED <<content, writing, lengths, cut, cuts, reader>>

Create ==
  /\ path = Missing
  /\ \E f \in File \ Created :
       /\ path' = f
       /\ content' = [content EXCEPT ![f] = <<>>]
  /\ UNCHANGED <<writing, lengths, cut, cuts, reader>>

Obstruct ==
  /\ path = Missing
  /\ path' = Unsafe
  /\ UNCHANGED <<content, writing, lengths, cut, cuts, reader>>

Reopen ==
  /\ path \in File
  /\ writing' = path
  /\ UNCHANGED <<content, path, lengths, cut, cuts, reader>>

Truncate ==
  /\ path \in File
  /\ cuts[path] < MaxTruncations
  /\ content' = [content EXCEPT ![path] = <<>>]
  /\ cut' = cut \cup {char.line : char \in Range(content[path])}
  /\ cuts' = [cuts EXCEPT ![path] = @ + 1]
  /\ UNCHANGED <<path, writing, lengths, reader>>

-----------------------------------------------------------------------------
(* Follow: reading *)

Size == Len(content[file])

(* What was read is gone, and the offset means something else now. *)
Unnoticed == offset > 0 /\ known # cuts[file]

(* Some characters that lie behind the offset, wherever they come from. *)
Read ==
  /\ pc = "read" /\ chunk = <<>>
  /\ \E n \in 1 .. ReadSize :
       /\ offset + n <= Size
       /\ chunk' = SubSeq(content[file], offset + 1, offset + n)
       /\ offset' = offset + n
  /\ overtaken' = (overtaken \/ Unnoticed)
  /\ known' = cuts[file]
  /\ UNCHANGED <<disk, pc, file, line, overlong, seen, handled>>

ReadEOF ==
  /\ pc = "read" /\ chunk = <<>>
  /\ offset >= Size
  /\ pc' = "inspect"
  /\ UNCHANGED <<disk, file, offset, chunk, line, overlong, seen, handled, known,
                 overtaken>>

(* Fault: an overlong line ends with the chunk it was found in. *)
OverlongForgotten(segment) == Len(line) + Len(segment) > MaxLine + 1

(* appendSegment: a line that is too long is dropped as soon as it is found *)
(* to be; the limit leaves room for a carriage return, which no line has.   *)
StillOverlong(segment) == overlong \/ Len(line) + Len(segment) > MaxLine + 1

(* Fault: a line grows without a limit. *)
Unlimited(segment) == line \o segment

Appended(segment) == IF StillOverlong(segment) THEN <<>> ELSE line \o segment

Feeds == {i \in 1 .. Len(chunk) : chunk[i].rest = 0}

(* One round of consume over a line that goes on after the chunk. *)
ConsumeRest ==
  /\ pc = "read" /\ chunk # <<>>
  /\ Feeds = {}
  /\ line' = Appended(chunk)
  /\ overlong' = StillOverlong(chunk)
  /\ chunk' = <<>>
  /\ UNCHANGED <<disk, pc, file, offset, seen, handled, known, overtaken>>

(* One round of consume over a line that ends: the handler gets it. *)
ConsumeLine ==
  /\ pc = "read"
  /\ \E i \in Feeds :
       /\ \A j \in Feeds : i <= j
       /\ LET segment == SubSeq(chunk, 1, i - 1)
              text == Appended(segment)
          IN  handled' =
                Append(handled,
                  [line |-> chunk[i].line,
                   text |-> IF StillOverlong(segment) \/ Len(text) > MaxLine
                            THEN TooLong ELSE text])
       /\ chunk' = SubSeq(chunk, i + 1, Len(chunk))
  /\ line' = <<>>
  /\ overlong' = FALSE
  /\ UNCHANGED <<disk, pc, file, offset, seen, known, overtaken>>

-----------------------------------------------------------------------------
(* inspectEOF *)

(* Fault: what was read of a line survives the truncation. *)
PartialKept == UNCHANGED <<line, overlong>>

ResetPartial == line' = <<>> /\ overlong' = FALSE

(* The file is shorter than what was read of it: start again. *)
Rewind ==
  /\ pc = "inspect"
  /\ Size < offset
  /\ offset' = 0
  /\ ResetPartial
  /\ pc' = "read"
  /\ known' = cuts[file]
  /\ UNCHANGED <<disk, file, chunk, seen, handled, overtaken>>

NotShorter ==
  /\ pc = "inspect"
  /\ Size >= offset
  /\ pc' = "compare"
  /\ overtaken' = (overtaken \/ Unnoticed)
  /\ UNCHANGED <<disk, file, offset, chunk, line, overlong, seen, handled, known>>

(* Fault: the file that is open is taken for another one. *)
NothingThere == path = Missing

NothingNew == path \in {file, Missing}

(* Lstat of the path: the same file, none for now, an unsafe one, another.  *)
Compare ==
  /\ pc = "compare"
  /\ pc' = CASE NothingNew -> "read"
             [] path = Unsafe -> "failed"
             [] OTHER -> "look"
  /\ UNCHANGED <<disk, file, offset, chunk, line, overlong, seen, handled, known,
                 overtaken>>

(* openFollowerFile looks at the path again ... *)
Look ==
  /\ pc = "look"
  /\ IF path \in File THEN pc' = "open" /\ seen' = path
                      ELSE pc' = "failed" /\ UNCHANGED seen
  /\ UNCHANGED <<disk, file, offset, chunk, line, overlong, handled, known, overtaken>>

(* Fault: the offset in the previous file is kept. *)
OffsetKept == UNCHANGED offset

StartOver == offset' = 0

(* ... and opens what is there, if it is still the same. *)
Open ==
  /\ pc = "open"
  /\ IF path = seen
     THEN /\ file' = seen
          /\ StartOver
          /\ ResetPartial
          /\ known' = cuts[seen]
          /\ pc' = "read"
     ELSE /\ pc' = "failed"
          /\ UNCHANGED <<file, offset, line, overlong, known>>
  /\ seen' = Missing
  /\ UNCHANGED <<disk, chunk, handled, overtaken>>

Ended == pc \in {"failed", "stopped"}

(* The watcher is told to stop, which the loop, consume and the wait look   *)
(* at, or its handler of a line fails.                                      *)
Cancel ==
  /\ pc = "read"
  /\ pc' = "stopped"
  /\ UNCHANGED <<disk, file, offset, chunk, line, overlong, seen, handled, known,
                 overtaken>>

Rotation == Rename \/ Create \/ Obstruct \/ Reopen \/ Truncate

Follow ==
  \/ Read \/ ReadEOF
  \/ ConsumeRest \/ ConsumeLine
  \/ Rewind \/ NotShorter
  \/ Compare \/ Look \/ Open

Next ==
  /\ ~Ended
  /\ \/ \E length \in LineLength : Write(length)
     \/ Rotation
     \/ Follow
     \/ Cancel

Spec == Init /\ [][Next]_vars

(* The follower goes on: it polls, and the loop takes its lines. *)
FairSpec == Spec /\ WF_vars(Follow)

-----------------------------------------------------------------------------
(* A line that is handed on is the line that was written, or reported too   *)
(* long when it is, however the file is cut up by reads and truncations, as *)
(* long as no truncation was overtaken by the writing (consume, inspectEOF).*)
WholeLines ==
  ~overtaken =>
    \A i \in 1 .. Len(handled) :
      LET n == handled[i].line IN
        handled[i].text = IF lengths[n] > MaxLine THEN TooLong ELSE Text(n)

Handled == {handled[i].line : i \in 1 .. Len(handled)}
LinesIn(files) == {char.line : char \in UNION {Range(content[f]) : f \in files}}

(* The lines of the open file that are still to be handed on: what is not   *)
(* consumed, all of a file that was truncated and has not been noticed yet. *)
Ahead ==
  LET consumed == IF known = cuts[file] THEN offset - Len(chunk) ELSE 0
  IN  {content[file][i].line : i \in consumed + 1 .. Size}

(* No line is handed on twice or out of order, whatever is rotated and      *)
(* truncated (TestFollowerHandlesCopyTruncateWithoutReplay): those that are *)
(* still ahead come after all that were handed on (consume, inspectEOF).    *)
OnceInOrder ==
  /\ \A i, j \in 1 .. Len(handled) : i < j => handled[i].line < handled[j].line
  /\ \A n \in Handled, later \in Ahead : n < later

(* At any time every line was handed on, was truncated away, is ahead in    *)
(* the open file, or is in another one: no read, partial line or truncation *)
(* loses one of the open file on the way (consume, inspectEOF).  Lines of   *)
(* another file may still come or not: what Nginx writes to a renamed one   *)
(* after the last read and before the switch is there and never read.       *)
NothingSkipped ==
  ~overtaken =>
    1 .. Len(lengths) \subseteq Handled \cup cut \cup Ahead \cup LinesIn(Created \ {file})

(* Every line is handed on in the end, unless it was truncated away, is in  *)
(* a file that is neither open nor at the path any more, or Follow ended.   *)
EverythingArrives ==
  \A n \in Line :
    n <= Len(lengths) ~>
      \/ n \in Handled \cup cut \cup LinesIn(Created \ {file, path})
      \/ overtaken
      \/ Ended
=============================================================================
