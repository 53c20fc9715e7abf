-------------------------- MODULE FollowerProofs --------------------------
(***************************************************************************)
(* The follower of the protection log for any number of files, lines and   *)
(* truncations, any lengths and any size of the read buffer: Follower's    *)
(* types, its whole lines, and their order.                                *)
(*                                                                         *)
(* What is read is a piece of a file in which every character says what    *)
(* follows it (FlowIn).  A line in the making is the beginning of the line   *)
(* that the next character belongs to (FitsIn); what is handed on lies       *)
(* before what is to come (Behind), in this file and in the one at the     *)
(* path; and a file that was cut unnoticed holds nothing that was read.    *)
(***************************************************************************)
EXTENDS Follower, SequenceTheorems, TLAPS

(* The bound on what is written. *)
Bounded == Len(lengths) <= MaxLines

(* What stands in a file or a part of it, for lines of these lengths: after *)
(* a character comes the rest of its line, and after that the whole text   *)
(* of a later one.                                                         *)
FlowIn(s, length) ==
  /\ \A i \in 1 .. Len(s) :
       /\ s[i].line <= Len(length)
       /\ s[i].rest <= length[s[i].line]
  /\ \A i, j \in 1 .. Len(s) : i < j =>
       /\ j <= i + s[i].rest =>
            s[j].line = s[i].line /\ s[j].rest = s[i].rest - (j - i)
       /\ j > i + s[i].rest => s[j].line > s[i].line
       /\ j = i + s[i].rest + 1 => s[j].rest = length[s[j].line]

(* A file holds whole lines. *)
WholeIn(s, length) ==
  /\ FlowIn(s, length)
  /\ s # <<>> => s[1].rest = length[s[1].line]
  /\ \A i \in 1 .. Len(s) : i + s[i].rest <= Len(s)

FilesWhole == \A f \in Created : WholeIn(content[f], lengths)

(* The newest file is the one Nginx has open or an empty one. *)
Newest ==
  /\ path \in File /\ path # writing => content[path] = <<>>
  /\ \A f \in Created \ {writing} :
       \A i \in 1 .. Len(content[f]), j \in 1 .. Len(content[writing]) :
         content[f][i].line < content[writing][j].line

NoneLost ==
  \A n \in 1 .. Len(lengths) :
    \/ n \in cut
    \/ \E f \in Created : \E i \in 1 .. Len(content[f]) : content[f][i].line = n

(* What is not consumed of the file begins behind this position. *)
Base == offset - Len(chunk)

Noticed == known = cuts[file]

(* The chunk is what stands before the offset, or stood there. *)
ChunkRead ==
  /\ known <= cuts[file]
  /\ FlowIn(chunk, lengths)
  /\ Len(chunk) <= offset
  /\ Noticed =>
       /\ offset <= Size
       /\ \A i \in 1 .. Len(chunk) : chunk[i] = content[file][Base + i]
  /\ ~Noticed =>
       \A i \in 1 .. Len(chunk), j \in 1 .. Size :
         chunk[i].line < content[file][j].line

Elsewhere ==
  /\ pc \in {"look", "open"} => chunk = <<>> /\ path # file
  /\ pc = "open" => seen \in Created /\ seen # file
  /\ pc \in {"inspect", "compare"} => chunk = <<>>
  /\ path \in File /\ path # file =>
       \A i \in 1 .. Len(chunk), j \in 1 .. Len(content[path]) :
         chunk[i].line < content[path][j].line

(* What was handed on lies behind n. *)
Behind(n) == \A i \in 1 .. Len(handled) : handled[i].line < n

HandledBehind ==
  /\ \A i \in 1 .. Len(handled) : handled[i].line <= Len(lengths)
  /\ \A i \in 1 .. Len(chunk) : Behind(chunk[i].line)
  /\ \A i \in 1 .. Size :
       ~Noticed \/ i > Base => Behind(content[file][i].line)
  /\ path \in File /\ path # file =>
       \A i \in 1 .. Len(content[path]) : Behind(content[path][i].line)
  /\ \A i, j \in 1 .. Len(handled) : i < j => handled[i].line < handled[j].line

(* A part of a line is the beginning of the one this character belongs to, *)
(* or was dropped because that one is too long.                            *)
FitsIn(char, part, over, length) ==
  IF over THEN part = <<>> /\ length[char.line] > MaxLine
  ELSE /\ Len(part) + char.rest = length[char.line]
       /\ \A i \in 1 .. Len(part) :
            part[i] = [line |-> char.line, rest |-> length[char.line] + 1 - i]

Nothing == line = <<>> /\ ~overlong

Partial ==
  /\ offset = 0 => Nothing
  /\ ~overtaken /\ chunk # <<>> => FitsIn(chunk[1], line, overlong, lengths)
  /\ ~overtaken /\ chunk = <<>> /\ Noticed /\ offset < Size =>
       FitsIn(content[file][offset + 1], line, overlong, lengths)
  /\ ~overtaken /\ chunk = <<>> /\ Noticed /\ offset = Size => Nothing

(* What was consumed of a file was handed on. *)
Consumed ==
  ~overtaken /\ Noticed =>
    \A i \in 1 .. Base :
      content[file][i].rest = 0 => content[file][i].line \in Handled

Disk == FilesWhole /\ Newest /\ NoneLost

Reader ==
  /\ ChunkRead /\ Elsewhere /\ HandledBehind
  /\ Partial /\ WholeLines /\ Consumed

Inv ==
  /\ TypeOK /\ Bounded
  /\ Disk
  /\ Reader

-----------------------------------------------------------------------------
(* Lines and files as sequences *)

(* What a flow says of two of its characters. *)
LEMMA FlowAt ==
  ASSUME NEW s, NEW length, FlowIn(s, length),
         NEW i \in 1 .. Len(s), NEW j \in 1 .. Len(s), i < j
  PROVE  /\ j <= i + s[i].rest =>
              s[j].line = s[i].line /\ s[j].rest = s[i].rest - (j - i)
         /\ j > i + s[i].rest => s[j].line > s[i].line
         /\ j = i + s[i].rest + 1 => s[j].rest = length[s[j].line]
BY DEF FlowIn

LEMMA WrittenIs ==
  ASSUME NEW n \in Line, NEW length \in Nat
  PROVE  /\ Written(n, length) \in Seq(Char)
         /\ Len(Written(n, length)) = length + 1
         /\ \A i \in 1 .. length + 1 :
              Written(n, length)[i] = [line |-> n, rest |-> length + 1 - i]
<1>1. Written(n, length) \in [1 .. length + 1 -> Char]
  BY DEF Written, Char
<1>2. length + 1 \in Nat
  OBVIOUS
<1>3. Written(n, length) \in Seq(Char)
  BY <1>1, <1>2, SeqDef
<1>4. DOMAIN Written(n, length) = 1 .. length + 1
  BY DEF Written
<1>5. Len(Written(n, length)) = length + 1
  BY <1>3, <1>4, <1>2, LenProperties
<1> QED
  BY <1>3, <1>5 DEF Written

LEMMA CharIs ==
  ASSUME NEW s \in Seq(Char), NEW i \in 1 .. Len(s)
  PROVE  s[i] \in Char /\ s[i].line \in Line /\ s[i].line \in Nat /\ s[i].rest \in Nat
<1>1. s[i] \in Char
  BY ElementOfSeq
<1> QED
  BY <1>1, FollowerAssumption, SMTT(30) DEF Char, Line

LEMMA FileIs ==
  ASSUME TypeOK
  PROVE  /\ \A f \in Created : content[f] \in Seq(Char) /\ Len(content[f]) \in Nat
         /\ content[file] \in Seq(Char) /\ Size \in Nat /\ file \in File
         /\ content[writing] \in Seq(Char) /\ writing \in File
         /\ path \in File => path \in Created /\ content[path] \in Seq(Char)
<1>1. \A f \in Created : content[f] \in Seq(Char)
  BY DEF TypeOK, Created
<1>2. \A f \in Created : Len(content[f]) \in Nat
  BY <1>1, LenProperties
<1> QED
  BY <1>1, <1>2, FollowerAssumption DEF TypeOK, Created, Size

(* What a write adds to the file Nginx has open. *)
LEMMA WriteIs ==
  ASSUME TypeOK, NEW length \in LineLength, Write(length)
  PROVE  /\ Len(lengths) + 1 \in Line
         /\ lengths' \in Seq(LineLength) /\ Len(lengths') = Len(lengths) + 1
         /\ \A n \in 1 .. Len(lengths) : lengths'[n] = lengths[n]
         /\ lengths'[Len(lengths) + 1] = length
         /\ content' \in [File -> Seq(Char) \cup {Missing}]
         /\ Created' = Created
         /\ \A f \in File \ {writing} : content'[f] = content[f]
         /\ content'[writing] \in Seq(Char)
         /\ Len(content'[writing]) = Len(content[writing]) + length + 1
         /\ \A i \in 1 .. Len(content[writing]) :
              content'[writing][i] = content[writing][i]
         /\ \A i \in Len(content[writing]) + 1 .. Len(content'[writing]) :
              content'[writing][i] =
                [line |-> Len(lengths) + 1,
                 rest |-> (Len(content[writing]) + length + 1) - i]
<1> DEFINE n == Len(lengths) + 1
           W == Written(n, length)
           C == content[writing]
<1>1. Len(lengths) \in Nat /\ lengths \in Seq(LineLength)
  BY LenProperties DEF TypeOK
<1>2. /\ lengths' = Append(lengths, length)
      /\ Len(lengths') = n
      /\ lengths' \in Seq(LineLength)
      /\ \A k \in 1 .. Len(lengths) : lengths'[k] = lengths[k]
      /\ lengths'[n] = length
  BY <1>1, AppendProperties DEF Write
<1>3. n \in Line
  BY <1>1, FollowerAssumption DEF Write, Line
<1>4. length \in Nat
  BY FollowerAssumption
<1>5. /\ W \in Seq(Char) /\ Len(W) = length + 1
      /\ \A i \in 1 .. length + 1 : W[i] = [line |-> n, rest |-> length + 1 - i]
  BY <1>3, <1>4, WrittenIs
<1>6. C \in Seq(Char) /\ writing \in File /\ Len(C) \in Nat
  BY FileIs, LenProperties
<1>7. content' = [content EXCEPT ![writing] = C \o W]
  BY <1>2 DEF Write
<1>8. /\ C \o W \in Seq(Char)
      /\ Len(C \o W) = Len(C) + Len(W)
      /\ \A i \in 1 .. Len(C) + Len(W) :
           (C \o W)[i] = IF i <= Len(C) THEN C[i] ELSE W[i - Len(C)]
  BY <1>5, <1>6, ConcatProperties
<1>9. /\ content' \in [File -> Seq(Char) \cup {Missing}]
      /\ content'[writing] = C \o W
      /\ \A f \in File \ {writing} : content'[f] = content[f]
  BY <1>6, <1>7, <1>8 DEF TypeOK
<1>10. Created' = Created
  <2>1. content[writing] # Missing
    BY <1>6, MissingAssumption
  <2>2. content'[writing] # Missing
    BY <1>8, <1>9, MissingAssumption
  <2> QED
    BY <2>1, <2>2, <1>9 DEF Created
<1> HIDE DEF W, C
<1>11. \A i \in 1 .. Len(C) : content'[writing][i] = C[i]
  <2> SUFFICES ASSUME NEW i \in 1 .. Len(C)
               PROVE  content'[writing][i] = C[i]
    OBVIOUS
  <2>1. i \in 1 .. Len(C) + Len(W) /\ i <= Len(C)
    BY <1>4, <1>5, <1>6
  <2> QED
    BY <2>1, <1>8, <1>9
<1>12. \A i \in Len(C) + 1 .. Len(C) + length + 1 :
         content'[writing][i] =
           [line |-> n, rest |-> (Len(C) + length + 1) - i]
  <2> SUFFICES ASSUME NEW i \in Len(C) + 1 .. Len(C) + length + 1
               PROVE  content'[writing][i] =
                        [line |-> n, rest |-> (Len(C) + length + 1) - i]
    OBVIOUS
  <2>1. i \in 1 .. Len(C) + Len(W) /\ ~(i <= Len(C)) /\ i - Len(C) \in 1 .. length + 1
    BY <1>4, <1>5, <1>6
  <2>2. (C \o W)[i] = W[i - Len(C)]
    BY <2>1, <1>8
  <2>3. W[i - Len(C)] = [line |-> n, rest |-> length + 1 - (i - Len(C))]
    BY <2>1, <1>5
  <2>4. length + 1 - (i - Len(C)) = (Len(C) + length + 1) - i
    BY <1>4, <1>6
  <2> QED
    BY <2>2, <2>3, <2>4, <1>9
<1>13. Len(content'[writing]) = Len(C) + length + 1
  <2>1. Len(C) + Len(W) = Len(C) + length + 1
    BY <1>4, <1>5, <1>6
  <2> QED
    BY <2>1, <1>8, <1>9
<1> QED
  BY <1>2, <1>3, <1>8, <1>9, <1>10, <1>11, <1>12, <1>13 DEF C

LEMMA ReadIs ==
  ASSUME TypeOK, Read
  PROVE  \E n \in 1 .. ReadSize :
           /\ offset + n <= Size
           /\ offset' = offset + n
           /\ chunk' \in Seq(Char) /\ Len(chunk') = n
           /\ \A i \in 1 .. n : chunk'[i] = content[file][offset + i]
<1>1. PICK n \in 1 .. ReadSize :
        /\ offset + n <= Size
        /\ chunk' = SubSeq(content[file], offset + 1, offset + n)
        /\ offset' = offset + n
  BY DEF Read
<1> DEFINE C == content[file]
<1>2. /\ C \in Seq(Char) /\ Len(C) \in Nat /\ offset \in Nat /\ n \in Nat
      /\ n >= 1 /\ offset + n <= Len(C)
  BY <1>1, FileIs, FollowerAssumption, SMTT(30) DEF TypeOK, Size
<1>3. \A i \in offset + 1 .. offset + n : C[i] \in Char
  BY <1>2, ElementOfSeq
<1>4. offset + 1 \in Int /\ offset + n \in Int /\ offset + 1 <= offset + n
  BY <1>2
<1>5. /\ SubSeq(C, offset + 1, offset + n) \in Seq(Char)
      /\ Len(SubSeq(C, offset + 1, offset + n)) = (offset + n) - (offset + 1) + 1
      /\ \A i \in 1 .. (offset + n) - (offset + 1) + 1 :
           SubSeq(C, offset + 1, offset + n)[i] = C[(offset + 1) + i - 1]
  BY <1>3, <1>4, SubSeqProperties
<1>6. (offset + n) - (offset + 1) + 1 = n
  BY <1>2
<1>7. \A i \in 1 .. n : (offset + 1) + i - 1 = offset + i
  BY <1>2
<1>8. \A i \in 1 .. n : chunk'[i] = C[offset + i]
  BY <1>1, <1>5, <1>6, <1>7
<1> QED
  BY <1>1, <1>5, <1>6, <1>8

(* appendSegment: the line stays as short as the limit, and a carriage     *)
(* return, allow.                                                          *)
LEMMA AppendedIs ==
  ASSUME TypeOK, NEW segment \in Seq(Char)
  PROVE  /\ Appended(segment) \in Seq(Char)
         /\ Len(Appended(segment)) <= MaxLine + 1
         /\ StillOverlong(segment) \in BOOLEAN
         /\ StillOverlong(segment) => Appended(segment) = <<>>
         /\ ~StillOverlong(segment) =>
              /\ Len(Appended(segment)) = Len(line) + Len(segment)
              /\ \A i \in 1 .. Len(line) : Appended(segment)[i] = line[i]
              /\ \A i \in 1 .. Len(segment) :
                   Appended(segment)[Len(line) + i] = segment[i]
<1>1. line \in Seq(Char) /\ Len(line) \in Nat /\ Len(segment) \in Nat /\ MaxLine \in Nat
  BY LenProperties, FollowerAssumption DEF TypeOK
<1>2. StillOverlong(segment) \in BOOLEAN
  BY DEF StillOverlong, TypeOK
<1>3. CASE StillOverlong(segment)
  <2>1. Appended(segment) = <<>>
    BY <1>3 DEF Appended
  <2>2. <<>> \in Seq(Char) /\ Len(<<>>) = 0
    BY EmptySeq
  <2> QED
    BY <1>1, <1>2, <1>3, <2>1, <2>2
<1>4. CASE ~StillOverlong(segment)
  <2>1. Appended(segment) = line \o segment
    BY <1>4 DEF Appended
  <2>2. /\ line \o segment \in Seq(Char)
        /\ Len(line \o segment) = Len(line) + Len(segment)
        /\ \A i \in 1 .. Len(line) + Len(segment) :
             (line \o segment)[i] =
               IF i <= Len(line) THEN line[i] ELSE segment[i - Len(line)]
    BY <1>1, ConcatProperties
  <2>3. Len(line) + Len(segment) <= MaxLine + 1
    BY <1>1, <1>4 DEF StillOverlong
  <2>4. \A i \in 1 .. Len(line) : (line \o segment)[i] = line[i]
    <3> SUFFICES ASSUME NEW i \in 1 .. Len(line)
                 PROVE  (line \o segment)[i] = line[i]
      OBVIOUS
    <3>1. i \in 1 .. Len(line) + Len(segment) /\ i <= Len(line)
      BY <1>1
    <3> QED
      BY <3>1, <2>2
  <2>5. \A i \in 1 .. Len(segment) : (line \o segment)[Len(line) + i] = segment[i]
    <3> SUFFICES ASSUME NEW i \in 1 .. Len(segment)
                 PROVE  (line \o segment)[Len(line) + i] = segment[i]
      OBVIOUS
    <3>1. /\ Len(line) + i \in 1 .. Len(line) + Len(segment)
          /\ ~(Len(line) + i <= Len(line))
          /\ (Len(line) + i) - Len(line) = i
      BY <1>1
    <3> QED
      BY <3>1, <2>2
  <2> QED
    BY <1>2, <1>4, <2>1, <2>2, <2>3, <2>4, <2>5
<1> QED
  BY <1>3, <1>4

(* The parts of the chunk before and after its first line feed. *)
LEMMA ConsumeLineIs ==
  ASSUME TypeOK, ConsumeLine
  PROVE  \E i \in 1 .. Len(chunk) : \E segment \in Seq(Char) :
           /\ chunk[i].rest = 0
           /\ \A j \in 1 .. i - 1 : chunk[j].rest # 0
           /\ Len(segment) = i - 1
           /\ \A j \in 1 .. i - 1 : segment[j] = chunk[j]
           /\ handled' =
                Append(handled,
                  [line |-> chunk[i].line,
                   text |-> IF StillOverlong(segment)
                               \/ Len(Appended(segment)) > MaxLine
                            THEN TooLong ELSE Appended(segment)])
           /\ chunk' \in Seq(Char) /\ Len(chunk') = Len(chunk) - i
           /\ \A j \in 1 .. Len(chunk) - i : chunk'[j] = chunk[i + j]
<1>1. PICK i \in Feeds :
        /\ \A j \in Feeds : i <= j
        /\ handled' =
             Append(handled,
               [line |-> chunk[i].line,
                text |-> IF StillOverlong(SubSeq(chunk, 1, i - 1))
                            \/ Len(Appended(SubSeq(chunk, 1, i - 1))) > MaxLine
                         THEN TooLong ELSE Appended(SubSeq(chunk, 1, i - 1))])
        /\ chunk' = SubSeq(chunk, i + 1, Len(chunk))
  BY DEF ConsumeLine
<1>2. chunk \in Seq(Char) /\ Len(chunk) \in Nat
  BY LenProperties DEF TypeOK
<1>3. i \in 1 .. Len(chunk) /\ chunk[i].rest = 0 /\ i \in Nat /\ i >= 1
  BY <1>1, <1>2 DEF Feeds
<1>4. \A j \in 1 .. i - 1 : chunk[j].rest # 0
  <2> SUFFICES ASSUME NEW j \in 1 .. i - 1, chunk[j].rest = 0
               PROVE  FALSE
    OBVIOUS
  <2>1. j \in 1 .. Len(chunk) /\ ~(i <= j)
    BY <1>2, <1>3
  <2>2. j \in Feeds
    BY <2>1 DEF Feeds
  <2> QED
    BY <1>1, <2>1, <2>2
<1>5. \A j \in 1 .. Len(chunk) : chunk[j] \in Char
  BY <1>2, ElementOfSeq
<1> DEFINE head == SubSeq(chunk, 1, i - 1)
           tail == SubSeq(chunk, i + 1, Len(chunk))
<1>6. /\ head \in Seq(Char) /\ Len(head) = i - 1
      /\ \A j \in 1 .. i - 1 : head[j] = chunk[j]
  <2>1. 1 \in Int /\ i - 1 \in Int /\ \A j \in 1 .. i - 1 : chunk[j] \in Char
    BY <1>2, <1>3, <1>5
  <2>2. /\ head \in Seq(Char)
        /\ Len(head) = IF 1 <= i - 1 THEN i - 1 - 1 + 1 ELSE 0
        /\ \A j \in 1 .. i - 1 - 1 + 1 : head[j] = chunk[1 + j - 1]
    BY <2>1, SubSeqProperties
  <2>3. (IF 1 <= i - 1 THEN i - 1 - 1 + 1 ELSE 0) = i - 1 /\ i - 1 - 1 + 1 = i - 1
    BY <1>3
  <2>4. \A j \in 1 .. i - 1 : 1 + j - 1 = j
    BY <1>3
  <2>5. \A j \in 1 .. i - 1 : head[j] = chunk[1 + j - 1]
    BY <2>2, <2>3
  <2> HIDE DEF head
  <2> QED
    BY <2>2, <2>3, <2>4, <2>5
<1>7. /\ tail \in Seq(Char) /\ Len(tail) = Len(chunk) - i
      /\ \A j \in 1 .. Len(chunk) - i : tail[j] = chunk[i + j]
  <2>1. /\ i + 1 \in Int /\ Len(chunk) \in Int
        /\ \A j \in i + 1 .. Len(chunk) : chunk[j] \in Char
    BY <1>2, <1>3, <1>5
  <2>2. /\ tail \in Seq(Char)
        /\ Len(tail) = IF i + 1 <= Len(chunk) THEN Len(chunk) - (i + 1) + 1 ELSE 0
        /\ \A j \in 1 .. Len(chunk) - (i + 1) + 1 : tail[j] = chunk[(i + 1) + j - 1]
    BY <2>1, SubSeqProperties
  <2>3. /\ (IF i + 1 <= Len(chunk) THEN Len(chunk) - (i + 1) + 1 ELSE 0) = Len(chunk) - i
        /\ Len(chunk) - (i + 1) + 1 = Len(chunk) - i
    BY <1>2, <1>3
  <2>4. \A j \in 1 .. Len(chunk) - i : (i + 1) + j - 1 = i + j
    BY <1>2, <1>3
  <2>5. \A j \in 1 .. Len(chunk) - i : tail[j] = chunk[(i + 1) + j - 1]
    BY <2>2, <2>3
  <2> HIDE DEF tail
  <2> QED
    BY <2>2, <2>3, <2>4, <2>5
<1> QED
  BY <1>1, <1>3, <1>4, <1>6, <1>7

LEMMA CreateIs ==
  ASSUME TypeOK, Create
  PROVE  /\ content' \in [File -> Seq(Char) \cup {Missing}]
         /\ path' \in File \ Created /\ Created' = Created \cup {path'}
         /\ content'[path'] = <<>>
         /\ \A f \in Created : content'[f] = content[f]
<1>1. PICK f \in File \ Created :
        path' = f /\ content' = [content EXCEPT ![f] = <<>>]
  BY DEF Create
<1>2. <<>> \in Seq(Char)
  BY EmptySeq
<1>3. /\ content' \in [File -> Seq(Char) \cup {Missing}]
      /\ content'[f] = <<>>
      /\ \A g \in File \ {f} : content'[g] = content[g]
  BY <1>1, <1>2 DEF TypeOK
<1>4. Created' = Created \cup {f}
  BY <1>1, <1>2, <1>3, MissingAssumption DEF Created
<1> QED
  BY <1>1, <1>3, <1>4 DEF Created

LEMMA TruncateIs ==
  ASSUME TypeOK, Truncate
  PROVE  /\ content' \in [File -> Seq(Char) \cup {Missing}]
         /\ path \in Created /\ Created' = Created
         /\ content'[path] = <<>>
         /\ \A f \in File \ {path} : content'[f] = content[f] /\ cuts'[f] = cuts[f]
         /\ cuts'[path] = cuts[path] + 1
         /\ cuts' \in [File -> 0 .. MaxTruncations]
         /\ cut' \subseteq Line
         /\ cut' = cut \cup {content[path][i].line : i \in 1 .. Len(content[path])}
<1>1. path \in File /\ path \in Created /\ content[path] \in Seq(Char)
  BY FileIs DEF Truncate
<1>2. <<>> \in Seq(Char)
  BY EmptySeq
<1>3. /\ content' \in [File -> Seq(Char) \cup {Missing}]
      /\ content'[path] = <<>>
      /\ \A f \in File \ {path} : content'[f] = content[f]
  BY <1>1, <1>2 DEF TypeOK, Truncate
<1>4. Created' = Created
  BY <1>1, <1>2, <1>3, MissingAssumption DEF Created
<1>5. /\ cuts' = [cuts EXCEPT ![path] = cuts[path] + 1]
      /\ cuts \in [File -> 0 .. MaxTruncations]
      /\ cuts[path] < MaxTruncations /\ MaxTruncations \in Nat
  BY FollowerAssumption DEF Truncate, TypeOK
<1>6. cuts[path] + 1 \in 0 .. MaxTruncations
  BY <1>1, <1>5
<1>7. /\ cuts' \in [File -> 0 .. MaxTruncations]
      /\ cuts'[path] = cuts[path] + 1
      /\ \A f \in File \ {path} : cuts'[f] = cuts[f]
  BY <1>1, <1>5, <1>6
<1>8. Range(content[path]) = {content[path][i] : i \in 1 .. Len(content[path])}
  BY <1>1, LenProperties DEF Range
<1>9. cut' = cut \cup {content[path][i].line : i \in 1 .. Len(content[path])}
  BY <1>8 DEF Truncate
<1>10. cut' \subseteq Line
  BY <1>1, <1>9, CharIs DEF TypeOK
<1> QED
  BY <1>1, <1>3, <1>4, <1>7, <1>9, <1>10

-----------------------------------------------------------------------------
(* Types *)

LEMMA TypeInit == Init => TypeOK /\ Bounded
<1> SUFFICES ASSUME Init PROVE TypeOK /\ Bounded
  OBVIOUS
<1>1. <<>> \in Seq(Char) /\ <<>> \in Seq(LineLength) /\ Len(<<>>) = 0
      /\ <<>> \in Seq([line : Line, text : Seq(Char) \cup {TooLong}])
  BY EmptySeq
<1>2. PICK f \in File :
        /\ content = [g \in File |-> IF g = f THEN <<>> ELSE Missing]
        /\ path = f /\ writing = f /\ file = f
  BY DEF Init
<1>3. content \in [File -> Seq(Char) \cup {Missing}]
  BY <1>1, <1>2
<1>4. f \in Created
  BY <1>1, <1>2, MissingAssumption DEF Created
<1>5. /\ MaxLine \in Nat /\ ReadSize \in Nat /\ MaxTruncations \in Nat /\ MaxLines \in Nat
  BY FollowerAssumption
<1>6. /\ lengths \in Seq(LineLength) /\ chunk \in Seq(Char) /\ line \in Seq(Char)
      /\ handled \in Seq([line : Line, text : Seq(Char) \cup {TooLong}])
      /\ Len(lengths) = 0 /\ Len(chunk) = 0 /\ Len(line) = 0
  BY <1>1 DEF Init
<1>7. cuts \in [File -> 0 .. MaxTruncations] /\ cut \subseteq Line
  BY <1>5 DEF Init
<1>8. /\ pc = "read" /\ offset = 0 /\ overlong = FALSE /\ seen = Missing
      /\ known = 0 /\ overtaken = FALSE
  BY DEF Init
<1>9. /\ path \in Created /\ {writing, file} \subseteq Created
      /\ known \in 0 .. MaxTruncations /\ offset \in Nat
      /\ Len(chunk) <= ReadSize /\ Len(line) <= MaxLine + 1 /\ Len(lengths) <= MaxLines
  BY <1>2, <1>4, <1>5, <1>6, <1>8
<1> QED
  BY <1>3, <1>6, <1>7, <1>8, <1>9 DEF TypeOK, Bounded

(* Nginx and the rotation do not touch the reader, Follow not the disk. *)
LEMMA TypeDisk ==
  ASSUME TypeOK, Bounded, (\E length \in LineLength : Write(length)) \/ Rotation
  PROVE  TypeOK' /\ Bounded'
<1>1. CASE \E length \in LineLength : Write(length)
  <2>1. PICK length \in LineLength : Write(length)
    BY <1>1
  <2>2. /\ lengths' \in Seq(LineLength) /\ Len(lengths') = Len(lengths) + 1
        /\ content' \in [File -> Seq(Char) \cup {Missing}] /\ Created' = Created
        /\ Len(lengths) + 1 \in Line
    BY <2>1, WriteIs
  <2>3. UNCHANGED <<path, writing, cut, cuts, reader>>
    BY <2>1 DEF Write
  <2>4. Len(lengths') <= MaxLines
    BY <2>2, FollowerAssumption DEF Line
  <2> QED
    BY <2>2, <2>3, <2>4 DEF TypeOK, reader, Bounded
<1>2. CASE Rename
  BY <1>2 DEF Rename, TypeOK, Created, reader, Bounded
<1>3. CASE Create
  BY <1>3, CreateIs DEF Create, TypeOK, reader, Bounded
<1>4. CASE Obstruct
  BY <1>4 DEF Obstruct, TypeOK, Created, reader, Bounded
<1>5. CASE Reopen
  <2>1. path \in Created
    BY <1>5, FileIs DEF Reopen
  <2> QED
    BY <1>5, <2>1 DEF Reopen, TypeOK, Created, reader, Bounded
<1>6. CASE Truncate
  BY <1>6, TruncateIs DEF Truncate, TypeOK, reader, Bounded
<1> QED
  BY <1>1, <1>2, <1>3, <1>4, <1>5, <1>6 DEF Rotation

LEMMA TypeReader ==
  ASSUME TypeOK, Bounded, Elsewhere, Follow \/ Cancel
  PROVE  TypeOK' /\ Bounded'
<1> DEFINE Pcs == {"read", "inspect", "compare", "look", "open", "failed", "stopped"}
           OnDisk ==
                   /\ content \in [File -> Seq(Char) \cup {Missing}]
                   /\ path \in Created \cup {Missing, Unsafe}
                   /\ writing \in Created
                   /\ lengths \in Seq(LineLength) /\ Len(lengths) <= MaxLines
                   /\ cut \subseteq Line
                   /\ cuts \in [File -> 0 .. MaxTruncations]
<1>1. UNCHANGED disk
  BY DEF Follow, Read, ReadEOF, ConsumeRest, ConsumeLine, Rewind, NotShorter, Compare,
         Look, Open, Cancel
<1>2. Created' = Created /\ OnDisk'
  <2>1. OnDisk
    BY DEF TypeOK, Bounded
  <2> QED
    BY <1>1, <2>1 DEF disk, Created
<1>3. /\ MaxLine \in Nat /\ ReadSize \in Nat
      /\ line' = <<>> => line' \in Seq(Char) /\ Len(line') <= MaxLine + 1
      /\ chunk' = <<>> => chunk' \in Seq(Char) /\ Len(chunk') <= ReadSize
  <2>1. <<>> \in Seq(Char) /\ Len(<<>>) = 0 /\ MaxLine \in Nat /\ ReadSize \in Nat
    BY EmptySeq, FollowerAssumption
  <2>2. 0 <= MaxLine + 1 /\ 0 <= ReadSize
    BY <2>1
  <2>3. Len(<<>>) <= MaxLine + 1 /\ Len(<<>>) <= ReadSize
    BY <2>1, <2>2, Zenon
  <2> QED
    BY <2>1, <2>3, Zenon
<1>4. \A f \in File : cuts[f] \in 0 .. MaxTruncations
  BY DEF TypeOK
<1>5. file \in Created /\ file \in File
  BY DEF TypeOK, Created
<1>6. CASE Read
  <2>1. PICK n \in 1 .. ReadSize :
          /\ offset' = offset + n
          /\ chunk' \in Seq(Char) /\ Len(chunk') = n
    BY <1>6, ReadIs
  <2>2. offset' \in Nat /\ Len(chunk') <= ReadSize
    BY <2>1, <1>3 DEF TypeOK
  <2>3. UNCHANGED <<pc, file, line, overlong, seen, handled>> /\ known' = cuts[file]
    BY <1>6 DEF Read
  <2>4. overtaken' \in BOOLEAN
    BY <1>6 DEF Read, TypeOK, Unnoticed
  <2> QED
    BY <1>2, <1>4, <1>5, <2>1, <2>2, <2>3, <2>4 DEF TypeOK, Bounded
<1>7. CASE ReadEOF
  BY <1>2, <1>7 DEF ReadEOF, TypeOK, Bounded
<1>8. CASE ConsumeRest
  <2>1. /\ line' \in Seq(Char) /\ Len(line') <= MaxLine + 1
        /\ overlong' \in BOOLEAN
    BY <1>8, AppendedIs DEF ConsumeRest, TypeOK
  <2>2. UNCHANGED <<pc, file, offset, seen, handled, known, overtaken>> /\ chunk' = <<>>
    BY <1>8 DEF ConsumeRest
  <2> QED
    BY <1>2, <1>3, <2>1, <2>2 DEF TypeOK, Bounded
<1>9. CASE ConsumeLine
  <2>1. PICK i \in 1 .. Len(chunk), segment \in Seq(Char) :
          /\ handled' =
               Append(handled,
                 [line |-> chunk[i].line,
                  text |-> IF StillOverlong(segment)
                              \/ Len(Appended(segment)) > MaxLine
                           THEN TooLong ELSE Appended(segment)])
          /\ chunk' \in Seq(Char) /\ Len(chunk') = Len(chunk) - i
    BY <1>9, ConsumeLineIs
  <2> DEFINE text == IF StillOverlong(segment) \/ Len(Appended(segment)) > MaxLine
                     THEN TooLong ELSE Appended(segment)
  <2>2. chunk[i].line \in Line
    BY CharIs DEF TypeOK
  <2>3. text \in Seq(Char) \cup {TooLong}
    BY AppendedIs
  <2>4. handled' = Append(handled, [line |-> chunk[i].line, text |-> text])
    BY <2>1
  <2> HIDE DEF text
  <2>5. handled' \in Seq([line : Line, text : Seq(Char) \cup {TooLong}])
    BY <2>2, <2>3, <2>4, AppendProperties DEF TypeOK
  <2>6. Len(chunk') <= ReadSize
    <3>1. Len(chunk) \in Nat /\ Len(chunk) <= ReadSize
      BY LenProperties DEF TypeOK
    <3> QED
      BY <2>1, <3>1, <1>3
  <2>7. UNCHANGED <<pc, file, offset, seen, known, overtaken>>
        /\ line' = <<>> /\ overlong' = FALSE
    BY <1>9 DEF ConsumeLine
  <2> QED
    BY <1>2, <1>3, <2>1, <2>5, <2>6, <2>7 DEF TypeOK, Bounded
<1>10. CASE Rewind
  <2>1. /\ offset' = 0 /\ line' = <<>> /\ overlong' = FALSE
        /\ pc' = "read" /\ known' = cuts[file]
        /\ UNCHANGED <<file, chunk, seen, handled, overtaken>>
    BY <1>10 DEF Rewind, ResetPartial
  <2> QED
    BY <1>2, <1>3, <1>4, <1>5, <2>1 DEF TypeOK, Bounded
<1>11. CASE NotShorter
  BY <1>2, <1>11 DEF NotShorter, Unnoticed, TypeOK, Bounded
<1>12. CASE Compare
  BY <1>2, <1>12 DEF Compare, TypeOK, Bounded
<1>13. CASE Look
  BY <1>2, <1>13 DEF Look, TypeOK, Bounded
<1>14. CASE Open
  <2>1. CASE path = seen
    <3>1. seen \in Created /\ seen \in File
      BY <1>14 DEF Open, Elsewhere, Created
    <3>2. /\ file' = seen /\ offset' = 0 /\ line' = <<>> /\ overlong' = FALSE
          /\ known' = cuts[seen] /\ pc' = "read" /\ seen' = Missing
          /\ UNCHANGED <<chunk, handled, overtaken>>
      BY <1>14, <2>1 DEF Open, StartOver, ResetPartial
    <3> QED
      BY <1>2, <1>3, <1>4, <3>1, <3>2 DEF TypeOK, Bounded
  <2>2. CASE path # seen
    BY <1>2, <1>14, <2>2 DEF Open, TypeOK, Bounded
  <2> QED
    BY <2>1, <2>2
<1>15. CASE Cancel
  BY <1>2, <1>15 DEF Cancel, TypeOK, Bounded
<1> QED
  BY <1>6, <1>7, <1>8, <1>9, <1>10, <1>11, <1>12, <1>13, <1>14, <1>15 DEF Follow

-----------------------------------------------------------------------------
(* The files *)

LEMMA LengthsAre ==
  ASSUME TypeOK
  PROVE  /\ lengths \in Seq(Nat) /\ Len(lengths) \in Nat
         /\ \A n \in 1 .. Len(lengths) : lengths[n] \in Nat
<1>1. lengths \in Seq(LineLength) /\ LineLength \subseteq Nat
  BY FollowerAssumption DEF TypeOK
<1>2. lengths \in Seq(Nat)
  BY <1>1, SeqMonotonic
<1> QED
  BY <1>2, LenProperties, ElementOfSeq

(* A line keeps its length when another one is written. *)
LEMMA FlowKept ==
  ASSUME NEW s \in Seq(Char), NEW K \in Seq(Nat), NEW L \in Seq(Nat),
         FlowIn(s, K), Len(K) <= Len(L), \A n \in 1 .. Len(K) : L[n] = K[n]
  PROVE  FlowIn(s, L)
<1>1. Len(K) \in Nat /\ Len(L) \in Nat
  BY LenProperties
<1>2. \A i \in 1 .. Len(s) :
        s[i].line \in Nat /\ s[i].line <= Len(K) /\ L[s[i].line] = K[s[i].line]
  <2> SUFFICES ASSUME NEW i \in 1 .. Len(s)
               PROVE  s[i].line \in Nat /\ s[i].line <= Len(K)
                      /\ L[s[i].line] = K[s[i].line]
    OBVIOUS
  <2>1. s[i].line \in Nat /\ s[i].line >= 1
    BY CharIs, FollowerAssumption DEF Line
  <2>2. s[i].line <= Len(K)
    BY DEF FlowIn
  <2>3. s[i].line \in 1 .. Len(K)
    BY <1>1, <2>1, <2>2
  <2> QED
    BY <2>1, <2>2, <2>3
<1>3. \A i \in 1 .. Len(s) : s[i].line <= Len(L)
  BY <1>1, <1>2
<1>4. \A i \in 1 .. Len(s) : s[i].rest <= L[s[i].line]
  BY <1>2 DEF FlowIn
<1>5. \A i, j \in 1 .. Len(s) : i < j =>
        /\ j <= i + s[i].rest =>
             s[j].line = s[i].line /\ s[j].rest = s[i].rest - (j - i)
        /\ j > i + s[i].rest => s[j].line > s[i].line
        /\ j = i + s[i].rest + 1 => s[j].rest = L[s[j].line]
  BY <1>2 DEF FlowIn
<1> QED
  BY <1>3, <1>4, <1>5 DEF FlowIn

(* What stands in a part of a file. *)
LEMMA FlowOfPart ==
  ASSUME NEW s \in Seq(Char), NEW t \in Seq(Char), NEW L, NEW d \in Nat,
         FlowIn(s, L), d + Len(t) <= Len(s), \A i \in 1 .. Len(t) : t[i] = s[d + i]
  PROVE  FlowIn(t, L)
<1>1. Len(s) \in Nat /\ Len(t) \in Nat
  BY LenProperties
<1>2. \A i \in 1 .. Len(t) : d + i \in 1 .. Len(s)
  BY <1>1
<1>3. ASSUME NEW i \in 1 .. Len(t)
      PROVE  t[i].line <= Len(L) /\ t[i].rest <= L[t[i].line]
  <2>1. t[i] = s[d + i] /\ d + i \in 1 .. Len(s)
    BY <1>2
  <2> QED
    BY <2>1 DEF FlowIn
<1>4. ASSUME NEW i \in 1 .. Len(t), NEW j \in 1 .. Len(t), i < j
      PROVE  /\ j <= i + t[i].rest =>
                  t[j].line = t[i].line /\ t[j].rest = t[i].rest - (j - i)
             /\ j > i + t[i].rest => t[j].line > t[i].line
             /\ j = i + t[i].rest + 1 => t[j].rest = L[t[j].line]
  <2> DEFINE p == d + i
             q == d + j
  <2>1. t[i] = s[p] /\ t[j] = s[q]
    OBVIOUS
  <2>2. p \in 1 .. Len(s) /\ q \in 1 .. Len(s) /\ p < q /\ q - p = j - i
    BY <1>1, <1>2, <1>4
  <2>3. s[p].rest \in Nat
    BY <2>2, CharIs
  <2>4. \A r \in Nat : /\ j <= i + r => q <= p + r
                       /\ j > i + r => q > p + r
                       /\ j = i + r + 1 => q = p + r + 1
    BY <1>1
  <2>5. /\ q <= p + s[p].rest =>
             s[q].line = s[p].line /\ s[q].rest = s[p].rest - (q - p)
        /\ q > p + s[p].rest => s[q].line > s[p].line
        /\ q = p + s[p].rest + 1 => s[q].rest = L[s[q].line]
    BY <2>2 DEF FlowIn
  <2> HIDE DEF p, q
  <2> QED
    BY <2>1, <2>2, <2>3, <2>4, <2>5
<1> QED
  BY <1>3, <1>4 DEF FlowIn

LEMMA WholeKept ==
  ASSUME NEW s \in Seq(Char), NEW K \in Seq(Nat), NEW L \in Seq(Nat),
         WholeIn(s, K), Len(K) <= Len(L), \A n \in 1 .. Len(K) : L[n] = K[n]
  PROVE  WholeIn(s, L)
<1>1. FlowIn(s, L)
  BY FlowKept DEF WholeIn
<1>2. s # <<>> => s[1].rest = L[s[1].line]
  <2> SUFFICES ASSUME s # <<>> PROVE s[1].rest = L[s[1].line]
    OBVIOUS
  <2>1. 1 \in 1 .. Len(s) /\ Len(K) \in Nat
    BY EmptySeq, LenProperties
  <2>2. s[1].line \in Nat /\ s[1].line >= 1
    BY <2>1, CharIs, FollowerAssumption DEF Line
  <2>3. s[1].line <= Len(K)
    BY <2>1 DEF WholeIn, FlowIn
  <2>4. s[1].line \in 1 .. Len(K)
    BY <2>1, <2>2, <2>3
  <2> QED
    BY <2>4 DEF WholeIn
<1> QED
  BY <1>1, <1>2 DEF WholeIn

(* The characters of line N after those of earlier lines. *)
LineAdded(C, D, N, last) ==
  /\ Len(D) = last
  /\ \A i \in 1 .. Len(C) : C[i].line < N /\ D[i] = C[i]
  /\ \A i \in Len(C) + 1 .. last : D[i] = [line |-> N, rest |-> last - i]

LEMMA WholeWithLine ==
  ASSUME NEW C \in Seq(Char), NEW D \in Seq(Char), NEW L \in Seq(Nat), WholeIn(C, L),
         NEW N \in Nat, N = Len(L), N > 0, NEW last \in Nat, last = Len(C) + L[N] + 1,
         LineAdded(C, D, N, last)
  PROVE  WholeIn(D, L)
<1>1. Len(L) \in Nat /\ Len(C) \in Nat /\ N \in 1 .. Len(L) /\ Len(D) = last
  BY LenProperties DEF LineAdded
<1>2. L[N] \in Nat
  BY <1>1, ElementOfSeq
<1>3. WholeIn(C, L)
  OBVIOUS
<1>4. \A i \in 1 .. Len(C) :
        /\ D[i].line \in Nat /\ D[i].line < N
        /\ D[i].rest \in Nat /\ D[i].rest <= L[D[i].line] /\ i + D[i].rest <= Len(C)
  <2> SUFFICES ASSUME NEW i \in 1 .. Len(C)
               PROVE  /\ C[i].line \in Nat /\ C[i].line < N
                      /\ C[i].rest \in Nat /\ C[i].rest <= L[C[i].line]
                      /\ i + C[i].rest <= Len(C)
    BY DEF LineAdded
  <2>1. C[i].line \in Nat /\ C[i].rest \in Nat
    BY CharIs
  <2>2. C[i].line < N
    BY DEF LineAdded
  <2>3. C[i].rest <= L[C[i].line] /\ i + C[i].rest <= Len(C)
    BY <1>3 DEF WholeIn, FlowIn
  <2> QED
    BY <2>1, <2>2, <2>3
<1>5. \A i \in Len(C) + 1 .. last :
        /\ D[i].line = N /\ D[i].rest = last - i
        /\ D[i].rest \in Nat /\ D[i].rest <= L[N]
  <2> SUFFICES ASSUME NEW i \in Len(C) + 1 .. last
               PROVE  /\ D[i].line = N /\ D[i].rest = last - i
                      /\ D[i].rest \in Nat /\ D[i].rest <= L[N]
    OBVIOUS
  <2>1. D[i] = [line |-> N, rest |-> last - i]
    BY DEF LineAdded
  <2>2. D[i].line = N /\ D[i].rest = last - i
    BY <2>1
  <2>3. last - i \in Nat /\ last - i <= L[N]
    BY <1>1, <1>2, SMTT(30)
  <2> QED
    BY <2>2, <2>3
<1>6. \A i \in 1 .. last : i \in 1 .. Len(C) \/ i \in Len(C) + 1 .. last
  BY <1>1
<1>7. \A i \in 1 .. last : D[i].line <= Len(L) /\ D[i].rest <= L[D[i].line]
  <2> SUFFICES ASSUME NEW i \in 1 .. last
               PROVE  D[i].line <= Len(L) /\ D[i].rest <= L[D[i].line]
    OBVIOUS
  <2>1. CASE i \in 1 .. Len(C)
    <3>1. D[i].line \in Nat /\ D[i].line < N /\ D[i].rest <= L[D[i].line]
      BY <1>4, <2>1
    <3> QED
      BY <1>1, <3>1
  <2>2. CASE i \in Len(C) + 1 .. last
    <3>1. D[i].line = N /\ D[i].rest <= L[N]
      BY <1>5, <2>2
    <3> QED
      BY <1>1, <3>1
  <2> QED
    BY <1>6, <2>1, <2>2
<1>8. \A i \in 1 .. last : i + D[i].rest <= last
  <2> SUFFICES ASSUME NEW i \in 1 .. last
               PROVE  i + D[i].rest <= last
    OBVIOUS
  <2>1. Len(C) <= last
    BY <1>1, <1>2
  <2>2. CASE i \in 1 .. Len(C)
    <3> DEFINE r == D[i].rest
    <3>1. /\ i \in Nat /\ r \in Nat /\ i + r <= Len(C)
          /\ Len(C) \in Nat /\ L[N] \in Nat /\ last = Len(C) + L[N] + 1
      BY <1>1, <1>2, <1>4, <2>2
    <3> HIDE DEF r
    <3>2. i + r <= last
      BY <3>1, SMTT(30)
    <3> QED
      BY <3>2 DEF r
  <2>3. CASE i \in Len(C) + 1 .. last
    BY <1>5, <2>3, SMTT(30)
  <2> QED
    BY <1>6, <2>2, <2>3
<1>9. ASSUME NEW i \in 1 .. last, NEW j \in 1 .. last, i < j
      PROVE  /\ j <= i + D[i].rest =>
                  D[j].line = D[i].line /\ D[j].rest = D[i].rest - (j - i)
             /\ j > i + D[i].rest => D[j].line > D[i].line
             /\ j = i + D[i].rest + 1 => D[j].rest = L[D[j].line]
  <2>1. CASE i \in 1 .. Len(C) /\ j \in 1 .. Len(C)
    <3>1. D[i] = C[i] /\ D[j] = C[j]
      BY <2>1 DEF LineAdded
    <3>2. /\ j <= i + C[i].rest =>
               C[j].line = C[i].line /\ C[j].rest = C[i].rest - (j - i)
          /\ j > i + C[i].rest => C[j].line > C[i].line
          /\ j = i + C[i].rest + 1 => C[j].rest = L[C[j].line]
      <4>1. FlowIn(C, L) /\ i \in 1 .. Len(C) /\ j \in 1 .. Len(C) /\ i < j
        BY <1>3, <1>9, <2>1 DEF WholeIn
      <4> QED
        BY <4>1 DEF FlowIn
    <3> QED
      BY <1>3, <2>1, <3>1, <3>2
  <2>2. CASE i \in 1 .. Len(C) /\ j \in Len(C) + 1 .. last
    <3>1. D[i].rest \in Nat /\ i + D[i].rest <= Len(C) /\ D[i].line < N /\ D[i].line \in Nat
      BY <1>4, <2>2
    <3>2. D[j].line = N /\ D[j].rest = last - j
      BY <1>5, <2>2
    <3> DEFINE c == Len(C)
               r == D[i].rest
               m == L[N]
    <3>3. /\ c \in Nat /\ r \in Nat /\ m \in Nat /\ last \in Nat /\ last = c + m + 1
          /\ i \in Nat /\ j \in Nat /\ i + r <= c /\ j >= c + 1
      <4>1. c \in Nat /\ m \in Nat /\ last \in Nat /\ last = c + m + 1
        BY <1>1, <1>2
      <4>2. i \in Nat /\ j \in Nat /\ j >= c + 1
        BY <2>2, <4>1
      <4>3. r \in Nat /\ i + r <= c
        BY <3>1
      <4> QED
        BY <4>1, <4>2, <4>3
    <3> HIDE DEF c, r, m
    <3>4. j > i + r /\ ~(j <= i + r) /\ (j = i + r + 1 => last - j = m)
      BY <3>3, SMTT(30)
    <3> QED
      BY <3>1, <3>2, <3>4 DEF r, m
  <2>3. CASE i \in Len(C) + 1 .. last /\ j \in Len(C) + 1 .. last
    <3>1. /\ D[i].line = N /\ D[i].rest = last - i
          /\ D[j].line = N /\ D[j].rest = last - j
      BY <1>5, <2>3
    <3>2. i \in Int /\ j \in Int /\ i + (last - i) = last /\ j <= last /\ last \in Int
      BY <1>1, <2>3
    <3>3. last - j = (last - i) - (j - i)
      BY <3>2
    <3>4. i + D[i].rest = last
      BY <3>1, <3>2
    <3>5. ~(j > last) /\ ~(j = last + 1)
      BY <3>2, SMTT(30)
    <3> QED
      BY <3>1, <3>3, <3>4, <3>5
  <2> QED
    BY <1>1, <1>6, <1>9, <2>1, <2>2, <2>3
<1>10. D # <<>> => D[1].rest = L[D[1].line]
  <2>1. CASE C = <<>>
    <3>1. Len(C) = 0
      BY <2>1, EmptySeq
    <3>2. 1 \in Len(C) + 1 .. last /\ last - 1 = L[N]
      BY <1>1, <1>2, <3>1
    <3>3. D[1].line = N /\ D[1].rest = last - 1
      BY <1>5, <3>2
    <3> QED
      BY <3>2, <3>3
  <2>2. CASE C # <<>>
    <3>1. 1 \in 1 .. Len(C)
      BY <2>2, EmptySeq
    <3>2. D[1] = C[1]
      BY <3>1 DEF LineAdded
    <3> QED
      BY <1>3, <2>2, <3>2 DEF WholeIn
  <2> QED
    BY <2>1, <2>2
<1> QED
  BY <1>1, <1>7, <1>8, <1>9, <1>10 DEF WholeIn, FlowIn

(* A whole line after whole lines. *)
LEMMA WholeGrown ==
  ASSUME NEW C \in Seq(Char), NEW D \in Seq(Char),
         NEW K \in Seq(Nat), NEW L \in Seq(Nat),
         WholeIn(C, K), Len(L) = Len(K) + 1, \A n \in 1 .. Len(K) : L[n] = K[n],
         NEW N \in Nat, N = Len(L), NEW last \in Nat, last = Len(C) + L[N] + 1,
         Len(D) = last,
         \A i \in 1 .. Len(C) : D[i] = C[i],
         \A i \in Len(C) + 1 .. last : D[i] = [line |-> N, rest |-> last - i]
  PROVE  WholeIn(D, L)
<1>1. Len(K) \in Nat /\ Len(K) <= Len(L) /\ N = Len(K) + 1
  BY LenProperties
<1>2. WholeIn(C, L)
  BY <1>1, WholeKept
<1>3. \A i \in 1 .. Len(C) : C[i].line < N
  <2>1. \A i \in 1 .. Len(C) : C[i].line \in Nat /\ C[i].line <= Len(K)
    BY CharIs DEF WholeIn, FlowIn
  <2> QED
    BY <1>1, <2>1
<1>4. LineAdded(C, D, N, last)
  BY <1>3 DEF LineAdded
<1> QED
  BY <1>1, <1>2, <1>4, WholeWithLine

LEMMA DiskInit == Init => Disk
<1> SUFFICES ASSUME Init PROVE Disk
  OBVIOUS
<1>1. Len(<<>>) = 0
  OBVIOUS
<1>2. PICK f \in File :
        /\ content = [g \in File |-> IF g = f THEN <<>> ELSE Missing]
        /\ path = f /\ writing = f /\ file = f
  BY DEF Init
<1>3. \A g \in Created : g = f
  BY <1>2 DEF Created
<1>4. content[f] = <<>> /\ lengths = <<>>
  BY <1>2 DEF Init
<1>5. WholeIn(<<>>, lengths)
  BY <1>1 DEF WholeIn, FlowIn
<1> QED
  BY <1>1, <1>2, <1>3, <1>4, <1>5 DEF Disk, FilesWhole, Newest, NoneLost

LEMMA DiskWrite ==
  ASSUME TypeOK, Disk, NEW length \in LineLength, Write(length)
  PROVE  Disk'
<1> DEFINE C == content[writing]
           D == content'[writing]
           N == Len(lengths) + 1
<1>1. /\ Len(lengths') = N /\ lengths'[N] = length
      /\ \A n \in 1 .. Len(lengths) : lengths'[n] = lengths[n]
      /\ \A f \in File \ {writing} : content'[f] = content[f]
      /\ D \in Seq(Char) /\ Len(D) = Len(C) + length + 1
      /\ \A i \in 1 .. Len(C) : D[i] = C[i]
      /\ \A i \in Len(C) + 1 .. Len(D) :
           D[i] = [line |-> N, rest |-> (Len(C) + length + 1) - i]
      /\ Created' = Created
  BY WriteIs
<1>2. lengths \in Seq(Nat) /\ Len(lengths) \in Nat /\ N \in Nat
  BY LengthsAre
<1>3. lengths' \in Seq(Nat)
  BY WriteIs, SeqMonotonic, FollowerAssumption
<1>4. UNCHANGED <<path, writing, cut>>
  BY DEF Write
<1>5. /\ \A f \in Created : content[f] \in Seq(Char) /\ Len(content[f]) \in Nat
      /\ writing \in Created /\ writing \in File
      /\ C \in Seq(Char) /\ Len(C) \in Nat /\ length \in Nat
      /\ path \in File => path \in Created
  BY FileIs, FollowerAssumption DEF TypeOK
<1>6. \A f \in Created \ {writing} : content'[f] = content[f] /\ f \in File
  BY <1>1 DEF Created
<1> HIDE DEF C, D
<1>20. \A i \in Len(C) + 1 .. Len(D) : D[i].line = N
  <2> SUFFICES ASSUME NEW i \in Len(C) + 1 .. Len(D)
               PROVE  D[i].line = N
    OBVIOUS
  <2>1. D[i] = [line |-> N, rest |-> (Len(C) + length + 1) - i]
    BY <1>1
  <2> QED
    BY <2>1
<1>7. FilesWhole'
  <2>1. ASSUME NEW f \in Created \ {writing} PROVE WholeIn(content'[f], lengths')
    <3>1. WholeIn(content[f], lengths)
      BY DEF Disk, FilesWhole
    <3>2. Len(lengths) <= Len(lengths')
      BY <1>1, <1>2
    <3>3. WholeIn(content[f], lengths')
      BY <1>1, <1>2, <1>3, <1>5, <3>1, <3>2, WholeKept
    <3> QED
      BY <1>6, <3>3
  <2>2. WholeIn(D, lengths')
    <3>1. WholeIn(C, lengths)
      BY <1>5 DEF Disk, FilesWhole, C
    <3> DEFINE last == Len(C) + length + 1
    <3>2. last \in Nat /\ last = Len(C) + lengths'[N] + 1 /\ Len(D) = last
      BY <1>1, <1>5
    <3>3. \A i \in Len(C) + 1 .. Len(D) : D[i] = [line |-> N, rest |-> last - i]
      BY <1>1, Zenon
    <3>4. Len(lengths') = Len(lengths) + 1 /\ N = Len(lengths')
      BY <1>1
    <3> HIDE DEF last, N
    <3>5. \A i \in Len(C) + 1 .. last : D[i] = [line |-> N, rest |-> last - i]
      BY <3>2, <3>3, Zenon
    <3>6. \A n \in 1 .. Len(lengths) : lengths'[n] = lengths[n]
      BY <1>1
    <3>7. /\ C \in Seq(Char) /\ D \in Seq(Char) /\ lengths \in Seq(Nat)
          /\ lengths' \in Seq(Nat) /\ N \in Nat
          /\ \A i \in 1 .. Len(C) : D[i] = C[i]
      BY <1>1, <1>2, <1>3, <1>5
    <3> DEFINE K == lengths
               L == lengths'
    <3>8. /\ C \in Seq(Char) /\ D \in Seq(Char) /\ K \in Seq(Nat) /\ L \in Seq(Nat)
          /\ WholeIn(C, K) /\ Len(L) = Len(K) + 1
          /\ \A n \in 1 .. Len(K) : L[n] = K[n]
          /\ N \in Nat /\ N = Len(L) /\ last \in Nat /\ last = Len(C) + L[N] + 1
          /\ Len(D) = last /\ \A i \in 1 .. Len(C) : D[i] = C[i]
          /\ \A i \in Len(C) + 1 .. last : D[i] = [line |-> N, rest |-> last - i]
      BY <3>1, <3>2, <3>4, <3>5, <3>6, <3>7
    <3> HIDE DEF K, L
    <3>9. WholeIn(D, L)
      BY <3>8, WholeGrown, ZenonT(40)
    <3> QED
      BY <3>9 DEF L
  <2> QED
    BY <1>1, <1>4, <2>1, <2>2 DEF FilesWhole, D
<1>8. \A f \in Created : \A i \in 1 .. Len(content[f]) :
        content[f][i].line \in Nat /\ content[f][i].line < N
  <2> SUFFICES ASSUME NEW f \in Created, NEW i \in 1 .. Len(content[f])
               PROVE  content[f][i].line \in Nat /\ content[f][i].line < N
    OBVIOUS
  <2>1. content[f][i].line \in Nat
    BY <1>5, CharIs
  <2>2. content[f][i].line <= Len(lengths)
    BY DEF Disk, FilesWhole, WholeIn, FlowIn
  <2> QED
    BY <1>2, <2>1, <2>2
<1>9. Newest'
  <2>1. path' \in File /\ path' # writing' => content'[path'] = <<>>
    BY <1>4, <1>5, <1>6 DEF Disk, Newest
  <2>2. ASSUME NEW f \in Created \ {writing},
               NEW i \in 1 .. Len(content[f]), NEW j \in 1 .. Len(D)
        PROVE  content[f][i].line < D[j].line
    <3>1. CASE j \in 1 .. Len(C)
      BY <1>1, <3>1 DEF Disk, Newest, C
    <3>2. CASE j \in Len(C) + 1 .. Len(D)
      <4>1. D[j].line = N
        BY <1>20, <3>2
      <4> QED
        BY <1>8, <4>1
    <3> QED
      BY <1>5, <3>1, <3>2
  <2> QED
    BY <1>1, <1>4, <1>6, <2>1, <2>2 DEF Newest, D
<1>10. NoneLost'
  <2> SUFFICES ASSUME NEW n \in 1 .. N
               PROVE  \/ n \in cut
                      \/ \E f \in Created :
                           \E i \in 1 .. Len(content'[f]) : content'[f][i].line = n
    BY <1>1, <1>4 DEF NoneLost
  <2>1. CASE n \in 1 .. Len(lengths)
    <3>1. CASE n \in cut
      BY <3>1
    <3>2. CASE \E f \in Created :
                 \E i \in 1 .. Len(content[f]) : content[f][i].line = n
      <4>1. PICK f \in Created :
          \E i \in 1 .. Len(content[f]) : content[f][i].line = n
        BY <3>2
      <4>2. CASE f = writing
        <5>1. PICK i \in 1 .. Len(C) : C[i].line = n
          BY <4>1, <4>2 DEF C
        <5>2. i \in 1 .. Len(D) /\ D[i].line = n
          BY <1>1, <1>5, <5>1
        <5> QED
          BY <1>5, <5>2 DEF D
      <4>3. CASE f # writing
        BY <1>6, <4>1, <4>3
      <4> QED
        BY <4>2, <4>3
    <3> QED
      BY <2>1, <3>1, <3>2 DEF Disk, NoneLost
  <2>2. CASE n = N
    <3>1. Len(D) \in Len(C) + 1 .. Len(D) /\ Len(D) \in 1 .. Len(D)
      BY <1>1, <1>5
    <3>2. D[Len(D)].line = N
      BY <1>20, <3>1
    <3> QED
      BY <1>5, <2>2, <3>1, <3>2 DEF D
  <2> QED
    BY <1>2, <2>1, <2>2
<1> QED
  BY <1>7, <1>9, <1>10 DEF Disk

LEMMA DiskRotation ==
  ASSUME TypeOK, Disk, Rotation
  PROVE  Disk'
<1>1. <<>> \in Seq(Char) /\ Len(<<>>) = 0 /\ WholeIn(<<>>, lengths)
  BY EmptySeq DEF WholeIn, FlowIn
<1>2. /\ writing \in Created /\ writing \in File
      /\ path \in File => path \in Created
  BY FileIs DEF TypeOK
<1>3. CASE Rename
  <2>1. /\ UNCHANGED <<content, writing, lengths, cut>>
        /\ path' \notin File
    BY <1>3, FollowerAssumption DEF Rename
  <2>2. Created' = Created
    BY <2>1 DEF Created
  <2>3. FilesWhole' /\ NoneLost'
    BY <2>1, <2>2 DEF Disk, FilesWhole, NoneLost
  <2>4. Newest'
    BY <2>1, <2>2 DEF Disk, Newest
  <2> QED
    BY <2>3, <2>4 DEF Disk
<1>4. CASE Obstruct
  BY <1>4, FollowerAssumption
     DEF Obstruct, Disk, FilesWhole, Newest, NoneLost, Created
<1>5. CASE Create
  <2>1. /\ path' \in File \ Created /\ Created' = Created \cup {path'}
        /\ content'[path'] = <<>>
        /\ \A f \in Created : content'[f] = content[f]
        /\ UNCHANGED <<writing, lengths, cut>>
    BY <1>5, CreateIs DEF Create
  <2> QED
    BY <1>1, <1>2, <2>1 DEF Disk, FilesWhole, Newest, NoneLost
<1>6. CASE Reopen
  <2>1. path \in File /\ writing' = path /\ UNCHANGED <<content, path, lengths, cut>>
        /\ Created' = Created
    BY <1>6 DEF Reopen, Created
  <2>2. CASE path = writing
    BY <2>1, <2>2 DEF Disk, FilesWhole, Newest, NoneLost
  <2>3. CASE path # writing
    <3>1. content[path] = <<>>
      BY <2>1, <2>3 DEF Disk, Newest
    <3> QED
      BY <1>1, <2>1, <3>1 DEF Disk, FilesWhole, Newest, NoneLost
  <2> QED
    BY <2>2, <2>3
<1>7. CASE Truncate
  <2>1. /\ path \in Created /\ Created' = Created
        /\ content'[path] = <<>>
        /\ \A f \in File \ {path} : content'[f] = content[f]
        /\ cut' = cut \cup {content[path][i].line : i \in 1 .. Len(content[path])}
        /\ UNCHANGED <<path, writing, lengths>>
    BY <1>7, TruncateIs DEF Truncate
  <2>2. \A f \in Created \ {path} : content'[f] = content[f]
    BY <2>1 DEF Created
  <2>3. FilesWhole' /\ Newest'
    BY <1>1, <1>2, <2>1, <2>2, SMTT(30) DEF Disk, FilesWhole, Newest
  <2>4. NoneLost'
    <3> SUFFICES ASSUME NEW n \in 1 .. Len(lengths), n \notin cut'
                 PROVE  \E f \in Created :
                          \E i \in 1 .. Len(content'[f]) : content'[f][i].line = n
      BY <2>1 DEF NoneLost
    <3>1. PICK f \in Created :
          \E i \in 1 .. Len(content[f]) : content[f][i].line = n
      BY <2>1 DEF Disk, NoneLost
    <3>2. f # path
      BY <2>1, <3>1
    <3> QED
      BY <2>2, <3>1, <3>2
  <2> QED
    BY <2>3, <2>4 DEF Disk
<1> QED
  BY <1>3, <1>4, <1>5, <1>6, <1>7 DEF Rotation

-----------------------------------------------------------------------------
(* The reader while Nginx writes and its log is rotated *)

LEMMA ReaderIs ==
  ASSUME TypeOK
  PROVE  /\ chunk \in Seq(Char) /\ Len(chunk) \in Nat
         /\ line \in Seq(Char) /\ Len(line) \in Nat
         /\ offset \in Nat /\ Base \in Int /\ known \in Nat /\ cuts[file] \in Nat
         /\ file \in File /\ file \in Created /\ Len(handled) \in Nat
         /\ \A i \in 1 .. Len(handled) :
              handled[i].line \in Line /\ handled[i].line \in Nat
         /\ \A i \in 1 .. Len(chunk) :
              /\ chunk[i] \in Char /\ chunk[i].line \in Line /\ chunk[i].line \in Nat
              /\ chunk[i].rest \in Nat
<1>1. /\ chunk \in Seq(Char) /\ Len(chunk) \in Nat
      /\ line \in Seq(Char) /\ Len(line) \in Nat /\ offset \in Nat
      /\ Len(handled) \in Nat
  BY LenProperties DEF TypeOK
<1>2. Base \in Int
  BY <1>1 DEF Base
<1>3. known \in Nat /\ cuts[file] \in Nat /\ file \in File /\ file \in Created
  BY FileIs, FollowerAssumption DEF TypeOK
<1>4. \A i \in 1 .. Len(handled) : handled[i] \in [line : Line, text : Seq(Char) \cup {TooLong}]
  BY ElementOfSeq DEF TypeOK
<1>5. \A i \in 1 .. Len(handled) : handled[i].line \in Line /\ handled[i].line \in Nat
  BY <1>4, FollowerAssumption DEF Line
<1> QED
  BY <1>1, <1>2, <1>3, <1>5, CharIs

LEMMA ReaderInit == Init => Reader
<1> SUFFICES ASSUME Init PROVE Reader
  OBVIOUS
<1>1. Len(<<>>) = 0
  OBVIOUS
<1>2. PICK f \in File :
        /\ content = [g \in File |-> IF g = f THEN <<>> ELSE Missing]
        /\ path = f /\ writing = f /\ file = f
  BY DEF Init
<1>3. /\ content[file] = <<>> /\ Size = 0 /\ path = file
  BY <1>1, <1>2 DEF Size
<1>4. /\ chunk = <<>> /\ Len(chunk) = 0 /\ line = <<>> /\ overlong = FALSE
      /\ handled = <<>> /\ Len(handled) = 0 /\ offset = 0 /\ pc = "read"
      /\ known = cuts[file] /\ known = 0
  BY <1>1, <1>2 DEF Init
<1>5. ChunkRead /\ Elsewhere
  BY <1>3, <1>4 DEF ChunkRead, Elsewhere, FlowIn
<1>6. HandledBehind /\ WholeLines
  BY <1>3, <1>4 DEF HandledBehind, WholeLines, Behind
<1>7. Partial
  BY <1>3, <1>4 DEF Partial, Nothing
<1>8. Consumed
  BY <1>3, <1>4 DEF Consumed, Base
<1> QED
  BY <1>5, <1>6, <1>7, <1>8 DEF Reader

(* A write adds characters of a new line at the end of one file. *)
LEMMA GrownIs ==
  ASSUME TypeOK, Disk, NEW length \in LineLength, Write(length)
  PROVE  /\ Created' = Created
         /\ Len(lengths) \in Nat /\ Len(lengths') = Len(lengths) + 1
         /\ \A n \in 1 .. Len(lengths) : lengths'[n] = lengths[n]
         /\ \A f \in Created :
              /\ Len(content[f]) \in Nat /\ Len(content'[f]) \in Nat
              /\ Len(content[f]) <= Len(content'[f])
              /\ \A i \in 1 .. Len(content[f]) :
                   content'[f][i] = content[f][i] /\ content[f][i].line <= Len(lengths)
              /\ \A i \in Len(content[f]) + 1 .. Len(content'[f]) :
                   content'[f][i].line = Len(lengths) + 1
              /\ Len(content[f]) < Len(content'[f]) =>
                   content'[f][Len(content[f]) + 1].rest = lengths'[Len(lengths) + 1]
<1> DEFINE N == Len(lengths) + 1
<1>1. /\ Created' = Created
      /\ Len(lengths) \in Nat /\ Len(lengths') = N /\ N \in Nat
      /\ \A n \in 1 .. Len(lengths) : lengths'[n] = lengths[n]
      /\ lengths'[N] = length /\ length \in Nat
  BY WriteIs, LengthsAre, FollowerAssumption
<1>2. ASSUME NEW f \in Created
      PROVE  /\ Len(content[f]) \in Nat
             /\ \A i \in 1 .. Len(content[f]) : content[f][i].line <= Len(lengths)
    BY FileIs DEF Disk, FilesWhole, WholeIn, FlowIn
<1>3. ASSUME NEW f \in Created, f # writing
      PROVE  content'[f] = content[f]
  BY <1>3, WriteIs DEF Created
<1>4. /\ Len(content[writing]) \in Nat
      /\ Len(content'[writing]) = Len(content[writing]) + length + 1
      /\ \A i \in 1 .. Len(content[writing]) :
           content'[writing][i] = content[writing][i]
      /\ \A i \in Len(content[writing]) + 1 .. Len(content'[writing]) :
           content'[writing][i] =
             [line |-> N, rest |-> (Len(content[writing]) + length + 1) - i]
  BY WriteIs, FileIs DEF TypeOK
<1>5. \A i \in Len(content[writing]) + 1 .. Len(content'[writing]) :
        /\ content'[writing][i].line = N
        /\ content'[writing][i].rest = (Len(content[writing]) + length + 1) - i
  <2> SUFFICES ASSUME NEW i \in Len(content[writing]) + 1 .. Len(content'[writing])
               PROVE  /\ content'[writing][i].line = N
                      /\ content'[writing][i].rest =
                           (Len(content[writing]) + length + 1) - i
    OBVIOUS
  <2>1. content'[writing][i] =
          [line |-> N, rest |-> (Len(content[writing]) + length + 1) - i]
    BY <1>4
  <2> QED
    BY <2>1
<1>6. ASSUME NEW f \in Created, f = writing
      PROVE  /\ Len(content'[f]) \in Nat /\ Len(content[f]) <= Len(content'[f])
             /\ \A i \in 1 .. Len(content[f]) : content'[f][i] = content[f][i]
             /\ \A i \in Len(content[f]) + 1 .. Len(content'[f]) :
                  content'[f][i].line = N
             /\ Len(content[f]) < Len(content'[f]) =>
                  content'[f][Len(content[f]) + 1].rest = lengths'[N]
  <2> DEFINE k == Len(content[writing]) + 1
  <2>1. k \in Len(content[writing]) + 1 .. Len(content'[writing])
    BY <1>1, <1>4
  <2>2. content'[writing][k].rest = (Len(content[writing]) + length + 1) - k
    BY <1>5, <2>1
  <2>4. \A a, b \in Nat : (a + b + 1) - (a + 1) = b
    OBVIOUS
  <2>5. (Len(content[writing]) + length + 1) - k = length
    BY <1>1, <1>4, <2>4
  <2>3. content'[writing][k].rest = lengths'[N]
    BY <1>1, <2>2, <2>5, Zenon
  <2>6. Len(content'[writing]) \in Nat /\ Len(content[writing]) <= Len(content'[writing])
    BY <1>1, <1>4
  <2> QED
    BY <1>4, <1>5, <1>6, <2>3, <2>6
<1>7. ASSUME NEW f \in Created, f # writing
      PROVE  /\ Len(content'[f]) \in Nat /\ Len(content[f]) <= Len(content'[f])
             /\ \A i \in 1 .. Len(content[f]) : content'[f][i] = content[f][i]
             /\ \A i \in Len(content[f]) + 1 .. Len(content'[f]) :
                  content'[f][i].line = N
             /\ Len(content[f]) < Len(content'[f]) =>
                  content'[f][Len(content[f]) + 1].rest = lengths'[N]
  <2>1. content'[f] = content[f] /\ Len(content[f]) \in Nat
    BY <1>2, <1>3, <1>7
  <2> QED
    BY <2>1
<1> HIDE DEF N
<1>8. ASSUME NEW f \in Created
      PROVE  /\ Len(content[f]) \in Nat /\ Len(content'[f]) \in Nat
             /\ Len(content[f]) <= Len(content'[f])
             /\ \A i \in 1 .. Len(content[f]) :
                  content'[f][i] = content[f][i] /\ content[f][i].line <= Len(lengths)
             /\ \A i \in Len(content[f]) + 1 .. Len(content'[f]) :
                  content'[f][i].line = N
             /\ Len(content[f]) < Len(content'[f]) =>
                  content'[f][Len(content[f]) + 1].rest = lengths'[N]
  BY <1>2, <1>6, <1>7
<1> QED
  BY <1>1, <1>8 DEF N

(* A line that has begun keeps its length, so what fits still does. *)
LEMMA FitsKept ==
  ASSUME NEW char, NEW part, NEW over, NEW K, NEW L,
         L[char.line] = K[char.line], FitsIn(char, part, over, K)
  PROVE  FitsIn(char, part, over, L)
BY DEF FitsIn

LEMMA ReaderWrite ==
  ASSUME TypeOK, Disk, Reader, NEW length \in LineLength, Write(length)
  PROVE  Reader'
<1> DEFINE N == Len(lengths) + 1
           C == content[file]
           D == content'[file]
<1>1. UNCHANGED <<path, pc, file, offset, chunk, line, overlong, seen, handled, known,
                  overtaken, cuts>>
  BY DEF Write, reader
<1>2. /\ Created' = Created
      /\ Len(lengths) \in Nat /\ N \in Nat /\ Len(lengths') = N
      /\ \A n \in 1 .. Len(lengths) : lengths'[n] = lengths[n]
  BY GrownIs
<1>3. /\ Size \in Nat /\ Size' \in Nat /\ Size <= Size'
      /\ \A i \in 1 .. Size : D[i] = C[i] /\ C[i].line <= Len(lengths)
      /\ \A i \in Size + 1 .. Size' : D[i].line = N
      /\ Size < Size' => D[Size + 1].rest = lengths'[N]
  BY <1>1, GrownIs, ReaderIs DEF Size
<1>4. /\ chunk \in Seq(Char) /\ Len(chunk) \in Nat /\ offset \in Nat /\ Base \in Int
      /\ Len(handled) \in Nat
      /\ \A i \in 1 .. Len(handled) :
           handled[i].line \in Line /\ handled[i].line \in Nat
      /\ \A i \in 1 .. Len(chunk) : chunk[i].line \in Line /\ chunk[i].line \in Nat
  BY ReaderIs
<1>5. Base' = Base /\ Noticed' = Noticed
  BY <1>1 DEF Base, Noticed
<1>6. \A i \in 1 .. Len(chunk) : chunk[i].line \in Nat /\ chunk[i].line < N
  BY <1>2, <1>4 DEF Reader, ChunkRead, FlowIn
<1>7. \A i \in 1 .. Len(handled) :
        /\ handled[i].line \in 1 .. Len(lengths) /\ handled[i].line < N
        /\ handled[i].line <= Len(lengths')
  <2> SUFFICES ASSUME NEW i \in 1 .. Len(handled)
               PROVE  /\ handled[i].line \in 1 .. Len(lengths) /\ handled[i].line < N
                      /\ handled[i].line <= Len(lengths')
    OBVIOUS
  <2>1. handled[i].line \in Nat /\ handled[i].line >= 1
    BY <1>4, FollowerAssumption DEF Line
  <2>2. handled[i].line <= Len(lengths)
    BY DEF Reader, HandledBehind
  <2> QED
    BY <1>2, <2>1, <2>2
<1>8. path \in File =>
        /\ Len(content[path]) \in Nat /\ Len(content'[path]) \in Nat
        /\ \A j \in 1 .. Len(content'[path]) :
             \/ j \in 1 .. Len(content[path]) /\ content'[path][j] = content[path][j]
             \/ content'[path][j].line = N
  <2> SUFFICES ASSUME path \in File
               PROVE  /\ Len(content[path]) \in Nat /\ Len(content'[path]) \in Nat
                      /\ \A j \in 1 .. Len(content'[path]) :
                           \/ /\ j \in 1 .. Len(content[path])
                              /\ content'[path][j] = content[path][j]
                           \/ content'[path][j].line = N
    OBVIOUS
  <2>1. path \in Created
    BY FileIs
  <2>2. /\ Len(content[path]) \in Nat /\ Len(content'[path]) \in Nat
        /\ \A i \in 1 .. Len(content[path]) : content'[path][i] = content[path][i]
        /\ \A i \in Len(content[path]) + 1 .. Len(content'[path]) :
             content'[path][i].line = N
    BY <2>1, GrownIs
  <2> QED
    BY <2>2
<1>9. \A j \in 1 .. Size' : j \in 1 .. Size \/ j \in Size + 1 .. Size'
  BY <1>3
<1> HIDE DEF N
<1>10. ChunkRead'
  <2>1. FlowIn(chunk, lengths')
    <3>1. lengths \in Seq(Nat) /\ lengths' \in Seq(Nat) /\ Len(lengths) <= Len(lengths')
      <4>1. Len(lengths) <= Len(lengths')
        BY <1>2 DEF N
      <4> QED
        BY <4>1, LengthsAre, WriteIs, SeqMonotonic, FollowerAssumption
    <3> QED
      BY <1>2, <1>4, <3>1, FlowKept DEF Reader, ChunkRead
  <2>2. Noticed => offset <= Size'
    BY <1>3, <1>4 DEF Reader, ChunkRead
  <2>3. ASSUME Noticed, NEW i \in 1 .. Len(chunk)
        PROVE  chunk[i] = D[Base + i]
    <3>1. chunk[i] = C[Base + i] /\ Base + i \in 1 .. Size
      BY <1>3, <1>4, <2>3 DEF Reader, ChunkRead, Base
    <3> QED
      BY <1>3, <3>1
  <2>4. ASSUME ~Noticed, NEW i \in 1 .. Len(chunk), NEW j \in 1 .. Size'
        PROVE  chunk[i].line < D[j].line
    BY <1>3, <1>6, <1>9, <2>4 DEF Reader, ChunkRead
  <2> QED
    BY <1>1, <1>5, <2>1, <2>2, <2>3, <2>4 DEF Reader, ChunkRead
<1>11. Elsewhere'
  <2>1. ASSUME path \in File, path # file,
               NEW i \in 1 .. Len(chunk), NEW j \in 1 .. Len(content'[path])
        PROVE  chunk[i].line < content'[path][j].line
    BY <1>6, <1>8, <2>1 DEF Reader, Elsewhere
  <2> QED
    BY <1>1, <1>2, <2>1 DEF Reader, Elsewhere
<1>12. HandledBehind'
  <2>1. ASSUME NEW i \in 1 .. Size', ~Noticed \/ i > Base, NEW k \in 1 .. Len(handled)
        PROVE  handled[k].line < D[i].line
    BY <1>3, <1>7, <1>9, <2>1 DEF Reader, HandledBehind, Behind
  <2>2. ASSUME path \in File, path # file,
               NEW i \in 1 .. Len(content'[path]), NEW k \in 1 .. Len(handled)
        PROVE  handled[k].line < content'[path][i].line
    BY <1>7, <1>8, <2>2 DEF Reader, HandledBehind, Behind
  <2> QED
    BY <1>1, <1>5, <1>7, <2>1, <2>2 DEF Reader, HandledBehind, Behind
<1>13. Partial'
  <2>1. ASSUME ~overtaken, chunk # <<>>
        PROVE  FitsIn(chunk[1], line, overlong, lengths')
    <3>1. 1 \in 1 .. Len(chunk)
      BY <1>4, <2>1, EmptySeq
    <3>2. chunk[1].line \in Nat /\ chunk[1].line >= 1 /\ chunk[1].line <= Len(lengths)
      BY <1>4, <3>1, FollowerAssumption DEF Line, Reader, ChunkRead, FlowIn
    <3>3. lengths'[chunk[1].line] = lengths[chunk[1].line]
      BY <1>2, <3>2
    <3>4. FitsIn(chunk[1], line, overlong, lengths)
      BY <2>1 DEF Reader, Partial
    <3> QED
      BY <3>3, <3>4, FitsKept
  <2>2. ASSUME ~overtaken, chunk = <<>>, Noticed, offset < Size'
        PROVE  FitsIn(D[offset + 1], line, overlong, lengths')
    <3>1. CASE offset < Size
      <4>1. offset + 1 \in 1 .. Size /\ C \in Seq(Char)
        BY <1>3, <1>4, <3>1, FileIs
      <4>2. C[offset + 1].line \in Nat /\ C[offset + 1].line >= 1
        BY <4>1, CharIs, FollowerAssumption DEF Line, Size
      <4>3. D[offset + 1] = C[offset + 1] /\ C[offset + 1].line <= Len(lengths)
        BY <1>3, <4>1
      <4>4. lengths'[C[offset + 1].line] = lengths[C[offset + 1].line]
        BY <1>2, <4>2, <4>3
      <4>5. FitsIn(C[offset + 1], line, overlong, lengths)
        BY <2>2, <3>1 DEF Reader, Partial
      <4> QED
        BY <4>3, <4>4, <4>5, FitsKept
    <3>2. CASE offset = Size
      <4>1. line = <<>> /\ ~overlong
        BY <2>2, <3>2 DEF Reader, Partial, Nothing
      <4>2. D[offset + 1].rest = lengths'[N] /\ D[offset + 1].line = N
        BY <1>3, <2>2, <3>2
      <4>3. lengths'[N] \in Nat
        BY WriteIs, FollowerAssumption DEF N
      <4> QED
        BY <4>1, <4>2, <4>3 DEF FitsIn
    <3> QED
      BY <1>3, <1>4, <2>2, <3>1, <3>2 DEF Reader, ChunkRead
  <2>3. ASSUME ~overtaken, chunk = <<>>, Noticed, offset = Size'
        PROVE  Nothing
    <3>1. offset = Size
      BY <1>3, <1>4, <2>3 DEF Reader, ChunkRead
    <3> QED
      BY <2>3, <3>1 DEF Reader, Partial
  <2> QED
    BY <1>1, <1>5, <2>1, <2>2, <2>3 DEF Reader, Partial, Nothing
<1>14. WholeLines'
  <2>1. ASSUME ~overtaken, NEW i \in 1 .. Len(handled)
        PROVE  LET n == handled[i].line IN
                 handled[i].text = IF lengths'[n] > MaxLine THEN TooLong ELSE Text(n)'
    <3> DEFINE n == handled[i].line
    <3>1. lengths'[n] = lengths[n]
      BY <1>2, <1>7
    <3>2. Text(n)' = Text(n)
      BY <1>1, <3>1 DEF Text
    <3>3. handled[i].text = IF lengths[n] > MaxLine THEN TooLong ELSE Text(n)
      BY <2>1 DEF Reader, WholeLines
    <3> QED
      BY <3>1, <3>2, <3>3
  <2> QED
    BY <1>1, <2>1 DEF WholeLines
<1>15. Consumed'
  <2>1. ASSUME ~overtaken, Noticed, NEW i \in 1 .. Base, D[i].rest = 0
        PROVE  D[i].line \in Handled
    <3>1. i \in 1 .. Size
      BY <1>3, <1>4, <2>1 DEF Reader, ChunkRead, Base
    <3> QED
      BY <1>3, <2>1, <3>1 DEF Reader, Consumed
  <2>2. Handled' = Handled
    BY <1>1 DEF Handled
  <2> QED
    BY <1>1, <1>5, <2>1, <2>2 DEF Consumed
<1> QED
  BY <1>10, <1>11, <1>12, <1>13, <1>14, <1>15 DEF Reader

LEMMA ReaderRotation ==
  ASSUME TypeOK, Disk, Reader, Rotation
  PROVE  Reader'
<1>1. UNCHANGED <<pc, file, offset, chunk, line, overlong, seen, handled, known,
                  overtaken, lengths>>
  BY DEF Rotation, Rename, Create, Obstruct, Reopen, Truncate, reader
<1>2. /\ Len(chunk) \in Nat /\ offset \in Nat /\ Base \in Int
      /\ known \in Nat /\ cuts[file] \in Nat /\ file \in File /\ file \in Created
      /\ Size \in Nat
  BY ReaderIs, FileIs
<1>3. Base' = Base /\ Handled' = Handled
  BY <1>1 DEF Base, Handled
<1>4. WholeLines'
  <2>1. \A n : Text(n)' = Text(n)
    BY <1>1 DEF Text
  <2> QED
    BY <1>1, <2>1 DEF Reader, WholeLines
<1>5. CASE Rename \/ Obstruct \/ Reopen
  <2>1. /\ UNCHANGED <<content, cuts>> /\ Created' = Created
        /\ path' = path \/ path' \notin File
    BY <1>5, FollowerAssumption DEF Rename, Obstruct, Reopen, Created
  <2>2. Size' = Size /\ Noticed' = Noticed
    BY <1>1, <2>1 DEF Size, Noticed
  <2>3. path' # file => path' = path \/ path' \notin File
    BY <2>1
  <2>4. path # file => path' # file
    BY <1>2, <2>1
  <2>5. ChunkRead'
    BY <1>1, <1>3, <2>1, <2>2 DEF Reader, ChunkRead
  <2>6. Elsewhere'
    BY <1>1, <2>1, <2>4 DEF Reader, Elsewhere
  <2>7. HandledBehind'
    BY <1>1, <1>3, <2>1, <2>2 DEF Reader, HandledBehind, Behind
  <2>8. Partial'
    BY <1>1, <2>1, <2>2 DEF Reader, Partial, Nothing
  <2>9. Consumed'
    BY <1>1, <1>3, <2>1, <2>2 DEF Reader, Consumed
  <2> QED
    BY <1>4, <2>5, <2>6, <2>7, <2>8, <2>9 DEF Reader
<1>6. CASE Create
  <2>1. /\ path' \in File \ Created /\ Created' = Created \cup {path'}
        /\ content'[path'] = <<>> /\ content'[file] = content[file]
        /\ UNCHANGED cuts
    BY <1>2, <1>6, CreateIs DEF Create
  <2>2. Size' = Size /\ Noticed' = Noticed /\ path' # file
    BY <1>1, <1>2, <2>1 DEF Size, Noticed
  <2>3. Len(content'[path']) = 0
    BY <2>1
  <2>5. ChunkRead'
    BY <1>1, <1>3, <2>1, <2>2 DEF Reader, ChunkRead
  <2>6. Elsewhere'
    BY <1>1, <2>1, <2>2, <2>3 DEF Reader, Elsewhere
  <2>7. HandledBehind'
    BY <1>1, <1>3, <2>1, <2>2, <2>3 DEF Reader, HandledBehind, Behind
  <2>8. Partial'
    BY <1>1, <2>1, <2>2 DEF Reader, Partial, Nothing
  <2>9. Consumed'
    BY <1>1, <1>3, <2>1, <2>2 DEF Reader, Consumed
  <2> QED
    BY <1>4, <2>5, <2>6, <2>7, <2>8, <2>9 DEF Reader
<1>7. CASE Truncate /\ path # file
  <2>1. /\ path \in File /\ path' = path /\ Created' = Created
        /\ content'[path] = <<>> /\ content'[file] = content[file]
        /\ cuts'[file] = cuts[file]
    BY <1>2, <1>7, TruncateIs DEF Truncate
  <2>2. Size' = Size /\ Noticed' = Noticed
    BY <1>1, <2>1 DEF Size, Noticed
  <2>3. Len(content'[path]) = 0
    BY <2>1
  <2>5. ChunkRead'
    BY <1>1, <1>3, <2>1, <2>2 DEF Reader, ChunkRead
  <2>6. Elsewhere'
    BY <1>1, <1>7, <2>1, <2>3 DEF Reader, Elsewhere
  <2>7. HandledBehind'
    BY <1>1, <1>3, <2>1, <2>2, <2>3 DEF Reader, HandledBehind, Behind
  <2>8. Partial'
    BY <1>1, <2>1, <2>2 DEF Reader, Partial, Nothing
  <2>9. Consumed'
    BY <1>1, <1>3, <2>1, <2>2 DEF Reader, Consumed
  <2> QED
    BY <1>4, <2>5, <2>6, <2>7, <2>8, <2>9 DEF Reader
<1>8. CASE Truncate /\ path = file
  <2>1. /\ path' = path /\ Created' = Created
        /\ content'[file] = <<>> /\ cuts'[file] = cuts[file] + 1
    BY <1>2, <1>8, TruncateIs DEF Truncate
  <2>2. Size' = 0
    BY <1>1, <2>1 DEF Size
  <2>3. known <= cuts'[file] /\ ~Noticed'
    BY <1>1, <1>2, <2>1 DEF Reader, ChunkRead, Noticed
  <2>5. ChunkRead'
    BY <1>1, <1>3, <2>2, <2>3 DEF Reader, ChunkRead
  <2>6. Elsewhere'
    BY <1>1, <1>8, <2>1 DEF Reader, Elsewhere
  <2>7. HandledBehind'
    BY <1>1, <1>8, <2>1, <2>2 DEF Reader, HandledBehind, Behind
  <2>8. Partial'
    BY <1>1, <2>3 DEF Reader, Partial, Nothing
  <2>9. Consumed'
    BY <2>3 DEF Consumed
  <2> QED
    BY <1>4, <2>5, <2>6, <2>7, <2>8, <2>9 DEF Reader
<1> QED
  BY <1>5, <1>6, <1>7, <1>8 DEF Rotation

-----------------------------------------------------------------------------
(* The reader while it follows *)

(* What the disk invariant says of the file that is open. *)
LEMMA OpenFileIs ==
  ASSUME TypeOK, Disk
  PROVE  /\ content[file] \in Seq(Char) /\ Size \in Nat /\ Size = Len(content[file])
         /\ WholeIn(content[file], lengths)
         /\ \A i \in 1 .. Size :
              /\ content[file][i] \in Char /\ content[file][i].line \in Nat
              /\ content[file][i].rest \in Nat
              /\ content[file][i].line \in 1 .. Len(lengths)
              /\ lengths[content[file][i].line] \in Nat
<1>1. /\ content[file] \in Seq(Char) /\ Size \in Nat /\ Size = Len(content[file])
      /\ file \in Created /\ WholeIn(content[file], lengths)
  BY FileIs DEF Size, TypeOK, Disk, FilesWhole
<1>2. ASSUME NEW i \in 1 .. Size
      PROVE  /\ content[file][i] \in Char /\ content[file][i].line \in Nat
             /\ content[file][i].rest \in Nat
             /\ content[file][i].line \in 1 .. Len(lengths)
             /\ lengths[content[file][i].line] \in Nat
  <2>1. /\ content[file][i] \in Char /\ content[file][i].line \in Nat
        /\ content[file][i].line >= 1 /\ content[file][i].rest \in Nat
    BY <1>1, CharIs, FollowerAssumption DEF Line
  <2>2. content[file][i].line <= Len(lengths)
    BY <1>1 DEF WholeIn, FlowIn
  <2>3. content[file][i].line \in 1 .. Len(lengths)
    BY <2>1, <2>2, LengthsAre
  <2> QED
    BY <2>1, <2>3, LengthsAre
<1> QED
  BY <1>1, <1>2

LEMMA ReaderRead ==
  ASSUME TypeOK, Disk, Reader, Read
  PROVE  Reader'
<1> DEFINE C == content[file]
<1>1. PICK n \in 1 .. ReadSize :
        /\ offset + n <= Size
        /\ offset' = offset + n
        /\ chunk' \in Seq(Char) /\ Len(chunk') = n
        /\ \A i \in 1 .. n : chunk'[i] = C[offset + i]
  BY ReadIs
<1>2. /\ UNCHANGED <<content, path, writing, lengths, cut, cuts, pc, file, line, overlong,
                     seen, handled>>
      /\ chunk = <<>> /\ pc = "read"
      /\ overtaken' = (overtaken \/ Unnoticed) /\ known' = cuts[file]
  BY DEF Read, disk
<1>3. /\ Len(chunk) = 0 /\ Base = offset
  BY <1>2, ReaderIs DEF Base
<1>4. /\ n \in Nat /\ n >= 1 /\ offset \in Nat /\ Size \in Nat /\ Size = Len(C)
      /\ cuts[file] \in Nat /\ WholeIn(C, lengths) /\ FlowIn(C, lengths)
  BY ReaderIs, OpenFileIs, FollowerAssumption DEF WholeIn
<1>5. Base' = offset /\ Noticed' /\ Size' = Size
  BY <1>1, <1>2, <1>4 DEF Base, Noticed, Size
<1>6. \A i \in 1 .. n : offset + i \in 1 .. Size /\ offset + i > Base
  BY <1>1, <1>3, <1>4, SMTT(30)
<1>7. \A i \in 1 .. Size : i > offset =>
        \A k \in 1 .. Len(handled) : handled[k].line < C[i].line
  BY <1>3 DEF Reader, HandledBehind, Behind
<1>8. \A f : Created' = Created
  BY <1>2 DEF Created
<1>9. ChunkRead'
  <2>1. FlowIn(chunk', lengths)
    <3>1. C \in Seq(Char) /\ offset + Len(chunk') <= Len(C)
      BY <1>1, <1>4, OpenFileIs
    <3> QED
      BY <1>1, <1>4, <3>1, FlowOfPart, SMTT(30)
  <2>2. \A i \in 1 .. Len(chunk') : chunk'[i] = C[Base' + i]
    BY <1>1, <1>5
  <2>3. known' <= cuts'[file'] /\ Len(chunk') <= offset' /\ offset' <= Size'
    BY <1>1, <1>2, <1>4, <1>5
  <2> QED
    BY <1>2, <1>5, <2>1, <2>2, <2>3 DEF ChunkRead
<1>10. Elsewhere'
  <2>1. ASSUME path \in File, path # file,
               NEW i \in 1 .. Len(chunk'), NEW j \in 1 .. Len(content[path])
        PROVE  chunk'[i].line < content[path][j].line
    <3>1. path = writing
      <4>1. CASE content[path] = <<>>
        <5>1. Len(content[path]) = 0
          BY <4>1
        <5> QED
          BY <2>1, <5>1
      <4> QED
        BY <2>1, <4>1 DEF Disk, Newest
    <3>2. file \in Created \ {writing}
      BY <2>1, <3>1, ReaderIs
    <3>3. i \in 1 .. n /\ chunk'[i] = C[offset + i] /\ offset + i \in 1 .. Len(C)
      BY <1>1, <1>4, <1>6
    <3> QED
      BY <2>1, <3>1, <3>2, <3>3 DEF Disk, Newest
  <2> QED
    BY <1>2, <2>1 DEF Elsewhere
<1>11. HandledBehind'
  <2>1. ASSUME NEW i \in 1 .. Len(chunk'), NEW k \in 1 .. Len(handled)
        PROVE  handled[k].line < chunk'[i].line
    <3>1. i \in 1 .. n /\ chunk'[i] = C[offset + i] /\ offset + i \in 1 .. Size
          /\ offset + i > offset
      BY <1>1, <1>4, <1>6, SMTT(30)
    <3> QED
      BY <1>7, <3>1
  <2>2. ASSUME NEW i \in 1 .. Size, i > Base', NEW k \in 1 .. Len(handled)
        PROVE  handled[k].line < C[i].line
    BY <1>5, <1>7, <2>2
  <2>3. /\ \A i \in 1 .. Len(handled) : handled[i].line <= Len(lengths)
        /\ path \in File /\ path # file =>
             \A i \in 1 .. Len(content[path]) :
               \A k \in 1 .. Len(handled) : handled[k].line < content[path][i].line
        /\ \A i, j \in 1 .. Len(handled) : i < j => handled[i].line < handled[j].line
    BY DEF Reader, HandledBehind, Behind
  <2> QED
    BY <1>2, <1>5, <2>1, <2>2, <2>3 DEF HandledBehind, Behind
<1>12. Partial'
  <2>1. ASSUME ~overtaken' PROVE FitsIn(chunk'[1], line, overlong, lengths)
    <3>1. ~overtaken /\ (Noticed \/ offset = 0)
      <4>1. ~overtaken /\ ~Unnoticed
        BY <1>2, <2>1, Zenon
      <4> QED
        BY <1>4, <4>1 DEF Unnoticed, Noticed
    <3>2. chunk'[1] = C[offset + 1] /\ offset < Size
      BY <1>1, <1>4
    <3>3. CASE Noticed
      BY <1>2, <3>1, <3>2, <3>3 DEF Reader, Partial
    <3>4. CASE offset = 0
      <4>1. line = <<>> /\ ~overlong
        BY <3>4 DEF Reader, Partial, Nothing
      <4>2. C # <<>> /\ 1 \in 1 .. Size
        BY <1>4, <3>2, <3>4, EmptySeq
      <4>3. C[1].rest = lengths[C[1].line] /\ C[1].rest \in Nat
        BY <1>4, <4>2, OpenFileIs DEF WholeIn
      <4> QED
        BY <3>2, <3>4, <4>1, <4>3 DEF FitsIn
    <3> QED
      BY <3>1, <3>3, <3>4
  <2>2. chunk' # <<>> /\ offset' # 0
    BY <1>1, <1>4, EmptySeq
  <2> QED
    BY <1>2, <2>1, <2>2 DEF Partial
<1>13. WholeLines'
  <2>1. \A m : Text(m)' = Text(m)
    BY <1>2 DEF Text
  <2> QED
    BY <1>2, <2>1 DEF Reader, WholeLines
<1>14. Consumed'
  <2>1. ASSUME ~overtaken', NEW i \in 1 .. offset, C[i].rest = 0
        PROVE  C[i].line \in Handled
    <3>1. ~overtaken /\ Noticed
      <4>1. ~overtaken /\ ~Unnoticed
        BY <1>2, <2>1, Zenon
      <4>2. offset > 0
        BY <1>4
      <4> QED
        BY <4>1, <4>2 DEF Unnoticed, Noticed
    <3> QED
      BY <1>3, <2>1, <3>1 DEF Reader, Consumed
  <2>2. Handled' = Handled
    BY <1>2 DEF Handled
  <2> QED
    BY <1>2, <1>5, <2>1, <2>2 DEF Consumed
<1> QED
  BY <1>9, <1>10, <1>11, <1>12, <1>13, <1>14 DEF Reader

(* Up to the first line feed all is of one line. *)
LEMMA OneLine ==
  ASSUME NEW s \in Seq(Char), NEW L, FlowIn(s, L), NEW i \in 1 .. Len(s),
         \A j \in 1 .. i - 1 : s[j].rest # 0
  PROVE  \A j \in 1 .. i : s[j].line = s[1].line /\ s[j].rest = s[1].rest - (j - 1)
<1>1. /\ Len(s) \in Nat /\ 1 \in 1 .. Len(s) /\ s[1].rest \in Nat
  BY LenProperties, CharIs
<1> DEFINE r == s[1].rest
<1>2. ASSUME NEW j \in 2 .. Len(s), j <= 1 + r
      PROVE  s[j].line = s[1].line /\ s[j].rest = r - (j - 1)
  <2>1. j \in 1 .. Len(s) /\ 1 < j
    BY <1>1
  <2> QED
    BY <1>1, <1>2, <2>1 DEF FlowIn
<1>3. i <= 1 + r
  <2> SUFFICES ASSUME 1 + r < i PROVE FALSE
    BY <1>1
  <2>1. 1 + r \in 1 .. i - 1
    BY <1>1
  <2>2. s[1 + r].rest = 0
    <3>1. CASE r = 0
      BY <3>1
    <3>2. CASE r # 0
      <4>1. 1 + r \in 2 .. Len(s) /\ r - ((1 + r) - 1) = 0
        BY <1>1, <3>2
      <4>2. s[1 + r].rest = r - ((1 + r) - 1)
        BY <1>2, <4>1
      <4> QED
        BY <4>1, <4>2
    <3> QED
      BY <3>1, <3>2
  <2> QED
    BY <2>1, <2>2
<1> SUFFICES ASSUME NEW j \in 1 .. i
             PROVE  s[j].line = s[1].line /\ s[j].rest = s[1].rest - (j - 1)
  OBVIOUS
<1>4. CASE j = 1
  BY <1>1, <1>4
<1>5. CASE j # 1
  <2>1. j \in 2 .. Len(s) /\ j <= 1 + r
    BY <1>1, <1>3, <1>5
  <2> QED
    BY <1>2, <2>1
<1> QED
  BY <1>4, <1>5

(* What is made of the line in the making and a segment of the same line. *)
LEMMA FitsOn ==
  ASSUME TypeOK, NEW first \in Char, NEW next \in Char, NEW segment \in Seq(Char),
         FitsIn(first, line, overlong, lengths), lengths[first.line] \in Nat,
         next.line = first.line, first.rest = next.rest + Len(segment),
         \A j \in 1 .. Len(segment) :
           segment[j].line = first.line /\ segment[j].rest = first.rest - (j - 1)
  PROVE  FitsIn(next, Appended(segment), StillOverlong(segment), lengths)
<1> DEFINE L == lengths[first.line]
           A == Appended(segment)
<1>1. /\ line \in Seq(Char) /\ Len(line) \in Nat /\ Len(segment) \in Nat /\ MaxLine \in Nat
      /\ first.rest \in Nat /\ next.rest \in Nat
  BY LenProperties, FollowerAssumption DEF TypeOK, Char
<1>2. CASE overlong
  BY <1>2 DEF FitsIn, StillOverlong, Appended
<1>3. CASE ~overlong /\ Len(line) + Len(segment) > MaxLine + 1
  <2>1. Len(line) + first.rest = L
    BY <1>3 DEF FitsIn
  <2>2. L > MaxLine
    BY <1>1, <1>3, <2>1, SMTT(30)
  <2> QED
    BY <1>3, <2>2 DEF FitsIn, StillOverlong, Appended
<1>4. CASE ~overlong /\ ~(Len(line) + Len(segment) > MaxLine + 1)
  <2>1. /\ Len(line) + first.rest = L
        /\ \A i \in 1 .. Len(line) : line[i] = [line |-> first.line, rest |-> L + 1 - i]
    BY <1>4 DEF FitsIn
  <2>2. ~StillOverlong(segment)
    BY <1>4 DEF StillOverlong
  <2>3. /\ Len(A) = Len(line) + Len(segment)
        /\ \A i \in 1 .. Len(line) : A[i] = line[i]
        /\ \A i \in 1 .. Len(segment) : A[Len(line) + i] = segment[i]
    BY <2>2, AppendedIs
  <2> HIDE DEF A
  <2>4. Len(A) + next.rest = L
    BY <1>1, <2>1, <2>3
  <2>5. ASSUME NEW i \in 1 .. Len(A)
        PROVE  A[i] = [line |-> first.line, rest |-> L + 1 - i]
    <3>1. CASE i \in 1 .. Len(line)
      BY <2>1, <2>3, <3>1
    <3>2. CASE i \notin 1 .. Len(line)
      <4> DEFINE j == i - Len(line)
      <4>1. j \in 1 .. Len(segment) /\ Len(line) + j = i
        BY <1>1, <2>3, <3>2
      <4>2. A[i] = segment[j] /\ segment[j] \in Char
        BY <2>3, <4>1, ElementOfSeq
      <4>3. segment[j].line = first.line /\ segment[j].rest = first.rest - (j - 1)
        BY <4>1
      <4>4. first.rest - (j - 1) = L + 1 - i
        BY <1>1, <2>1, <4>1, SMTT(30)
      <4>5. segment[j] = [line |-> segment[j].line, rest |-> segment[j].rest]
        BY <4>2 DEF Char
      <4> HIDE DEF j
      <4> QED
        BY <4>2, <4>3, <4>4, <4>5
    <3> QED
      BY <3>1, <3>2
  <2> QED
    BY <2>2, <2>4, <2>5 DEF FitsIn, A
<1> QED
  BY <1>2, <1>3, <1>4

(* The chunk as part of the file, and its first line. *)
LEMMA ChunkIs ==
  ASSUME TypeOK, Disk, Reader, chunk # <<>>
  PROVE  /\ 1 \in 1 .. Len(chunk) /\ Len(chunk) >= 1 /\ offset >= 1
         /\ \A i \in 1 .. Len(chunk) :
              chunk[i].line \in 1 .. Len(lengths) /\ lengths[chunk[i].line] \in Nat
         /\ FlowIn(chunk, lengths)
         /\ Noticed =>
              \A i \in 1 .. Len(chunk) :
                Base + i \in 1 .. Size /\ chunk[i] = content[file][Base + i]
<1>1. /\ chunk \in Seq(Char) /\ Len(chunk) \in Nat /\ offset \in Nat
      /\ Size \in Nat /\ Len(lengths) \in Nat
  BY ReaderIs, OpenFileIs, LengthsAre
<1>2. Len(chunk) >= 1 /\ 1 \in 1 .. Len(chunk)
  BY <1>1, EmptySeq
<1>3. /\ FlowIn(chunk, lengths) /\ Len(chunk) <= offset
      /\ Noticed =>
           /\ offset <= Size
           /\ \A i \in 1 .. Len(chunk) : chunk[i] = content[file][Base + i]
  BY DEF Reader, ChunkRead
<1>4. \A i \in 1 .. Len(chunk) : chunk[i].line \in 1 .. Len(lengths)
  BY <1>1, <1>3, ReaderIs, FollowerAssumption, SMTT(30) DEF FlowIn, Line
<1>5. Noticed => \A i \in 1 .. Len(chunk) : Base + i \in 1 .. Size
  BY <1>1, <1>3 DEF Base
<1> QED
  BY <1>1, <1>2, <1>3, <1>4, <1>5, LengthsAre

LEMMA ReaderRest ==
  ASSUME TypeOK, Disk, Reader, ConsumeRest
  PROVE  Reader'
<1> DEFINE C == content[file]
           l == Len(chunk)
<1>1. /\ UNCHANGED <<content, path, writing, lengths, cut, cuts, pc, file, offset, seen,
                     handled, known, overtaken>>
      /\ chunk # <<>> /\ pc = "read" /\ Feeds = {} /\ chunk' = <<>>
      /\ line' = Appended(chunk) /\ overlong' = StillOverlong(chunk)
  BY DEF ConsumeRest, disk
<1>2. /\ chunk \in Seq(Char) /\ l \in Nat /\ offset \in Nat
      /\ l >= 1 /\ 1 \in 1 .. l /\ l \in 1 .. l /\ FlowIn(chunk, lengths) /\ offset >= 1
      /\ \A i \in 1 .. l : chunk[i] \in Char /\ chunk[i].rest \in Nat
      /\ lengths[chunk[1].line] \in Nat
      /\ Noticed => \A i \in 1 .. l : Base + i \in 1 .. Size /\ chunk[i] = C[Base + i]
  BY <1>1, ReaderIs, ChunkIs
<1>3. Len(<<>>) = 0
  OBVIOUS
<1>4. Base' = offset /\ Size' = Size /\ Noticed' = Noticed /\ Created' = Created
  BY <1>1, <1>2, <1>3 DEF Base, Size, Noticed, Created
<1>5. \A j \in 1 .. l : chunk[j].rest # 0
  BY <1>1 DEF Feeds
<1>6. \A j \in 1 .. l :
        chunk[j].line = chunk[1].line /\ chunk[j].rest = chunk[1].rest - (j - 1)
  <2>1. \A j \in 1 .. l - 1 : chunk[j].rest # 0
    BY <1>2, <1>5
  <2> QED
    BY <1>2, <2>1, OneLine
<1>7. chunk[1].rest >= l
  <2>1. chunk[l].rest = chunk[1].rest - (l - 1) /\ chunk[l].rest \in Nat /\ chunk[l].rest # 0
    BY <1>2, <1>5, <1>6
  <2> QED
    BY <1>2, <2>1
<1> HIDE DEF l
<1>8. ChunkRead'
  <2>1. FlowIn(<<>>, lengths)
    BY <1>3 DEF FlowIn
  <2> QED
    BY <1>1, <1>2, <1>3, <1>4, <2>1 DEF Reader, ChunkRead
<1>9. Elsewhere'
  BY <1>1, <1>3, <1>4 DEF Reader, Elsewhere
<1>10. HandledBehind'
  <2>1. \A i \in 1 .. Size : i > offset => i > Base
    BY <1>2, OpenFileIs DEF Base, l
  <2> QED
    BY <1>1, <1>3, <1>4, <2>1 DEF Reader, HandledBehind, Behind
<1>11. Partial'
  <2>1. ASSUME ~overtaken, Noticed, offset < Size
        PROVE  FitsIn(C[offset + 1], line', overlong', lengths)
    <3> DEFINE p == Base + 1
               q == offset + 1
    <3>1. /\ p \in 1 .. Size /\ q \in 1 .. Size /\ p < q /\ q - p = l /\ C[p] = chunk[1]
          /\ FlowIn(C, lengths) /\ Size = Len(C)
      BY <1>2, <2>1, OpenFileIs, SMTT(30) DEF Base, l, WholeIn
    <3>2. q <= p + C[p].rest
      BY <1>2, <1>7, <3>1 DEF Base
    <3>3. C[q].line = chunk[1].line /\ C[q].rest = chunk[1].rest - l /\ C[q] \in Char
          /\ C[q].rest \in Nat
      <4>1. C[q].line = C[p].line /\ C[q].rest = C[p].rest - (q - p)
        BY <3>1, <3>2 DEF FlowIn
      <4> QED
        BY <3>1, <4>1, OpenFileIs
    <3>4. FitsIn(chunk[1], line, overlong, lengths)
      BY <1>1, <2>1 DEF Reader, Partial
    <3>5. chunk[1].rest = C[q].rest + l /\ chunk[1] \in Char
      BY <1>2, <3>3
    <3> HIDE DEF q
    <3>6. FitsIn(C[q], Appended(chunk), StillOverlong(chunk), lengths)
      BY <1>2, <1>6, <3>3, <3>4, <3>5, FitsOn DEF l
    <3> QED
      BY <1>1, <3>6 DEF q
  <2>2. ASSUME Noticed, offset = Size PROVE FALSE
    <3> DEFINE p == Base + 1
    <3>1. p \in 1 .. Size /\ C[p] = chunk[1] /\ p = offset - l + 1
      BY <1>2, <2>2 DEF Base, l
    <3>2. p + C[p].rest <= Size
      BY <3>1, OpenFileIs DEF WholeIn
    <3> QED
      BY <1>2, <1>7, <2>2, <3>1, <3>2
  <2> QED
    BY <1>1, <1>2, <1>4, <2>1, <2>2 DEF Partial
<1>12. WholeLines'
  <2>1. \A m : Text(m)' = Text(m)
    BY <1>1 DEF Text
  <2> QED
    BY <1>1, <2>1 DEF Reader, WholeLines
<1>13. Consumed'
  <2>1. ASSUME ~overtaken, Noticed, NEW i \in 1 .. offset, C[i].rest = 0
        PROVE  C[i].line \in Handled
    <3>1. CASE i \in 1 .. Base
      BY <2>1, <3>1 DEF Reader, Consumed
    <3>2. CASE i \notin 1 .. Base
      <4> DEFINE j == i - Base
      <4>1. j \in 1 .. l /\ Base + j = i
        BY <1>2, <3>2 DEF Base, l
      <4>2. chunk[j] = C[i] /\ chunk[j].rest # 0
        BY <1>2, <1>5, <2>1, <4>1
      <4> QED
        BY <2>1, <4>2
    <3> QED
      BY <3>1, <3>2
  <2>2. Handled' = Handled
    BY <1>1 DEF Handled
  <2> QED
    BY <1>1, <1>4, <2>1, <2>2 DEF Consumed
<1> QED
  BY <1>8, <1>9, <1>10, <1>11, <1>12, <1>13 DEF Reader

(* A complete line is handed on as it was written, or as too long. *)
LEMMA LineIsWhole ==
  ASSUME TypeOK, Disk, Reader, ~overtaken, NEW i \in 1 .. Len(chunk), chunk[i].rest = 0,
         \A j \in 1 .. i - 1 : chunk[j].rest # 0,
         NEW segment \in Seq(Char), Len(segment) = i - 1,
         \A j \in 1 .. i - 1 : segment[j] = chunk[j]
  PROVE  (IF StillOverlong(segment) \/ Len(Appended(segment)) > MaxLine
          THEN TooLong ELSE Appended(segment))
           = (IF lengths[chunk[i].line] > MaxLine THEN TooLong ELSE Text(chunk[i].line))
<1> DEFINE n == chunk[i].line
           L == lengths[n]
           A == Appended(segment)
<1>1. chunk \in Seq(Char) /\ Len(chunk) \in Nat /\ chunk # <<>>
  BY ReaderIs, EmptySeq
<1>2. /\ 1 \in 1 .. Len(chunk) /\ FlowIn(chunk, lengths)
      /\ \A j \in 1 .. Len(chunk) : lengths[chunk[j].line] \in Nat
      /\ \A j \in 1 .. Len(chunk) : chunk[j] \in Char /\ chunk[j].rest \in Nat
  BY <1>1, ChunkIs, ReaderIs
<1>3. \A j \in 1 .. i :
        chunk[j].line = chunk[1].line /\ chunk[j].rest = chunk[1].rest - (j - 1)
  BY <1>1, <1>2, OneLine
<1>4. FitsIn(chunk[1], line, overlong, lengths)
  BY <1>1 DEF Reader, Partial
<1>5. /\ chunk[i].line = chunk[1].line /\ chunk[1].rest = chunk[i].rest + Len(segment)
  <2>1. i \in 1 .. i /\ i \in Nat
    BY <1>1
  <2>2. chunk[i].line = chunk[1].line /\ chunk[i].rest = chunk[1].rest - (i - 1)
    BY <1>3, <2>1
  <2> QED
    BY <1>2, <2>1, <2>2
<1>6. \A j \in 1 .. Len(segment) :
        segment[j].line = chunk[1].line /\ segment[j].rest = chunk[1].rest - (j - 1)
  <2> SUFFICES ASSUME NEW j \in 1 .. Len(segment)
               PROVE  /\ segment[j].line = chunk[1].line
                      /\ segment[j].rest = chunk[1].rest - (j - 1)
    OBVIOUS
  <2>1. j \in 1 .. i - 1 /\ j \in 1 .. i
    BY <1>1
  <2>2. segment[j] = chunk[j]
    BY <2>1
  <2>3. chunk[j].line = chunk[1].line /\ chunk[j].rest = chunk[1].rest - (j - 1)
    BY <1>3, <2>1
  <2> QED
    BY <2>2, <2>3
<1>7. FitsIn(chunk[i], A, StillOverlong(segment), lengths)
  <2> DEFINE first == chunk[1]
             next == chunk[i]
  <2>1. first \in Char /\ next \in Char /\ lengths[first.line] \in Nat
    BY <1>2
  <2>2. next.line = first.line /\ first.rest = next.rest + Len(segment)
    BY <1>5
  <2>3. \A j \in 1 .. Len(segment) :
          segment[j].line = first.line /\ segment[j].rest = first.rest - (j - 1)
    BY <1>6
  <2>4. FitsIn(first, line, overlong, lengths)
    BY <1>4
  <2> HIDE DEF first, next, A
  <2>5. FitsIn(next, Appended(segment), StillOverlong(segment), lengths)
    BY <2>1, <2>2, <2>3, <2>4, FitsOn
  <2> QED
    BY <2>5 DEF next, A
<1>8. A \in Seq(Char) /\ Len(A) \in Nat /\ L \in Nat /\ MaxLine \in Nat
  BY <1>2, AppendedIs, LenProperties, FollowerAssumption
<1>9. CASE StillOverlong(segment)
  <2>1. L > MaxLine
    BY <1>7, <1>9 DEF FitsIn
  <2> QED
    BY <1>9, <2>1
<1>10. CASE ~StillOverlong(segment)
  <2>1. /\ Len(A) + chunk[i].rest = L
        /\ \A k \in 1 .. Len(A) : A[k] = [line |-> n, rest |-> L + 1 - k]
    BY <1>7, <1>10 DEF FitsIn
  <2>2. Len(A) = L
    BY <1>8, <2>1
  <2>3. A = Text(n)
    <3>1. A \in [1 .. Len(A) -> Char]
      BY <1>8, LenProperties
    <3>2. A = [k \in 1 .. Len(A) |-> A[k]]
      BY <3>1
    <3> QED
      BY <2>1, <2>2, <3>2 DEF Text
  <2> QED
    BY <1>10, <2>2, <2>3
<1> QED
  BY <1>9, <1>10

LEMMA ReaderLine ==
  ASSUME TypeOK, Disk, Reader, ConsumeLine
  PROVE  Reader'
<1> DEFINE C == content[file]
           l == Len(chunk)
           h == Len(handled)
<1>1. PICK i \in 1 .. l, segment \in Seq(Char) :
        /\ chunk[i].rest = 0
        /\ \A j \in 1 .. i - 1 : chunk[j].rest # 0
        /\ Len(segment) = i - 1
        /\ \A j \in 1 .. i - 1 : segment[j] = chunk[j]
        /\ handled' =
             Append(handled,
               [line |-> chunk[i].line,
                text |-> IF StillOverlong(segment)
                            \/ Len(Appended(segment)) > MaxLine
                         THEN TooLong ELSE Appended(segment)])
        /\ chunk' \in Seq(Char) /\ Len(chunk') = l - i
        /\ \A j \in 1 .. l - i : chunk'[j] = chunk[i + j]
  BY ConsumeLineIs
<1> DEFINE n == chunk[i].line
           text == IF StillOverlong(segment) \/ Len(Appended(segment)) > MaxLine
                   THEN TooLong ELSE Appended(segment)
<1>2. /\ UNCHANGED <<content, path, writing, lengths, cut, cuts, pc, file, offset, seen,
                     known, overtaken>>
      /\ pc = "read" /\ line' = <<>> /\ overlong' = FALSE
  BY DEF ConsumeLine, disk
<1>3. /\ chunk \in Seq(Char) /\ l \in Nat /\ chunk # <<>> /\ offset \in Nat /\ h \in Nat
      /\ i \in Nat /\ i >= 1 /\ i <= l /\ Len(chunk') \in Nat
      /\ \A j \in 1 .. h : handled[j].line \in Nat
  <2>1. /\ chunk \in Seq(Char) /\ offset \in Nat /\ h \in Nat
        /\ \A j \in 1 .. h : handled[j].line \in Nat
    BY ReaderIs
  <2>2. l \in Nat /\ Len(chunk') \in Nat
    BY <1>1, <2>1, LenProperties
  <2>3. i \in Nat /\ i >= 1 /\ i <= l
    BY <2>2
  <2>4. chunk # <<>>
    BY <2>3, EmptySeq
  <2> QED
    BY <2>1, <2>2, <2>3, <2>4
<1>4. /\ offset >= 1 /\ FlowIn(chunk, lengths)
      /\ \A j \in 1 .. l :
           /\ chunk[j] \in Char /\ chunk[j].rest \in Nat /\ chunk[j].line \in Nat
           /\ chunk[j].line \in 1 .. Len(lengths) /\ lengths[chunk[j].line] \in Nat
      /\ Noticed => \A j \in 1 .. l : Base + j \in 1 .. Size /\ chunk[j] = C[Base + j]
  BY <1>3, ReaderIs, ChunkIs
<1>5. /\ Base' = Base + i /\ Base \in Int /\ Base + l = offset
      /\ Size' = Size /\ Noticed' = Noticed /\ Created' = Created
  BY <1>1, <1>2, <1>3 DEF Base, Size, Noticed, Created
<1>6. \A j \in 1 .. l - i : i + j \in 1 .. l /\ i < i + j
  BY <1>3
<1>7. /\ Len(handled') = h + 1
      /\ \A k \in 1 .. h : handled'[k] = handled[k]
      /\ handled'[h + 1] = [line |-> n, text |-> text]
  <2> DEFINE S == [line : Line, text : Seq(Char) \cup {TooLong}]
  <2>1. n \in Line /\ text \in Seq(Char) \cup {TooLong}
    BY <1>4, AppendedIs, ReaderIs
  <2>2. handled \in Seq(S)
    BY DEF TypeOK
  <2>3. handled' = Append(handled, [line |-> n, text |-> text])
    BY <1>1
  <2> HIDE DEF text, n
  <2>4. [line |-> n, text |-> text] \in S
    BY <2>1
  <2> HIDE DEF S
  <2> QED
    BY <2>2, <2>3, <2>4, AppendProperties
<1>8. handled'[h + 1].line = n /\ handled'[h + 1].text = text
  BY <1>7
<1> HIDE DEF text
<1>9. \A k \in 1 .. Len(handled') : k \in 1 .. h \/ k = h + 1
  BY <1>3, <1>7, SMTT(30)
<1>10. /\ \A k \in 1 .. h : \A j \in 1 .. l : handled[k].line < chunk[j].line
       /\ \A j \in 1 .. Size : ~Noticed \/ j > Base =>
            \A k \in 1 .. h : handled[k].line < C[j].line
       /\ path \in File /\ path # file =>
            \A j \in 1 .. Len(content[path]) :
              \A k \in 1 .. h : handled[k].line < content[path][j].line
       /\ \A k \in 1 .. h : handled[k].line <= Len(lengths)
       /\ \A j, k \in 1 .. h : j < k => handled[j].line < handled[k].line
  BY DEF Reader, HandledBehind, Behind
<1>11. \A j \in 1 .. l : i < j => n < chunk[j].line
  <2> SUFFICES ASSUME NEW j \in 1 .. l, i < j PROVE n < chunk[j].line
    OBVIOUS
  <2>1. j > i + chunk[i].rest
    BY <1>1, <1>3
  <2>2. chunk[j].line > chunk[i].line
    BY <1>4, <2>1, FlowAt
  <2>3. chunk[j].line \in Nat /\ chunk[i].line \in Nat
    BY <1>4
  <2> QED
    BY <2>2, <2>3
<1>12. \A k \in 1 .. Len(handled') :
         /\ \A j \in 1 .. l - i : handled'[k].line < chunk'[j].line
         /\ handled'[k].line <= Len(lengths)
  <2> SUFFICES ASSUME NEW k \in 1 .. Len(handled')
               PROVE  /\ \A j \in 1 .. l - i : handled'[k].line < chunk'[j].line
                      /\ handled'[k].line <= Len(lengths)
    OBVIOUS
  <2>1. CASE k \in 1 .. h
    <3>1. handled'[k] = handled[k] /\ handled[k].line <= Len(lengths)
      BY <1>7, <1>10, <2>1
    <3>2. ASSUME NEW j \in 1 .. l - i PROVE handled[k].line < chunk'[j].line
      <4>1. i + j \in 1 .. l /\ chunk'[j] = chunk[i + j]
        BY <1>1, <1>6
      <4> QED
        BY <1>10, <2>1, <4>1
    <3> QED
      BY <3>1, <3>2
  <2>2. CASE k = h + 1
    <3>1. handled'[k].line = n
      BY <1>8, <2>2
    <3>2. n <= Len(lengths)
      BY <1>4
    <3>3. \A j \in 1 .. l - i : n < chunk'[j].line
      <4> SUFFICES ASSUME NEW j \in 1 .. l - i PROVE n < chunk'[j].line
        OBVIOUS
      <4>1. i + j \in 1 .. l /\ i < i + j /\ chunk'[j] = chunk[i + j]
        BY <1>1, <1>6
      <4> QED
        BY <1>11, <4>1
    <3> HIDE DEF n
    <3> QED
      BY <3>1, <3>2, <3>3
  <2> QED
    BY <1>9, <2>1, <2>2
<1>13. ASSUME NEW j \in 1 .. Size, ~Noticed \/ j > Base + i, NEW k \in 1 .. Len(handled')
       PROVE  handled'[k].line < C[j].line
  <2>1. ~Noticed \/ j > Base
    BY <1>3, <1>5, <1>13, OpenFileIs, SMTT(30)
  <2>2. CASE k \in 1 .. h
    BY <1>7, <1>10, <2>1, <2>2
  <2>3. CASE k = h + 1 /\ ~Noticed
    BY <1>8, <2>3 DEF Reader, ChunkRead
  <2>4. CASE k = h + 1 /\ Noticed
    <3>1. /\ Base + i \in 1 .. Size /\ chunk[i] = C[Base + i] /\ j > Base + i
          /\ FlowIn(C, lengths) /\ Size = Len(C) /\ Size \in Nat
      BY <1>4, <1>13, <2>4, OpenFileIs DEF WholeIn
    <3>2. j > (Base + i) + C[Base + i].rest /\ Base + i < j
      <4> DEFINE p == Base + i
      <4>1. p \in Int /\ j > p /\ C[p].rest = 0
        BY <1>1, <1>3, <1>5, <3>1
      <4> HIDE DEF p
      <4>2. j > p + C[p].rest /\ p < j
        BY <4>1
      <4> QED
        BY <4>2 DEF p
    <3>3. C[j].line > n
      BY <3>1, <3>2, FlowAt
    <3>4. C[j].line \in Nat /\ n \in Nat
      BY <1>4, OpenFileIs
    <3> QED
      BY <1>8, <2>4, <3>3, <3>4
  <2> QED
    BY <1>9, <2>2, <2>3, <2>4
<1>14. ChunkRead'
  <2>1. FlowIn(chunk', lengths)
    <3>1. i + Len(chunk') <= Len(chunk)
      BY <1>1, <1>3
    <3> QED
      BY <1>1, <1>3, <1>4, <3>1, FlowOfPart
  <2>2. Noticed => \A j \in 1 .. l - i : chunk'[j] = C[(Base + i) + j]
    <3> SUFFICES ASSUME Noticed, NEW j \in 1 .. l - i
                 PROVE  chunk'[j] = C[(Base + i) + j]
      OBVIOUS
    <3>1. chunk[i + j] = C[Base + (i + j)] /\ Base + (i + j) = (Base + i) + j
      BY <1>3, <1>4, <1>5, <1>6
    <3> QED
      BY <1>1, <3>1
  <2>3. ~Noticed => \A j \in 1 .. l - i, k \in 1 .. Size : chunk'[j].line < C[k].line
    BY <1>1, <1>6 DEF Reader, ChunkRead
  <2>4. known <= cuts[file] /\ (Noticed => offset <= Size) /\ Len(chunk') <= offset
    <3>1. known <= cuts[file] /\ (Noticed => offset <= Size) /\ l <= offset
      BY DEF Reader, ChunkRead
    <3> QED
      BY <1>1, <1>3, <3>1
  <2> QED
    BY <1>1, <1>2, <1>5, <2>1, <2>2, <2>3, <2>4 DEF ChunkRead
<1>15. Elsewhere'
  <2>1. ASSUME path \in File, path # file,
               NEW j \in 1 .. l - i, NEW k \in 1 .. Len(content[path])
        PROVE  chunk'[j].line < content[path][k].line
    BY <1>1, <1>6, <2>1 DEF Reader, Elsewhere
  <2> QED
    BY <1>1, <1>2, <2>1 DEF Elsewhere
<1>16. HandledBehind'
  <2>1. ASSUME path \in File, path # file,
               NEW j \in 1 .. Len(content[path]), NEW k \in 1 .. Len(handled')
        PROVE  handled'[k].line < content[path][j].line
    <3>1. CASE k \in 1 .. h
      BY <1>7, <1>10, <2>1, <3>1
    <3>2. CASE k = h + 1
      BY <1>8, <2>1, <3>2 DEF Reader, Elsewhere
    <3> QED
      BY <1>9, <3>1, <3>2
  <2>2. ASSUME NEW j \in 1 .. Len(handled'), NEW k \in 1 .. Len(handled'), j < k
        PROVE  handled'[j].line < handled'[k].line
    <3>1. CASE k \in 1 .. h
      <4>1. j \in 1 .. h
        BY <1>3, <1>9, <2>2, <3>1
      <4>2. handled[j].line < handled[k].line
        BY <1>10, <2>2, <3>1, <4>1
      <4> QED
        BY <1>7, <3>1, <4>1, <4>2
    <3>2. CASE k = h + 1
      <4>1. j \in 1 .. h
        BY <1>3, <1>9, <2>2, <3>2
      <4>2. handled[j].line < n /\ i \in 1 .. l
        BY <1>10, <4>1
      <4>3. handled'[j].line = handled[j].line
        BY <1>7, <4>1
      <4>4. handled'[k].line = n
        BY <1>8, <3>2
      <4> QED
        BY <4>2, <4>3, <4>4
    <3> QED
      BY <1>9, <3>1, <3>2
  <2>3. \A k \in 1 .. Len(handled') : handled'[k].line <= Len(lengths')
    BY <1>2, <1>12
  <2>4. \A j \in 1 .. Len(chunk') : \A k \in 1 .. Len(handled') :
          handled'[k].line < chunk'[j].line
    BY <1>1, <1>12
  <2>5. \A j \in 1 .. Size' : ~Noticed' \/ j > Base' =>
          \A k \in 1 .. Len(handled') : handled'[k].line < content'[file'][j].line
    BY <1>2, <1>5, <1>13
  <2>6. path' \in File /\ path' # file' =>
          \A j \in 1 .. Len(content'[path']) : \A k \in 1 .. Len(handled') :
            handled'[k].line < content'[path'][j].line
    BY <1>2, <2>1
  <2> QED
    BY <2>2, <2>3, <2>4, <2>5, <2>6 DEF HandledBehind, Behind
<1>17. Partial'
  <2>1. ASSUME chunk' # <<>> PROVE FitsIn(chunk'[1], <<>>, FALSE, lengths)
    <3>1. 1 \in 1 .. l - i
      BY <1>1, <1>3, <2>1, EmptySeq
    <3>2. chunk'[1] = chunk[i + 1] /\ i + 1 \in 1 .. l /\ i < i + 1
          /\ i + 1 = i + chunk[i].rest + 1
      BY <1>1, <1>3, <1>6, <3>1
    <3>3. chunk[i + 1].rest = lengths[chunk[i + 1].line]
      BY <1>4, <3>2 DEF FlowIn
    <3>4. Len(<<>>) + chunk[i + 1].rest = lengths[chunk[i + 1].line]
      BY <1>4, <3>2, <3>3
    <3> QED
      BY <3>2, <3>4 DEF FitsIn
  <2>2. ASSUME chunk' = <<>>, Noticed, offset < Size
        PROVE  FitsIn(C[offset + 1], <<>>, FALSE, lengths)
    <3>1. i = l
      <4>1. Len(chunk') = 0
        BY <2>2
      <4> QED
        BY <1>1, <1>3, <4>1
    <3>2. /\ offset \in 1 .. Size /\ chunk[i] = C[offset] /\ offset + 1 \in 1 .. Size
          /\ offset < offset + 1
          /\ FlowIn(C, lengths) /\ Size = Len(C)
      BY <1>3, <1>4, <1>5, <2>2, <3>1, OpenFileIs DEF WholeIn
    <3>3. offset + 1 = offset + C[offset].rest + 1
      <4>1. C[offset].rest = 0
        BY <1>1, <3>2
      <4> QED
        BY <1>3, <4>1
    <3>4. C[offset + 1].rest = lengths[C[offset + 1].line] /\ C[offset + 1].rest \in Nat
      <4>1. C[offset + 1].rest \in Nat
        BY <3>2, OpenFileIs
      <4>2. C[offset + 1].rest = lengths[C[offset + 1].line]
        BY <3>2, <3>3, FlowAt
      <4> QED
        BY <4>1, <4>2
    <3>5. Len(<<>>) + C[offset + 1].rest = lengths[C[offset + 1].line]
      BY <3>4
    <3> QED
      BY <3>5 DEF FitsIn
  <2> QED
    BY <1>2, <1>4, <1>5, <2>1, <2>2 DEF Partial, Nothing
<1>18. WholeLines'
  <2>1. \A m : Text(m)' = Text(m)
    BY <1>2 DEF Text
  <2>2. ASSUME ~overtaken, NEW k \in 1 .. Len(handled')
        PROVE  handled'[k].text =
                 IF lengths[handled'[k].line] > MaxLine THEN TooLong
                 ELSE Text(handled'[k].line)
    <3>1. CASE k \in 1 .. h
      BY <1>7, <2>2, <3>1 DEF Reader, WholeLines
    <3>2. CASE k = h + 1
      <4>1. text = IF lengths[n] > MaxLine THEN TooLong ELSE Text(n)
        BY <1>1, <2>2, LineIsWhole DEF text
      <4> QED
        BY <1>8, <3>2, <4>1
    <3> QED
      BY <1>9, <3>1, <3>2
  <2> QED
    BY <1>2, <2>1, <2>2 DEF WholeLines
<1>19. Consumed'
  <2>1. Handled \cup {n} \subseteq Handled'
    <3>1. h + 1 \in 1 .. Len(handled')
      BY <1>3, <1>7
    <3>2. n \in Handled'
      BY <1>8, <3>1 DEF Handled
    <3>3. \A k \in 1 .. h : k \in 1 .. Len(handled') /\ handled'[k].line = handled[k].line
      BY <1>3, <1>7
    <3>4. Handled \subseteq Handled'
      BY <3>3 DEF Handled
    <3> QED
      BY <3>2, <3>4
  <2>2. ASSUME ~overtaken, Noticed, NEW j \in 1 .. Base + i, C[j].rest = 0
        PROVE  C[j].line \in Handled \cup {n}
    <3>1. CASE j \in 1 .. Base
      BY <2>2, <3>1 DEF Reader, Consumed
    <3>2. CASE j \notin 1 .. Base
      <4> DEFINE k == j - Base
      <4>1. k \in 1 .. i /\ Base + k = j /\ k \in 1 .. l
        BY <1>3, <1>5, <3>2
      <4>2. chunk[k] = C[j] /\ chunk[k].rest = 0
        BY <1>4, <2>2, <4>1
      <4>3. k = i
        <5>1. k \in 1 .. i - 1 \/ k = i
          BY <1>3, <4>1
        <5> HIDE DEF k
        <5> QED
          BY <1>1, <4>2, <5>1
      <4> QED
        BY <4>2, <4>3
    <3> QED
      BY <3>1, <3>2
  <2> QED
    BY <1>2, <1>5, <2>1, <2>2 DEF Consumed
<1> QED
  BY <1>14, <1>15, <1>16, <1>17, <1>18, <1>19 DEF Reader

(* The follower starts again, at the beginning of a file that holds nothing *)
(* of what it read.                                                        *)
LEMMA StartedOver ==
  ASSUME TypeOK, Disk, Reader, UNCHANGED <<content, path, lengths, cuts, handled, overtaken>>,
         chunk = <<>>, chunk' = <<>>, offset' = 0, line' = <<>>, overlong' = FALSE,
         pc' = "read", file' \in Created, known' = cuts[file'],
         \A i \in 1 .. Len(content[file']), k \in 1 .. Len(handled) :
           handled[k].line < content[file'][i].line,
         path \in File /\ path # file' => path # file
  PROVE  Reader'
<1> DEFINE C == content[file']
<1>1. /\ C \in Seq(Char) /\ Len(C) \in Nat /\ WholeIn(C, lengths) /\ cuts[file'] \in Nat
      /\ Len(<<>>) = 0
  BY FileIs, FollowerAssumption DEF Disk, FilesWhole, TypeOK, Created
<1>2. Base' = 0 /\ Size' = Len(C) /\ Noticed'
  <2>1. Len(chunk') = 0
    BY <1>1
  <2>2. Base' = 0
    <3>1. Base' = offset' - Len(chunk') /\ 0 - 0 = 0
      BY DEF Base
    <3> QED
      BY <2>1, <3>1, Zenon
  <2> QED
    BY <2>2 DEF Size, Noticed
<1>3. /\ \A k \in 1 .. Len(handled) : handled[k].line <= Len(lengths)
      /\ path \in File /\ path # file =>
           \A i \in 1 .. Len(content[path]), k \in 1 .. Len(handled) :
             handled[k].line < content[path][i].line
      /\ \A j, k \in 1 .. Len(handled) : j < k => handled[j].line < handled[k].line
  BY DEF Reader, HandledBehind, Behind
<1>4. ChunkRead'
  BY <1>1, <1>2 DEF ChunkRead, FlowIn
<1>5. Elsewhere'
  BY <1>1 DEF Elsewhere
<1>6. HandledBehind'
  BY <1>1, <1>2, <1>3 DEF HandledBehind, Behind
<1>7. Partial'
  <2>1. ASSUME 0 < Len(C) PROVE FitsIn(C[1], <<>>, FALSE, lengths)
    <3>1. C # <<>> /\ 1 \in 1 .. Len(C)
      BY <1>1, <2>1
    <3>2. C[1].rest = lengths[C[1].line] /\ C[1].rest \in Nat
      BY <1>1, <3>1, CharIs DEF WholeIn
    <3>3. Len(<<>>) + C[1].rest = lengths[C[1].line]
      BY <1>1, <3>2
    <3> QED
      BY <1>1, <3>3 DEF FitsIn
  <2>2. 0 + 1 = 1
    OBVIOUS
  <2> QED
    BY <1>2, <2>1, <2>2 DEF Partial, Nothing
<1>8. WholeLines'
  <2>1. \A m : Text(m)' = Text(m)
    BY DEF Text
  <2> QED
    BY <2>1 DEF Reader, WholeLines
<1>9. Consumed'
  BY <1>2 DEF Consumed
<1> QED
  BY <1>4, <1>5, <1>6, <1>7, <1>8, <1>9 DEF Reader

LEMMA ReaderRewind ==
  ASSUME TypeOK, Disk, Reader, Rewind
  PROVE  Reader'
<1>1. /\ UNCHANGED <<content, path, lengths, cuts, file, chunk, handled, overtaken>>
      /\ pc = "inspect" /\ Size < offset /\ offset' = 0 /\ line' = <<>>
      /\ overlong' = FALSE /\ pc' = "read" /\ known' = cuts[file]
  BY DEF Rewind, ResetPartial, disk
<1>2. chunk = <<>> /\ chunk' = <<>>
  BY <1>1 DEF Reader, Elsewhere
<1>3. ~Noticed
  BY <1>1, ReaderIs, OpenFileIs DEF Reader, ChunkRead
<1>4. \A i \in 1 .. Size, k \in 1 .. Len(handled) :
        handled[k].line < content[file][i].line
  BY <1>3 DEF Reader, HandledBehind, Behind
<1>5. file' \in Created /\ Size = Len(content[file'])
  BY <1>1, ReaderIs, OpenFileIs
<1> QED
  BY <1>1, <1>2, <1>4, <1>5, StartedOver

LEMMA ReaderOpen ==
  ASSUME TypeOK, Disk, Reader, Open
  PROVE  Reader'
<1>1. /\ UNCHANGED <<content, path, lengths, cuts, chunk, handled, overtaken>>
      /\ pc = "open" /\ chunk = <<>> /\ path # file /\ seen \in Created
  BY DEF Open, disk, Reader, Elsewhere
<1>2. CASE path = seen
  <2>1. /\ file' = path /\ offset' = 0 /\ line' = <<>> /\ overlong' = FALSE
        /\ pc' = "read" /\ known' = cuts[file'] /\ chunk' = <<>>
    BY <1>1, <1>2 DEF Open, StartOver, ResetPartial
  <2>2. path \in File /\ file' \in Created
    BY <1>1, <1>2, <2>1 DEF Created
  <2>3. \A i \in 1 .. Len(content[file']), k \in 1 .. Len(handled) :
          handled[k].line < content[file'][i].line
    BY <1>1, <2>1, <2>2 DEF Reader, HandledBehind, Behind
  <2> QED
    BY <1>1, <2>1, <2>2, <2>3, StartedOver
<1>3. CASE path # seen
  <2>1. pc' = "failed" /\ UNCHANGED <<file, offset, line, overlong, known>>
    BY <1>3 DEF Open
  <2>2. Base' = Base /\ Size' = Size /\ Noticed' = Noticed /\ Handled' = Handled
    BY <1>1, <2>1 DEF Base, Size, Noticed, Handled
  <2>3. \A m : Text(m)' = Text(m)
    BY <1>1 DEF Text
  <2>4. ChunkRead' /\ Elsewhere'
    BY <1>1, <2>1, <2>2 DEF Reader, ChunkRead, Elsewhere
  <2>5. HandledBehind'
    BY <1>1, <2>1, <2>2 DEF Reader, HandledBehind, Behind
  <2>6. Partial'
    BY <1>1, <2>1, <2>2 DEF Reader, Partial, Nothing
  <2>7. WholeLines'
    BY <1>1, <2>3 DEF Reader, WholeLines
  <2>8. Consumed'
    BY <1>1, <2>1, <2>2 DEF Reader, Consumed
  <2> QED
    BY <2>4, <2>5, <2>6, <2>7, <2>8 DEF Reader
<1> QED
  BY <1>2, <1>3

LEMMA ReaderLooks ==
  ASSUME TypeOK, Disk, Reader, ReadEOF \/ NotShorter \/ Compare \/ Look \/ Cancel
  PROVE  Reader'
<1>1. /\ UNCHANGED <<content, path, writing, lengths, cut, cuts, file, offset, chunk, line,
                     overlong, handled, known>>
      /\ ~overtaken' => ~overtaken
  <2>1. CASE ReadEOF \/ Compare \/ Look \/ Cancel
    BY <2>1 DEF ReadEOF, Compare, Look, Cancel, disk
  <2>2. CASE NotShorter
    <3>1. overtaken' = (overtaken \/ Unnoticed)
      BY <2>2 DEF NotShorter
    <3>2. ~overtaken' => ~overtaken
      BY <3>1, Zenon
    <3> QED
      BY <2>2, <3>2 DEF NotShorter, disk
  <2> QED
    BY <2>1, <2>2
<1>2. /\ Base' = Base /\ Size' = Size /\ Noticed' = Noticed /\ Handled' = Handled
      /\ Created' = Created
  BY <1>1 DEF Base, Size, Noticed, Handled, Created
<1>3. \A m : Text(m)' = Text(m)
  BY <1>1 DEF Text
<1>4. ChunkRead'
  BY <1>1, <1>2 DEF Reader, ChunkRead
<1>5. HandledBehind'
  BY <1>1, <1>2 DEF Reader, HandledBehind, Behind
<1>6. Partial'
  BY <1>1, <1>2 DEF Reader, Partial, Nothing
<1>7. WholeLines'
  BY <1>1, <1>3 DEF Reader, WholeLines
<1>8. Consumed'
  BY <1>1, <1>2 DEF Reader, Consumed
<1>9. Elsewhere'
  <2>1. path \in File /\ path # file =>
          \A i \in 1 .. Len(chunk), j \in 1 .. Len(content[path]) :
            chunk[i].line < content[path][j].line
    BY DEF Reader, Elsewhere
  <2>2. pc' \in {"inspect", "compare", "look", "open"} => chunk = <<>>
    BY DEF ReadEOF, NotShorter, Compare, Look, Cancel, Reader, Elsewhere
  <2>3. pc' \in {"look", "open"} => path # file
    BY DEF ReadEOF, NotShorter, Compare, Look, Cancel, NothingNew, Reader, Elsewhere
  <2>4. pc' = "open" => seen' \in Created /\ seen' # file
    BY FileIs DEF ReadEOF, NotShorter, Compare, Look, Cancel, Reader, Elsewhere
  <2> QED
    BY <1>1, <1>2, <2>1, <2>2, <2>3, <2>4 DEF Elsewhere
<1> QED
  BY <1>4, <1>5, <1>6, <1>7, <1>8, <1>9 DEF Reader

-----------------------------------------------------------------------------
(* The invariant and what follows from it *)

LEMMA InvInit == Init => Inv
BY TypeInit, DiskInit, ReaderInit DEF Inv

LEMMA InvNext == Inv /\ [Next]_vars => Inv'
<1> SUFFICES ASSUME Inv, [Next]_vars PROVE Inv'
  OBVIOUS
<1>1. TypeOK /\ Bounded /\ Disk /\ Reader /\ Elsewhere
  BY DEF Inv, Reader
<1>2. CASE \E length \in LineLength : Write(length)
  <2>1. PICK length \in LineLength : Write(length)
    BY <1>2
  <2> QED
    BY <1>1, <1>2, <2>1, TypeDisk, DiskWrite, ReaderWrite DEF Inv
<1>3. CASE Rotation
  BY <1>1, <1>3, TypeDisk, DiskRotation, ReaderRotation DEF Inv
<1>4. CASE Follow \/ Cancel
  <2>1. TypeOK' /\ Bounded'
    BY <1>1, <1>4, TypeReader
  <2>2. UNCHANGED disk
    BY <1>4 DEF Follow, Read, ReadEOF, ConsumeRest, ConsumeLine, Rewind, NotShorter,
         Compare, Look, Open, Cancel
  <2>3. Disk'
    BY <1>1, <2>2 DEF disk, Disk, FilesWhole, Newest, NoneLost, Created
  <2>4. Reader'
    BY <1>1, <1>4, ReaderRead, ReaderRest, ReaderLine, ReaderRewind, ReaderOpen,
       ReaderLooks DEF Follow
  <2> QED
    BY <2>1, <2>3, <2>4 DEF Inv
<1>5. CASE UNCHANGED vars
  <2>1. UNCHANGED <<content, path, writing, lengths, cut, cuts, pc, file, offset, chunk,
                    line, overlong, seen, handled, known, overtaken>>
    BY <1>5 DEF vars, disk, reader
  <2>2. TypeOK' /\ Bounded' /\ Disk'
    <3>1. Created' = Created
      BY <2>1 DEF Created
    <3>2. TypeOK'
      BY <1>1, <2>1, <3>1 DEF TypeOK
    <3>3. Bounded'
      BY <1>1, <2>1, <3>1 DEF Bounded
    <3>4. Disk'
      BY <1>1, <2>1, <3>1 DEF Disk, FilesWhole, Newest, NoneLost
    <3> QED
      BY <3>2, <3>3, <3>4
  <2>3. Base' = Base /\ Size' = Size /\ Noticed' = Noticed /\ Handled' = Handled
        /\ Created' = Created /\ \A m : Text(m)' = Text(m)
    BY <2>1 DEF Base, Size, Noticed, Handled, Created, Text
  <2>4. ChunkRead' /\ Elsewhere'
    BY <1>1, <2>1, <2>3 DEF Reader, ChunkRead, Elsewhere
  <2>5. HandledBehind' /\ Partial'
    BY <1>1, <2>1, <2>3 DEF Reader, HandledBehind, Behind, Partial, Nothing
  <2>6. WholeLines' /\ Consumed'
    BY <1>1, <2>1, <2>3 DEF Reader, WholeLines, Consumed
  <2> QED
    BY <2>2, <2>4, <2>5, <2>6 DEF Inv, Reader
<1> QED
  BY <1>2, <1>3, <1>4, <1>5 DEF Next

(* The inductive invariant of the follower and of the files around it. *)
THEOREM InvHolds == Spec => []Inv
BY InvInit, InvNext, PTL DEF Spec

(* Every variable stays in its range: a chunk fits the buffer, a line its  *)
(* limit and a carriage return (Follow, appendSegment).                    *)
THEOREM TypesHold == Spec => []TypeOK
<1>1. Inv => TypeOK
  BY DEF Inv
<1> QED
  BY <1>1, InvHolds, PTL

(* However reads and truncations cut a line up, it is handed on as it was  *)
(* written or reported too long when it is (consume, appendSegment).       *)
THEOREM LinesAreWhole == Spec => []WholeLines
<1>1. Inv => WholeLines
  BY DEF Inv, Reader
<1> QED
  BY <1>1, InvHolds, PTL

(* A character that is not consumed is one of a line that is ahead. *)
LEMMA AheadIs ==
  ASSUME TypeOK, ChunkRead
  PROVE  \A n : n \in Ahead <=>
                  \E i \in 1 .. Size : (~Noticed \/ i > Base) /\ content[file][i].line = n
<1>1. Base \in Int /\ Size \in Nat /\ Base >= 0
  <2>1. Base \in Int /\ Size \in Nat /\ offset \in Nat /\ Len(chunk) \in Nat
    BY ReaderIs, FileIs
  <2>2. Len(chunk) <= offset
    BY DEF ChunkRead
  <2> QED
    BY ONLY <2>1, <2>2 DEF Base
<1>2. CASE Noticed
  <2>1. Ahead = {content[file][i].line : i \in Base + 1 .. Size}
    BY <1>2 DEF Ahead, Noticed, Base
  <2>2. \A i : i \in Base + 1 .. Size <=> i \in 1 .. Size /\ i > Base
    BY ONLY <1>1
  <2> QED
    BY <1>2, <2>1, <2>2
<1>3. CASE ~Noticed
  <2>1. Ahead = {content[file][i].line : i \in 0 + 1 .. Size}
    BY <1>3 DEF Ahead, Noticed
  <2>2. 0 + 1 .. Size = 1 .. Size
    BY ONLY <1>1
  <2> QED
    BY <1>3, <2>1, <2>2
<1> QED
  BY <1>2, <1>3

LEMMA InvOrder == Inv => OnceInOrder
<1> SUFFICES ASSUME Inv PROVE OnceInOrder
  OBVIOUS
<1>1. TypeOK /\ ChunkRead /\ HandledBehind
  BY DEF Inv, Reader
<1>2. \A i, j \in 1 .. Len(handled) : i < j => handled[i].line < handled[j].line
  BY <1>1 DEF HandledBehind
<1>3. ASSUME NEW n \in Handled, NEW later \in Ahead
      PROVE  n < later
  <2>1. PICK k \in 1 .. Len(handled) : n = handled[k].line
    BY DEF Handled
  <2>2. PICK i \in 1 .. Size : (~Noticed \/ i > Base) /\ content[file][i].line = later
    BY <1>1, AheadIs
  <2>3. Behind(content[file][i].line)
    BY <1>1, <2>2 DEF HandledBehind
  <2> QED
    BY <2>1, <2>2, <2>3 DEF Behind
<1> QED
  BY <1>2, <1>3 DEF OnceInOrder

(* Of a line that stands in the open file the line feed stands there, too:  *)
(* it was consumed, and the line handed on, or it is ahead.                 *)
LEMMA InvSkips == Inv => NothingSkipped
<1> SUFFICES ASSUME Inv, ~overtaken, NEW n \in 1 .. Len(lengths)
             PROVE  n \in Handled \cup cut \cup Ahead \cup LinesIn(Created \ {file})
  BY DEF NothingSkipped
<1>1. TypeOK /\ ChunkRead /\ Disk /\ Consumed
  BY DEF Inv, Reader
<1>2. CASE n \in cut
  BY <1>2
<1>3. CASE \E f \in Created : \E i \in 1 .. Len(content[f]) : content[f][i].line = n
  <2>1. PICK f \in Created : \E i \in 1 .. Len(content[f]) : content[f][i].line = n
    BY <1>3
  <2>2. PICK i \in 1 .. Len(content[f]) : content[f][i].line = n
    BY <2>1
  <2>3. CASE f # file
    <3>1. content[f] \in Seq(Char)
      BY <1>1, FileIs
    <3>2. content[f][i] \in Range(content[f])
      BY <2>2, <3>1, RangeEquality
    <3> QED
      BY <2>2, <2>3, <3>2 DEF LinesIn
  <2>4. CASE f = file
    <3> DEFINE C == content[file]
               j == i + C[i].rest
    <3>1. /\ i \in 1 .. Size /\ Size = Len(C) /\ Size \in Nat /\ C[i].line = n
          /\ C \in Seq(Char) /\ WholeIn(C, lengths) /\ FlowIn(C, lengths)
          /\ C[i].rest \in Nat
      BY <1>1, <2>2, <2>4, OpenFileIs DEF WholeIn
    <3>2. j \in 1 .. Size
      <4> DEFINE r == C[i].rest
      <4>1. i + r <= Len(C)
        BY <3>1 DEF WholeIn
      <4>2. i \in Nat /\ i >= 1 /\ r \in Nat /\ Len(C) = Size /\ Size \in Nat
        BY <3>1
      <4> HIDE DEF r, C
      <4>3. i + r \in 1 .. Size
        BY <4>1, <4>2
      <4> QED
        BY <4>3 DEF r
    <3>3. C[j].line = n /\ C[j].rest = 0
      <4>1. CASE C[i].rest = 0
        <5>1. j = i
          BY <3>1, <4>1
        <5> QED
          BY <3>1, <4>1, <5>1
      <4>2. CASE C[i].rest # 0
        <5>1. i < j /\ j <= i + C[i].rest /\ C[i].rest - (j - i) = 0
          <6> DEFINE r == C[i].rest
          <6>1. r \in Nat /\ r # 0 /\ i \in Nat
            BY <3>1, <4>2
          <6> HIDE DEF r
          <6>2. i < i + r /\ i + r <= i + r /\ r - ((i + r) - i) = 0
            BY ONLY <6>1
          <6> QED
            BY <6>2 DEF r
        <5> HIDE DEF j
        <5>2. FlowIn(C, lengths) /\ i \in 1 .. Len(C) /\ j \in 1 .. Len(C)
          BY <3>1, <3>2
        <5> HIDE DEF C
        <5>3. C[j].line = C[i].line /\ C[j].rest = C[i].rest - (j - i)
          BY <5>1, <5>2, FlowAt
        <5> QED
          BY <3>1, <5>1, <5>3
      <4> QED
        BY <4>1, <4>2
    <3> HIDE DEF j
    <3>4. CASE ~Noticed \/ j > Base
      <4>1. n \in Ahead
        BY <1>1, <3>2, <3>3, <3>4, AheadIs
      <4> QED
        BY <4>1
    <3>5. CASE Noticed /\ ~(j > Base)
      <4>1. j \in 1 .. Base
        <5>1. j \in 1 .. Size /\ Size \in Nat /\ Base \in Int /\ ~(j > Base)
          BY <1>1, <3>1, <3>2, <3>5, ReaderIs
        <5> QED
          BY ONLY <5>1
      <4>2. C[j].line \in Handled
        BY <1>1, <3>3, <3>5, <4>1 DEF Consumed
      <4> QED
        BY <3>3, <4>2
    <3> QED
      BY <3>4, <3>5
  <2> QED
    BY <2>3, <2>4
<1> QED
  BY <1>1, <1>2, <1>3 DEF Disk, NoneLost

(* No line is handed on twice or out of order, and what is ahead comes     *)
(* after all that was handed on (consume, inspectEOF).                     *)
THEOREM LinesInOrder == Spec => []OnceInOrder
BY InvHolds, InvOrder, PTL

(* No line of the open file is lost on the way: each was handed on, was    *)
(* truncated away, is ahead in it, or is in another file, which may be one *)
(* that the follower has left (consume, inspectEOF).                       *)
THEOREM NoLineSkipped == Spec => []NothingSkipped
BY InvHolds, InvSkips, PTL
=============================================================================
