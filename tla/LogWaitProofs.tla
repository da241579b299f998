---------------------------- MODULE LogWaitProofs ----------------------------
(***************************************************************************)
(* What ForLog promises, for any number of lines, any capacity of its      *)
(* channel and any occurrence.                                             *)
(***************************************************************************)
EXTENDS LogWait, SequenceTheorems, FiniteSetTheorems, TLAPS

\* The lines that are not too long.
Short == {"match", "other"}

\* One line more is one match more, or none; more lines have no fewer matches.
LEMMA MatchesStep ==
  ASSUME wrote \in Seq(Lines), NEW n \in Nat
  PROVE  /\ Matches(n) \in Nat /\ IsFiniteSet({i \in 1 .. n : wrote[i] = "match"})
         /\ Matches(0) = 0
         /\ Matches(n + 1) = IF wrote[n + 1] = "match" THEN Matches(n) + 1 ELSE Matches(n)
<1> DEFINE S(m) == {i \in 1 .. m : wrote[i] = "match"}
<1>1. IsFiniteSet(1 .. n) /\ S(n) \subseteq 1 .. n
  BY FS_Interval
<1>2. IsFiniteSet(S(n)) /\ Cardinality(S(n)) \in Nat
  BY <1>1, FS_Subset, FS_CardinalityType
<1>3. S(0) = {}
  OBVIOUS
<1>4. CASE wrote[n + 1] = "match"
  <2>1. S(n + 1) = S(n) \cup {n + 1} /\ n + 1 \notin S(n)
    BY <1>4
  <2>2. Cardinality(S(n + 1)) = Cardinality(S(n)) + 1
    BY <1>2, <2>1, FS_AddElement
  <2> QED
    BY <1>2, <1>3, <1>4, <2>2, FS_EmptySet DEF Matches
<1>5. CASE wrote[n + 1] # "match"
  <2>1. S(n + 1) = S(n)
    BY <1>5
  <2> QED
    BY <1>2, <1>3, <1>5, <2>1, FS_EmptySet DEF Matches
<1> QED
  BY <1>4, <1>5

LEMMA MatchesGrow ==
  ASSUME wrote \in Seq(Lines), NEW n \in Nat, NEW m \in Nat, m <= n
  PROVE  Matches(m) <= Matches(n)
<1> DEFINE S(k) == {i \in 1 .. k : wrote[i] = "match"}
<1>1. S(m) \subseteq S(n) /\ IsFiniteSet(S(n))
  BY MatchesStep
<1> QED
  BY <1>1, FS_Subset DEF Matches

\* A line that is written comes behind the others, and is one match more or none.
LEMMA MatchesOfOldLines ==
  ASSUME wrote \in Seq(Lines), NEW l \in Lines, wrote' = Append(wrote, l), NEW n \in 0 .. Len(wrote)
  PROVE  Matches(n)' = Matches(n)
<1>1. \A i \in 1 .. n : wrote'[i] = wrote[i]
  BY AppendProperties
<1>2. {i \in 1 .. n : wrote'[i] = "match"} = {i \in 1 .. n : wrote[i] = "match"}
  BY <1>1
<1> QED
  BY <1>2 DEF Matches

\* Three parts in a row, position by position.
Row(a, b, c) ==
  LET row == a \o b \o c
  IN  /\ row \in Seq(Lines) /\ Len(row) = Len(a) + Len(b) + Len(c) /\ DOMAIN row = 1 .. Len(row)
      /\ \A i \in 1 .. Len(a) : row[i] = a[i]
      /\ \A i \in 1 .. Len(b) : row[Len(a) + i] = b[i]
      /\ \A i \in 1 .. Len(c) : row[Len(a) + Len(b) + i] = c[i]

LEMMA RowFacts ==
  ASSUME NEW a \in Seq(Lines), NEW b \in Seq(Lines), NEW c \in Seq(Lines)
  PROVE  Row(a, b, c)
<1> DEFINE ab == a \o b
           row == ab \o c
<1>1. /\ ab \in Seq(Lines) /\ Len(ab) = Len(a) + Len(b)
      /\ \A i \in 1 .. Len(ab) : ab[i] = IF i <= Len(a) THEN a[i] ELSE b[i - Len(a)]
  BY ConcatProperties
<1>2. /\ row \in Seq(Lines) /\ Len(row) = Len(ab) + Len(c)
      /\ \A i \in 1 .. Len(row) : row[i] = IF i <= Len(ab) THEN ab[i] ELSE c[i - Len(ab)]
  BY <1>1, ConcatProperties
<1>3. Len(a) \in Nat /\ Len(b) \in Nat /\ Len(c) \in Nat /\ DOMAIN row = 1 .. Len(row)
  BY <1>2, LenProperties
<1> HIDE DEF ab, row
<1>4. \A i \in 1 .. Len(a) : row[i] = a[i]
  BY <1>1, <1>2, <1>3
<1>5. \A i \in 1 .. Len(b) : row[Len(a) + i] = b[i]
  BY <1>1, <1>2, <1>3
<1>6. \A i \in 1 .. Len(c) : row[Len(a) + Len(b) + i] = c[i]
  <2> TAKE i \in 1 .. Len(c)
  <2> DEFINE j == Len(a) + Len(b) + i
  <2>1. j \in 1 .. Len(row) /\ ~(j <= Len(ab)) /\ j - Len(ab) = i
    BY <1>1, <1>2, <1>3
  <2> QED
    BY <1>2, <2>1
<1> QED
  BY <1>1, <1>2, <1>3, <1>4, <1>5, <1>6 DEF Row, row, ab

LEMMA AppendToRow ==
  ASSUME NEW a \in Seq(Lines), NEW b \in Seq(Lines), NEW c \in Seq(Lines), NEW l \in Lines
  PROVE  a \o b \o Append(c, l) = Append(a \o b \o c, l)
<1>1. a \o b \in Seq(Lines) /\ a \o b \o c \in Seq(Lines) /\ <<l>> \in Seq(Lines)
  BY ConcatProperties
<1>2. Append(c, l) = c \o <<l>> /\ Append(a \o b \o c, l) = (a \o b \o c) \o <<l>>
  BY <1>1, AppendIsConcat
<1> DEFINE ab == a \o b
           one == <<l>>
<1> HIDE DEF ab, one
<1>3. (ab \o c) \o one = ab \o (c \o one)
  BY <1>1, ConcatAssociative DEF ab, one
<1> QED
  BY <1>2, <1>3 DEF ab, one

LEMMA ShortLines ==
  /\ \A s \in Seq(Short) : s \in Seq(Lines)
  /\ \A l \in Short : <<l>> \in Seq(Lines) /\ Len(<<l>>) = 1 /\ <<l>> # <<>>
  /\ <<>> \in Seq(Lines) /\ <<>> \in Seq(Short) /\ Len(<<>>) = 0
<1>1. \A s \in Seq(Short) : s \in Seq(Lines)
  <2> TAKE s \in Seq(Short)
  <2>1. Len(s) \in Nat /\ s \in [1 .. Len(s) -> Short]
    BY LenProperties
  <2>2. s \in [1 .. Len(s) -> Lines]
    BY <2>1 DEF Short, Lines
  <2> QED
    BY <2>1, <2>2, SeqDef
<1> QED
  BY <1>1 DEF Short, Lines

LEMMA PartsAreLines ==
  ASSUME TypeOK
  PROVE  lines \in Seq(Lines) /\ held \in Seq(Lines) /\ pipe \in Seq(Lines)
BY ShortLines DEF TypeOK, ReaderType, ChannelsType, Short

LEMMA UnderwayFacts == ASSUME TypeOK PROVE Row(lines, held, pipe)
BY PartsAreLines, RowFacts

LEMMA InitInv == Init => LogInv
<1> SUFFICES ASSUME Init PROVE LogInv
  OBVIOUS
<1>1. TypeOK
  <2>1. StreamType /\ ReaderType
    BY ShortLines DEF Init, StreamType, ReaderType
  <2>2. lines \in Seq({"match", "other"}) /\ Len(lines) = 0 /\ 0 <= Cap
    BY LogAssumption, ShortLines DEF Init, Short
  <2>3. ChannelsType
    BY <2>2 DEF Init, ChannelsType
  <2>4. CallType
    BY DEF Init, CallType
  <2> QED
    BY <2>1, <2>3, <2>4 DEF TypeOK
<1>2. NoLineLost
  <2>1. Len(Underway) = 0 /\ DOMAIN Underway = {} /\ Len(wrote) = 0 /\ wrote \in Seq(Lines)
    BY <1>1, UnderwayFacts, ShortLines DEF Init, Row, Underway
  <2>2. Matches(0) = 0
    BY <2>1, MatchesStep
  <2> QED
    BY <2>1, <2>2 DEF Init, NoLineLost, Taken
<1> QED
  BY <1>1, <1>2 DEF LogInv, StreamSafe, Init

\* Steps that neither write nor take keep every line where it is.
LEMMA LinesStay ==
  ASSUME LogInv, UNCHANGED <<wrote, count>>, Underway' = Underway
  PROVE  NoLineLost'
BY DEF LogInv, NoLineLost, Taken, Matches

LEMMA WriteKeeps == ASSUME LogInv, Write PROVE LogInv'
<1> USE DEF LogInv, reader, channels, call
<1>1. PICK l \in Lines : wrote' = Append(wrote, l) /\ pipe' = Append(pipe, l)
  BY DEF Write
<1>2. wrote \in Seq(Lines) /\ pipe \in Seq(Lines)
  BY DEF TypeOK, StreamType, ReaderType
<1>3. /\ wrote' \in Seq(Lines) /\ Len(wrote') = Len(wrote) + 1
      /\ \A i \in 1 .. Len(wrote) : wrote'[i] = wrote[i]
      /\ wrote'[Len(wrote) + 1] = l
      /\ pipe' \in Seq(Lines) /\ Len(pipe') = Len(pipe) + 1 /\ pipe' # <<>>
      /\ \A i \in 1 .. Len(pipe) : pipe'[i] = pipe[i]
      /\ pipe'[Len(pipe) + 1] = l
  BY <1>1, <1>2, AppendProperties
<1>4. TypeOK'
  <2>1. StreamType' /\ ReaderType'
    BY <1>3 DEF Write, TypeOK, StreamType, ReaderType
  <2>2. ChannelsType'
    BY DEF Write, TypeOK, ChannelsType
  <2>3. CallType'
    BY DEF Write, TypeOK, CallType
  <2> QED
    BY <2>1, <2>2, <2>3 DEF TypeOK
<1>5. NoLineLost'
  <2>1. Row(lines, held, pipe) /\ Row(lines', held', pipe') /\ lines' = lines /\ held' = held
    BY <1>2, <1>3, PartsAreLines, RowFacts DEF Write
  <2>2. /\ Len(Underway) \in Nat /\ Len(Underway) <= Len(wrote) /\ Len(wrote) \in Nat
        /\ Len(lines) \in Nat /\ Len(held) \in Nat /\ Len(pipe) \in Nat
    BY <1>2, <2>1, PartsAreLines, LenProperties DEF NoLineLost, Row, Underway
  <2>3. Len(Underway') = Len(Underway) + 1
    BY <1>3, <2>1, <2>2 DEF Row, Underway
  <2>4. Taken' = Taken /\ Taken \in 0 .. Len(wrote)
    BY <1>3, <2>2, <2>3 DEF Taken
  <2>5. Underway' = Append(Underway, l)
    <3>1. lines \in Seq(Lines) /\ held \in Seq(Lines) /\ pipe \in Seq(Lines)
      BY PartsAreLines
    <3> QED
      BY <1>1, <2>1, <3>1, AppendToRow DEF Underway
  <2>6. /\ \A i \in 1 .. Len(Underway) : Underway'[i] = Underway[i]
        /\ Underway'[Len(Underway) + 1] = l /\ DOMAIN Underway' = 1 .. Len(Underway) + 1
    BY <2>1, <2>5, AppendProperties, <2>3 DEF Row, Underway
  <2>7. Matches(Taken)' = Matches(Taken)
    BY <1>1, <1>2, <2>4, MatchesOfOldLines
  <2>8. \A i \in DOMAIN Underway' : Underway'[i] = wrote'[Taken' + i]
    <3> TAKE i \in DOMAIN Underway'
    <3>1. CASE i = Len(Underway) + 1
      BY <1>3, <2>2, <2>4, <2>6, <3>1 DEF Taken
    <3>2. CASE i \in 1 .. Len(Underway)
      <4>1. Taken + i \in 1 .. Len(wrote) /\ i \in DOMAIN Underway
        BY <2>1, <2>2, <2>4, <3>2 DEF Taken, Row, Underway
      <4> QED
        BY <1>3, <2>4, <2>6, <3>2, <4>1 DEF NoLineLost
    <3> QED
      BY <2>2, <2>6, <3>1, <3>2
  <2> QED
    BY <1>3, <2>2, <2>3, <2>4, <2>7, <2>8 DEF NoLineLost, Write, Taken
<1>6. StreamSafe'
  BY <1>1, <1>2, <1>3, HeadTailAppend DEF Write, StreamSafe
<1> QED
  BY <1>4, <1>5, <1>6

\* Most steps of the caller touch neither the lines nor the goroutine.
LEMMA LogsFailKeeps == ASSUME LogInv, LogsFail PROVE LogInv'
<1> USE DEF LogInv, LogsFail, Return, stream, reader, channels
<1>1. TypeOK'
  <2>1. StreamType' /\ ReaderType'
    BY DEF TypeOK, StreamType, ReaderType
  <2>2. ChannelsType' /\ CallType'
    BY DEF TypeOK, ChannelsType, CallType
  <2> QED
    BY <2>1, <2>2 DEF TypeOK
<1>2. NoLineLost'
  BY LinesStay DEF Underway
<1>3. StreamSafe'
  BY DEF TypeOK, ReaderType, CallType, StreamSafe
<1> QED
  BY <1>1, <1>2, <1>3

LEMMA OpenLogsKeeps == ASSUME LogInv, OpenLogs PROVE LogInv'
<1> USE DEF LogInv, OpenLogs, ReturnClosed, Return, channels
<1>1. TypeOK'
  BY DEF TypeOK, StreamType, ReaderType, ChannelsType, CallType
<1>2. NoLineLost'
  BY LinesStay DEF Underway
<1>3. StreamSafe'
  BY DEF TypeOK, ReaderType, CallType, StreamSafe
<1> QED
  BY <1>1, <1>2, <1>3

LEMMA ContextEndsKeeps == ASSUME LogInv, ContextEnds PROVE LogInv'
<1> USE DEF LogInv, ContextEnds, ReturnClosed, Return, reader, channels
<1>1. TypeOK'
  BY DEF TypeOK, StreamType, ReaderType, ChannelsType, CallType
<1>2. NoLineLost'
  BY LinesStay DEF Underway
<1>3. StreamSafe'
  BY DEF TypeOK, ReaderType, CallType, StreamSafe
<1> QED
  BY <1>1, <1>2, <1>3

LEMMA StreamEndedKeeps == ASSUME LogInv, StreamEnded PROVE LogInv'
<1> USE DEF LogInv, StreamEnded, ReturnClosed, Return, reader, channels
<1>1. TypeOK'
  BY DEF TypeOK, StreamType, ReaderType, ChannelsType, CallType
<1>2. NoLineLost'
  BY LinesStay DEF Underway
<1>3. StreamSafe'
  BY DEF TypeOK, ReaderType, CallType, StreamSafe
<1> QED
  BY <1>1, <1>2, <1>3

LEMMA ScanEndsKeeps == ASSUME LogInv, ScanEnds PROVE LogInv'
<1> USE DEF LogInv, ScanEnds, stream, channels, call
<1>1. TypeOK'
  <2>1. StreamType' /\ ChannelsType' /\ CallType'
    BY DEF TypeOK, StreamType, ChannelsType, CallType
  <2>2. ReaderType'
    BY DEF TypeOK, ReaderType
  <2> QED
    BY <2>1, <2>2 DEF TypeOK
<1>2. NoLineLost'
  BY LinesStay DEF Underway
<1>3. StreamSafe'
  <2>1. scanner = "scan" /\ ~failed /\ ~closed /\ scanner' = "close" /\ UNCHANGED <<pipe, held>>
    BY DEF StreamSafe
  <2>2. CASE pipe = <<>> /\ Eof /\ UNCHANGED failed
    BY <2>1, <2>2 DEF StreamSafe, Eof
  <2>3. CASE pipe # <<>> /\ Head(pipe) = "long" /\ failed' = TRUE
    BY <2>1, <2>3 DEF StreamSafe
  <2> QED
    BY <2>2, <2>3
<1> QED
  BY <1>1, <1>2, <1>3

LEMMA CloseLinesKeeps == ASSUME LogInv, CloseLines PROVE LogInv'
<1> USE DEF LogInv, CloseLines, stream, call
<1>1. TypeOK'
  <2>1. StreamType' /\ ReaderType'
    BY DEF TypeOK, StreamType, ReaderType
  <2>2. ChannelsType' /\ CallType'
    BY DEF TypeOK, ChannelsType, CallType
  <2> QED
    BY <2>1, <2>2 DEF TypeOK
<1>2. NoLineLost'
  BY LinesStay DEF Underway
<1>3. StreamSafe'
  BY DEF TypeOK, ReaderType, CallType, StreamSafe
<1> QED
  BY <1>1, <1>2, <1>3

LEMMA ReportErrorKeeps == ASSUME LogInv, ReportError PROVE LogInv'
<1> USE DEF LogInv, ReportError, stream, call
<1>1. TypeOK'
  <2>1. StreamType' /\ ReaderType'
    BY DEF TypeOK, StreamType, ReaderType
  <2>2. ChannelsType' /\ CallType'
    BY DEF TypeOK, ChannelsType, CallType
  <2> QED
    BY <2>1, <2>2 DEF TypeOK
<1>2. NoLineLost'
  BY LinesStay DEF Underway
<1>3. StreamSafe'
  BY DEF TypeOK, ReaderType, CallType, StreamSafe
<1> QED
  BY <1>1, <1>2, <1>3

\* Neither do those of the environment that write no line.
LEMMA WorldKeeps == ASSUME LogInv, WriteStderr \/ Exit \/ Expire PROVE LogInv'
<1> USE DEF LogInv, WriteStderr, Exit, Expire, stream, reader, channels, call
<1>1. TypeOK'
  <2>1. StreamType'
    BY DEF TypeOK, StreamType
  <2>2. ReaderType'
    BY DEF TypeOK, ReaderType
  <2>3. ChannelsType'
    BY DEF TypeOK, ChannelsType
  <2>4. CallType'
    BY DEF TypeOK, CallType
  <2> QED
    BY <2>1, <2>2, <2>3, <2>4 DEF TypeOK
<1>2. NoLineLost'
  BY LinesStay DEF Underway
<1>3. StreamSafe'
  <2>1. UNCHANGED <<scanner, held, failed, pipe, lines, closed, at, count, occurrence, result>>
    OBVIOUS
  <2>2. process' = process \/ (process = "running" /\ process' = "exited")
    OBVIOUS
  <2> QED
    BY <2>1, <2>2 DEF StreamSafe
<1> QED
  BY <1>1, <1>2, <1>3
LEMMA HeadFirst ==
  ASSUME NEW s \in Seq(Lines), s # <<>>
  PROVE  <<Head(s)>> \in Seq(Lines) /\ Tail(s) \in Seq(Lines) /\ s = <<Head(s)>> \o Tail(s)
<1> DEFINE h == <<Head(s)>>
           t == Tail(s)
<1>1. /\ Head(s) \in Lines /\ t \in Seq(Lines) /\ Len(t) = Len(s) - 1
      /\ \A i \in 1 .. Len(t) : t[i] = s[i + 1]
      /\ Head(s) = s[1] /\ Len(s) \in Nat
  BY HeadTailProperties, LenProperties
<1>2. h \in Seq(Lines) /\ Len(h) = 1 /\ h[1] = s[1]
  BY <1>1
<1> HIDE DEF h, t
<1>3. /\ h \o t \in Seq(Lines) /\ Len(h \o t) = Len(h) + Len(t)
      /\ \A i \in 1 .. Len(h) + Len(t) : (h \o t)[i] = IF i <= Len(h) THEN h[i] ELSE t[i - Len(h)]
  <2>1. h \in Seq(Lines) /\ t \in Seq(Lines)
    BY <1>1, <1>2
  <2> QED
    BY <2>1, ConcatProperties
<1>4. Len(h \o t) = Len(s)
  BY <1>1, <1>2, <1>3
<1>5. \A i \in 1 .. Len(s) : (h \o t)[i] = s[i]
  BY <1>1, <1>2, <1>3
<1>6. h \o t = s
  BY <1>3, <1>4, <1>5, SeqEqual
<1> QED
  BY <1>1, <1>2, <1>6 DEF h, t

\* The scanner passes a line on, from the pipe to its hand.
LEMMA ScanLineKeeps == ASSUME LogInv, ScanLine PROVE LogInv'
<1> USE DEF LogInv, ScanLine, stream, channels, call
<1>1. pipe # <<>> /\ lines \in Seq(Lines) /\ pipe \in Seq(Lines) /\ held = <<>>
  BY PartsAreLines DEF StreamSafe
<1>2. /\ <<Head(pipe)>> \in Seq(Lines) /\ Tail(pipe) \in Seq(Lines)
      /\ pipe = <<Head(pipe)>> \o Tail(pipe) /\ Head(pipe) \in Lines
  BY <1>1, HeadFirst, HeadTailProperties
<1>3. TypeOK'
  <2>1. StreamType' /\ ChannelsType' /\ CallType'
    BY DEF TypeOK, StreamType, ChannelsType, CallType
  <2>2. ReaderType'
    BY <1>2 DEF TypeOK, ReaderType, Lines
  <2> QED
    BY <2>1, <2>2 DEF TypeOK
<1>4. NoLineLost'
  <2>1. Underway = lines \o pipe
    BY <1>1, ConcatEmptySeq DEF Underway
  <2>2. Underway' = lines \o (<<Head(pipe)>> \o Tail(pipe))
    BY <1>1, <1>2, ConcatAssociative DEF Underway
  <2>3. Underway' = Underway
    BY <1>2, <2>1, <2>2
  <2> QED
    BY <2>3, LinesStay
<1>5. StreamSafe'
  BY DEF StreamSafe
<1> QED
  BY <1>3, <1>4, <1>5

\* From its hand to the channel, if there is room.
LEMMA SendKeeps == ASSUME LogInv, Send PROVE LogInv'
<1> USE DEF LogInv, Send, stream, call
<1>1. /\ lines \in Seq(Lines) /\ pipe \in Seq(Lines) /\ held \in Seq(Lines)
      /\ held \in {<<"match">>, <<"other">>}
  BY PartsAreLines DEF StreamSafe, TypeOK, ReaderType
<1>2. TypeOK'
  <2>1. StreamType' /\ CallType'
    BY DEF TypeOK, StreamType, CallType
  <2>2. ReaderType'
    BY DEF TypeOK, ReaderType
  <2>3. lines \in Seq(Short) /\ held \in Seq(Short) /\ Len(held) = 1
    BY <1>1 DEF TypeOK, ChannelsType, Short
  <2>4. lines' \in Seq(Short) /\ Len(lines') = Len(lines) + 1 /\ Len(lines) \in Nat
    <3>1. lines' = lines \o held
      OBVIOUS
    <3>2. lines \o held \in Seq(Short) /\ Len(lines \o held) = Len(lines) + Len(held)
      BY <2>3, ConcatProperties
    <3>3. Len(lines) \in Nat
      BY <2>3, LenProperties
    <3> QED
      BY <2>3, <3>1, <3>2, <3>3
  <2>5. ChannelsType'
    BY <2>4, LogAssumption DEF TypeOK, ChannelsType, Short
  <2> QED
    BY <2>1, <2>2, <2>5 DEF TypeOK
<1>3. NoLineLost'
  <2>1. lines \o held \in Seq(Lines)
    BY <1>1, ConcatProperties
  <2>2. Underway' = Underway
    BY <2>1, ConcatEmptySeq DEF Underway
  <2> QED
    BY <2>2, LinesStay
<1>4. StreamSafe'
  BY DEF StreamSafe
<1> QED
  BY <1>2, <1>3, <1>4

\* The caller takes the first of the lines under way, and counts it if it matches.
LEMMA TakeLineKeeps == ASSUME LogInv, TakeLine PROVE LogInv'
<1> USE DEF LogInv, reader
<1> DEFINE h == Head(lines)
<1>1. /\ lines # <<>> /\ lines' = Tail(lines) /\ at = "select" /\ result = "none"
      /\ UNCHANGED <<wrote, stderr, pipe, scanner, held, failed, closed, reported, ctx, occurrence, valid>>
  BY DEF TakeLine, StreamSafe, TypeOK, CallType
<1>2. /\ lines \in Seq(Lines) /\ pipe \in Seq(Lines) /\ held \in Seq(Lines)
      /\ <<h>> \in Seq(Lines) /\ Len(<<h>>) = 1 /\ Tail(lines) \in Seq(Lines)
      /\ lines = <<h>> \o Tail(lines)
  BY <1>1, PartsAreLines, HeadFirst
<1>3. Underway' \in Seq(Lines) /\ Underway = <<h>> \o Underway'
  <2>1. Tail(lines) \o held \in Seq(Lines)
    BY <1>2, ConcatProperties
  <2>2. lines \o held = <<h>> \o (Tail(lines) \o held)
    BY <1>2, ConcatAssociative
  <2>3. (lines \o held) \o pipe = <<h>> \o ((Tail(lines) \o held) \o pipe)
    BY <1>2, <2>1, <2>2, ConcatAssociative
  <2> QED
    BY <1>1, <1>2, <2>1, <2>3, ConcatProperties DEF Underway
<1>4. /\ Len(Underway) = Len(Underway') + 1 /\ Len(Underway') \in Nat
      /\ Underway[1] = h
      /\ \A i \in 1 .. Len(Underway') : Underway[i + 1] = Underway'[i]
      /\ DOMAIN Underway' = 1 .. Len(Underway') /\ DOMAIN Underway = 1 .. Len(Underway)
  <2> HIDE DEF h
  <2>1. /\ Len(Underway) = 1 + Len(Underway') /\ Underway \in Seq(Lines)
        /\ \A i \in 1 .. 1 + Len(Underway') :
             Underway[i] = IF i <= 1 THEN <<h>>[i] ELSE Underway'[i - 1]
    BY <1>2, <1>3, ConcatProperties
  <2> QED
    BY <1>3, <2>1, LenProperties
<1>5. wrote \in Seq(Lines) /\ Len(wrote) \in Nat
  BY LenProperties DEF TypeOK, StreamType
<1>6. Taken \in Nat /\ Taken' = Taken + 1 /\ wrote[Taken + 1] = h
  BY <1>1, <1>4, <1>5 DEF Taken, NoLineLost
<1>7. count' = IF h = "match" THEN count + 1 ELSE count
  BY DEF TakeLine
<1>8. NoLineLost'
  <2>1. count' = Matches(Taken + 1)
    BY <1>5, <1>6, <1>7, MatchesStep DEF NoLineLost
  <2>2. count' = Matches(Taken)'
    BY <1>1, <1>6, <2>1 DEF Matches
  <2>3. \A i \in DOMAIN Underway' : Underway'[i] = wrote[Taken + 1 + i]
    <3> TAKE i \in DOMAIN Underway'
    <3>1. i \in Nat /\ i + 1 \in DOMAIN Underway /\ Underway'[i] = Underway[i + 1]
      BY <1>4
    <3>2. Underway[i + 1] = wrote[Taken + (i + 1)]
      BY <3>1 DEF NoLineLost
    <3> QED
      BY <1>6, <3>1, <3>2
  <2> QED
    BY <1>1, <1>4, <1>5, <1>6, <2>2, <2>3 DEF NoLineLost
<1>9. TypeOK'
  <2>1. StreamType' /\ ReaderType'
    BY <1>1 DEF TypeOK, StreamType, ReaderType, TakeLine, ReturnClosed
  <2>2. lines \in Seq(Short) /\ Len(lines) \in Nat /\ Len(lines) <= Cap
    BY LenProperties DEF TypeOK, ChannelsType, Short
  <2>3. lines' \in Seq(Short) /\ Len(lines') = Len(lines) - 1
    BY <1>1, <2>2, HeadTailProperties
  <2>4. ChannelsType'
    BY <1>1, <2>2, <2>3, LogAssumption DEF TypeOK, ChannelsType, Short
  <2>5. CallType'
    <3>1. count \in Nat /\ count' \in Nat
      <4>1. count \in Nat
        BY DEF TypeOK, CallType
      <4> HIDE DEF h
      <4> QED
        BY <1>7, <4>1
    <3>2. \/ at' = at /\ result' = result
          \/ at' = "returned" /\ result' = "nil"
      BY DEF TakeLine, ReturnClosed, Return
    <3> QED
      BY <1>1, <3>1, <3>2 DEF TypeOK, CallType
  <2> QED
    BY <2>1, <2>4, <2>5 DEF TypeOK
<1>10. StreamSafe'
  BY <1>1, <1>7, LogAssumption DEF StreamSafe, TakeLine, ReturnClosed, Return, Reached, TypeOK, CallType, StreamType
<1> QED
  BY <1>8, <1>9, <1>10

LEMMA NextKeeps == LogInv /\ [Next]_vars => LogInv'
<1> SUFFICES ASSUME LogInv, [Next]_vars PROVE LogInv'
  OBVIOUS
<1>1. CASE Call
  BY <1>1, LogsFailKeeps, OpenLogsKeeps, ContextEndsKeeps, TakeLineKeeps, StreamEndedKeeps DEF Call
<1>2. CASE Scan
  BY <1>2, ScanLineKeeps, SendKeeps, ScanEndsKeeps, CloseLinesKeeps, ReportErrorKeeps DEF Scan
<1>3. CASE Write
  BY <1>3, WriteKeeps
<1>4. CASE WriteStderr \/ Exit \/ Expire
  BY <1>4, WorldKeeps
<1>5. CASE UNCHANGED vars
  <2>1. TypeOK'
    <3> USE DEF LogInv, TypeOK, vars
    <3>1. StreamType'
      BY <1>5 DEF StreamType, stream
    <3>2. ReaderType'
      BY <1>5 DEF ReaderType, reader
    <3>3. ChannelsType'
      BY <1>5 DEF ChannelsType, channels
    <3>4. CallType'
      BY <1>5 DEF CallType, call
    <3> QED
      BY <3>1, <3>2, <3>3, <3>4
  <2>2. NoLineLost'
    BY <1>5, LinesStay DEF Underway, vars, stream, reader, channels, call
  <2>3. StreamSafe'
    BY <1>5 DEF LogInv, StreamSafe, vars, stream, reader, channels, call
  <2> QED
    BY <2>1, <2>2, <2>3 DEF LogInv
<1> QED
  BY <1>1, <1>2, <1>3, <1>4, <1>5 DEF Next

\* No line is lost, doubled or overtaken between the process and the count, the channel is
\* closed only at the end of the stream, and the count stops at what was asked for
\* (log.go:48-106): for any capacity, any occurrence and any number of lines.
THEOREM LogInvariant == Spec => []LogInv
<1>1. Init => LogInv
  BY InitInv
<1> QED
  BY <1>1, NextKeeps, PTL DEF Spec
\* io.EOF is returned only when what was written was not enough, or not a line.
LEMMA EofInv == LogInv => EofMeansTooFew
<1> SUFFICES ASSUME LogInv, result = "eof", ~TooLong PROVE ~Enough
  BY DEF EofMeansTooFew
<1>1. /\ closed /\ lines = <<>> /\ held = <<>> /\ (count = 0 \/ count < occurrence)
      /\ scanner \in {"report", "ended"} /\ wrote \in Seq(Lines)
  BY DEF LogInv, StreamSafe, TypeOK, StreamType
<1>2. Row(lines, held, pipe) /\ Len(lines) = 0 /\ Len(held) = 0
  BY <1>1, UnderwayFacts, ShortLines DEF LogInv
<1>3. pipe \in Seq(Lines) /\ Len(pipe) \in Nat /\ Len(wrote) \in Nat /\ Len(Underway) = Len(pipe)
  BY <1>1, <1>2, LenProperties DEF LogInv, TypeOK, ReaderType, Row, Underway
<1>4. ~failed
  <2> SUFFICES ASSUME failed PROVE FALSE
    OBVIOUS
  <2>1. pipe # <<>> /\ Head(pipe) = "long"
    BY DEF LogInv, StreamSafe
  <2>2. Len(pipe) >= 1 /\ pipe[1] = "long"
    BY <1>3, <2>1
  <2>3. Underway[1] = "long" /\ 1 \in DOMAIN Underway
    BY <1>2, <1>3, <2>2 DEF Row, Underway
  <2>4. wrote[Taken + 1] = "long" /\ Taken + 1 \in 1 .. Len(wrote)
    BY <1>3, <2>2, <2>3 DEF LogInv, NoLineLost, Taken
  <2> QED
    BY <1>1, <2>4, LenProperties DEF TooLong
<1>5. pipe = <<>>
  BY <1>1, <1>4 DEF LogInv, StreamSafe
<1>6. Taken = Len(wrote) /\ count = Matches(Len(wrote))
  BY <1>3, <1>5 DEF LogInv, NoLineLost, Taken
<1>7. occurrence \in Nat /\ count \in Nat
  BY LogAssumption DEF LogInv, TypeOK, CallType
<1> QED
  BY <1>1, <1>6, <1>7 DEF Enough

\* The end of the stream does not overtake lines that would have been enough, though the
\* channel may be closed while they are still in it (log.go:83-92).
THEOREM EofIsHonest == Spec => []EofMeansTooFew
BY LogInvariant, EofInv, PTL

\* Lines are not unwritten: what was enough stays so.
LEMMA EnoughLasts ==
  ASSUME LogInv, Write, Enough
  PROVE  Enough'
<1>1. PICK l \in Lines : wrote' = Append(wrote, l)
  BY DEF Write
<1>2. wrote \in Seq(Lines) /\ Len(wrote) \in Nat /\ occurrence \in Nat /\ occurrence' = occurrence
  BY LenProperties, LogAssumption DEF LogInv, TypeOK, StreamType, CallType, Write, call
<1>3. /\ wrote' \in Seq(Lines) /\ Len(wrote') = Len(wrote) + 1
      /\ \A i \in 1 .. Len(wrote) : wrote'[i] = wrote[i]
  BY <1>1, <1>2, AppendProperties
<1> DEFINE S(w, n) == {i \in 1 .. n : w[i] = "match"}
<1>4. S(wrote, Len(wrote)) \subseteq S(wrote', Len(wrote) + 1)
  BY <1>2, <1>3
<1>5. IsFiniteSet(1 .. Len(wrote) + 1) /\ S(wrote', Len(wrote) + 1) \subseteq 1 .. Len(wrote) + 1
  BY <1>2, FS_Interval
<1>6. IsFiniteSet(S(wrote', Len(wrote) + 1))
  BY <1>5, FS_Subset
<1>7. /\ Cardinality(S(wrote, Len(wrote))) <= Cardinality(S(wrote', Len(wrote) + 1))
      /\ Cardinality(S(wrote, Len(wrote))) \in Nat
      /\ Cardinality(S(wrote', Len(wrote) + 1)) \in Nat
  BY <1>4, <1>6, FS_Subset, FS_CardinalityType
<1>8. Matches(Len(wrote)) <= Matches(Len(wrote))' /\ Matches(Len(wrote)) \in Nat /\ Matches(Len(wrote))' \in Nat
  BY <1>3, <1>7 DEF Matches
<1> QED
  BY <1>2, <1>8 DEF Enough

\* The caller counts no more matches than were written.
LEMMA NilMeansEnough ==
  ASSUME LogInv, TakeLine, result' = "nil"
  PROVE  Enough
<1>1. /\ lines # <<>> /\ Head(lines) = "match" /\ count' = count + 1 /\ count' >= occurrence
      /\ wrote \in Seq(Lines) /\ Len(wrote) \in Nat /\ count \in Nat /\ occurrence \in Nat
  <2>1. result # "nil"
    BY DEF LogInv, StreamSafe, TakeLine
  <2> QED
    BY <2>1, LenProperties, LogAssumption
    DEF TakeLine, Reached, ReturnClosed, Return, LogInv, TypeOK, StreamType, CallType
<1>2. LogInv' /\ count' = Matches(Taken)' /\ wrote' = wrote
  BY TakeLineKeeps DEF LogInv, NoLineLost, TakeLine
<1>3. Taken' \in Nat /\ Taken' <= Len(wrote) /\ Matches(Taken') = count'
  <2>1. Row(lines, held, pipe)'
    <3>1. lines \in Seq(Lines) /\ held \in Seq(Lines) /\ pipe \in Seq(Lines)
      BY PartsAreLines DEF LogInv
    <3>2. lines' \in Seq(Lines) /\ UNCHANGED <<held, pipe>>
      BY <1>1, <3>1, HeadTailProperties DEF TakeLine, reader
    <3>3. held' \in Seq(Lines) /\ pipe' \in Seq(Lines)
      BY <3>1, <3>2
    <3>4. Row(lines', held', pipe')
      BY <3>2, <3>3, RowFacts
    <3> QED
      BY <3>4 DEF Row
  <2>2. Underway' \in Seq(Lines) /\ Len(Underway') <= Len(wrote)
    BY <1>2, <2>1 DEF Row, Underway, LogInv, NoLineLost
  <2>3. Len(Underway') \in Nat
    BY <2>2, LenProperties
  <2> QED
    BY <1>1, <1>2, <2>2, <2>3 DEF Taken, Matches
<1>4. Matches(Taken') <= Matches(Len(wrote)) /\ Matches(Len(wrote)) \in Nat
  BY <1>1, <1>3, MatchesGrow, MatchesStep
<1> QED
  BY <1>1, <1>3, <1>4 DEF Enough

\* ForLog keeps the safety of the contract of a strategy: nil only after the pattern has
\* been written as often as it was asked for, and one answer (wait.go:9-11).
THEOREM ForLogIsAStrategy == Spec => Contract!Safe
<1> DEFINE seen == IF result \in {"none", "nil"} THEN result ELSE "err"
<1>1. Init => Contract!Init
  BY DEF Init, Contract!Init, Enough
<1>2. LogInv /\ [Next]_vars => [Contract!Next]_Contract!vars
  <2> SUFFICES ASSUME LogInv, [Next]_vars PROVE [Contract!Next]_Contract!vars
    OBVIOUS
  <2> USE DEF Contract!Next, Contract!vars
  <2>1. ASSUME UNCHANGED <<wrote, occurrence>> PROVE Enough' = Enough
    BY <2>1 DEF Enough, Matches
  <2>2. CASE LogsFail \/ ContextEnds \/ StreamEnded
    <3>1. /\ result = "none" /\ result' \in {"err", "eof", "stream error"}
          /\ UNCHANGED <<wrote, occurrence, ctx>>
      BY <2>2 DEF LogsFail, ContextEnds, StreamEnded, ReturnClosed, Return, LogInv, StreamSafe, stream, reader
    <3> QED
      BY <2>1, <3>1 DEF Contract!Fail
  <2>3. CASE OpenLogs
    <3>1. /\ result = "none" /\ result' \in {"none", "err"}
          /\ UNCHANGED <<wrote, occurrence, ctx>>
      BY <2>3 DEF OpenLogs, ReturnClosed, Return, LogInv, StreamSafe
    <3> QED
      BY <2>1, <3>1 DEF Contract!Fail
  <2>4. CASE TakeLine
    <3>1. /\ result = "none" /\ result' \in {"none", "nil"}
          /\ UNCHANGED <<wrote, occurrence, ctx>>
      BY <2>4 DEF TakeLine, ReturnClosed, Return, LogInv, StreamSafe
    <3> QED
      BY <2>1, <2>4, <3>1, NilMeansEnough DEF Contract!Ready
  <2>5. CASE Scan \/ WriteStderr \/ Exit \/ UNCHANGED vars
    <3>1. UNCHANGED <<wrote, occurrence, ctx, result>>
      BY <2>5 DEF Scan, ScanLine, Send, ScanEnds, CloseLines, ReportError, WriteStderr, Exit,
                  vars, stream, call
    <3> QED
      BY <2>1, <3>1
  <2>6. CASE Expire
    <3>1. UNCHANGED <<wrote, occurrence, result>> /\ ctx = "live" /\ ctx' = "done"
      BY <2>6 DEF Expire, stream, call
    <3> QED
      BY <2>1, <3>1 DEF Contract!Expire
  <2>7. CASE Write
    <3>1. UNCHANGED <<ctx, result>> /\ Enough \in BOOLEAN /\ Enough' \in BOOLEAN
      BY <2>7 DEF Write, call, Enough
    <3>2. Enough => Enough'
      BY <2>7, EnoughLasts
    <3> QED
      BY <3>1, <3>2 DEF Contract!Meet
  <2> QED
    BY <2>2, <2>3, <2>4, <2>5, <2>6, <2>7 DEF Next, Call
<1> QED
  BY <1>1, <1>2, LogInvariant, PTL DEF Spec, Contract!Safe
=============================================================================
