-------------------------- MODULE P1ServiceProofs --------------------------
(***************************************************************************)
(* Theorems about P1Service and the trace log it switches on, for any      *)
(* configuration, any number of servers and any lines: the types, the      *)
(* order of the start, and where the bytes of the log are stored.          *)
(***************************************************************************)
EXTENDS P1Service, SequenceTheorems, WellFoundedInduction, TLAPS

(***************************************************************************)
(* The text of a sequence of lines.                                        *)
(***************************************************************************)
\* A set of numbers has a least one: what the inductions below rest on.
LEMMA LeastElement ==
    ASSUME NEW S \in SUBSET Nat, S # {}
    PROVE  \E m \in S : \A j \in S : m <= j
<1>1. PICK m \in S : \A j \in S : ~(<<j, m>> \in OpToRel(<, Nat))
      BY NatLessThanWellFounded, WFMin
<1>2. \A j \in S : ~(j < m) BY <1>1 DEF OpToRel
<1>. QED BY <1>2

\* f[i] is the text of the first i parts.
Joins(f, parts, n) ==
    /\ f = [i \in 1 .. n |-> f[i]]
    /\ \A i \in 1 .. n : f[i] = IF i = 1 THEN parts[i] ELSE f[i - 1] \o parts[i]

LEMMA JoinExists ==
    ASSUME NEW parts, NEW n \in Nat
    PROVE  \E f : Joins(f, parts, n)
<1>. DEFINE Bad == {m \in Nat : ~ \E f : Joins(f, parts, m)}
<1>1. SUFFICES ASSUME Bad # {} PROVE FALSE OBVIOUS
<1>2. PICK m \in Bad : \A j \in Bad : m <= j BY <1>1, LeastElement
<1>3. Joins([i \in 1 .. 0 |-> 0], parts, 0) BY DEF Joins
<1>4. m # 0 /\ m \in Nat BY <1>2, <1>3
<1>5. m - 1 \in Nat /\ m - 1 \notin Bad BY <1>2, <1>4
<1>6. PICK f : Joins(f, parts, m - 1) BY <1>5
<1>. DEFINE last == IF m = 1 THEN parts[m] ELSE f[m - 1] \o parts[m]
            g == [i \in 1 .. m |-> IF i < m THEN f[i] ELSE last]
<1>7. \A i \in 1 .. m : g[i] = IF i = 1 THEN parts[i] ELSE g[i - 1] \o parts[i]
  <2>1. SUFFICES ASSUME NEW i \in 1 .. m
                 PROVE  g[i] = IF i = 1 THEN parts[i] ELSE g[i - 1] \o parts[i]
        OBVIOUS
  <2>2. CASE i < m
    <3>1. i \in 1 .. m - 1 BY <1>4, <2>2
    <3>2. g[i] = f[i] /\ (i # 1 => g[i - 1] = f[i - 1]) BY <1>4, <2>2
    <3>3. f[i] = IF i = 1 THEN parts[i] ELSE f[i - 1] \o parts[i] BY <1>6, <3>1 DEF Joins
    <3>. QED BY <3>2, <3>3
  <2>3. CASE i = m
    <3>1. g[m] = last BY <1>4
    <3>2. m # 1 => g[m - 1] = f[m - 1] BY <1>4
    <3>. QED BY <2>3, <3>1, <3>2
  <2>. QED BY <1>4, <2>2, <2>3
<1>8. g = [i \in 1 .. m |-> g[i]] OBVIOUS
<1>. HIDE DEF g
<1>9. Joins(g, parts, m) BY <1>7, <1>8 DEF Joins
<1>. QED BY <1>2, <1>9

\* Two that join the same parts agree, as far as the parts are the same.
LEMMA JoinUnique ==
    ASSUME NEW f, NEW g, NEW p, NEW q, NEW n \in Nat, NEW o \in Nat, o <= n,
           Joins(f, p, n), Joins(g, q, o), \A i \in 1 .. o : p[i] = q[i]
    PROVE  \A i \in 1 .. o : f[i] = g[i]
<1>. DEFINE Bad == {i \in 1 .. o : f[i] # g[i]}
<1>1. SUFFICES ASSUME Bad # {} PROVE FALSE OBVIOUS
<1>2. Bad \in SUBSET Nat OBVIOUS
<1>3. PICK m \in Bad : \A j \in Bad : m <= j BY <1>1, <1>2, LeastElement
<1>4. m \in 1 .. o /\ m \in 1 .. n /\ f[m] # g[m] BY <1>3
<1>5. m # 1 => f[m - 1] = g[m - 1]
  <2>1. SUFFICES ASSUME m # 1 PROVE m - 1 \in 1 .. o /\ m - 1 \notin Bad OBVIOUS
  <2>. QED BY <1>3, <1>4, <2>1
<1>6. f[m] = IF m = 1 THEN p[m] ELSE f[m - 1] \o p[m] BY <1>4 DEF Joins
<1>7. g[m] = IF m = 1 THEN q[m] ELSE g[m - 1] \o q[m] BY <1>4 DEF Joins
<1>. QED BY <1>4, <1>5, <1>6, <1>7

LEMMA JoinType ==
    ASSUME NEW S, NEW f, NEW p, NEW n \in Nat, Joins(f, p, n), \A i \in 1 .. n : p[i] \in Seq(S)
    PROVE  \A i \in 1 .. n : f[i] \in Seq(S)
<1>. DEFINE Bad == {i \in 1 .. n : f[i] \notin Seq(S)}
<1>1. SUFFICES ASSUME Bad # {} PROVE FALSE OBVIOUS
<1>2. Bad \in SUBSET Nat OBVIOUS
<1>3. PICK m \in Bad : \A j \in Bad : m <= j BY <1>1, <1>2, LeastElement
<1>4. m \in 1 .. n /\ f[m] \notin Seq(S) /\ p[m] \in Seq(S) BY <1>3
<1>5. m # 1 => f[m - 1] \in Seq(S)
  <2>1. SUFFICES ASSUME m # 1 PROVE m - 1 \in 1 .. n /\ m - 1 \notin Bad OBVIOUS
  <2>. QED BY <1>3, <1>4, <2>1
<1>6. f[m] = IF m = 1 THEN p[m] ELSE f[m - 1] \o p[m] BY <1>4 DEF Joins
<1>7. m # 1 => f[m - 1] \o p[m] \in Seq(S) BY <1>4, <1>5, ConcatProperties
<1>. QED BY <1>4, <1>6, <1>7

LEMMA FlattenJoins ==
    ASSUME NEW parts, Len(parts) \in Nat \ {0}
    PROVE  \E f : Joins(f, parts, Len(parts)) /\ FlattenSeq(parts) = f[Len(parts)]
<1>. DEFINE n == Len(parts)
            F(f) == f = [i \in 1 .. n |-> IF i = 1 THEN parts[i] ELSE f[i - 1] \o parts[i]]
            c == CHOOSE f : F(f)
<1>1. PICK f : Joins(f, parts, n) BY JoinExists
<1>2. F(f) BY <1>1 DEF Joins
<1>3. F(c) BY <1>2
<1>4. FlattenSeq(parts) = c[n] BY DEF FlattenSeq
<1>5. Joins(c, parts, n)
  <2>. DEFINE h == c
  <2>1. h = [i \in 1 .. n |-> IF i = 1 THEN parts[i] ELSE h[i - 1] \o parts[i]] BY <1>3
  <2>. HIDE DEF h
  <2>2. Joins(h, parts, n) BY <2>1 DEF Joins
  <2>. QED BY <2>2 DEF h
<1>. QED BY <1>4, <1>5

Bytes(l) == [b \in 1 .. Length[l] |-> l]

Parts(lines) == [i \in DOMAIN lines |-> Bytes(lines[i])]

LEMMA BytesType == \A l \in Line : Bytes(l) \in Seq(Line) /\ Bytes(l) # <<>>
<1>1. SUFFICES ASSUME NEW l \in Line PROVE Bytes(l) \in Seq(Line) /\ Bytes(l) # <<>> OBVIOUS
<1>2. Length[l] \in Nat \ {0} BY LogAssumption
<1>3. Bytes(l) \in [1 .. Length[l] -> Line] BY DEF Bytes
<1>4. Bytes(l) \in Seq(Line) /\ Len(Bytes(l)) = Length[l] BY <1>2, <1>3
<1>. QED BY <1>2, <1>4

LEMMA PartsOf ==
    ASSUME NEW lines \in Seq(Line)
    PROVE  /\ TextOf(lines) = FlattenSeq(Parts(lines))
           /\ Len(Parts(lines)) = Len(lines)
           /\ Parts(lines) \in Seq(Seq(Line))
           /\ \A i \in 1 .. Len(lines) : Parts(lines)[i] = Bytes(lines[i])
<1>1. TextOf(lines) = FlattenSeq(Parts(lines)) BY DEF TextOf, Parts, Bytes
<1>2. \A i \in 1 .. Len(lines) : lines[i] \in Line OBVIOUS
<1>3. Parts(lines) \in [1 .. Len(lines) -> Seq(Line)] BY <1>2, BytesType DEF Parts
<1>4. Parts(lines) \in Seq(Seq(Line)) /\ Len(Parts(lines)) = Len(lines) BY <1>3
<1>5. \A i \in 1 .. Len(lines) : Parts(lines)[i] = Bytes(lines[i]) BY DEF Parts
<1>. QED BY <1>1, <1>4, <1>5

LEMMA TextEmpty == TextOf(<<>>) = <<>>
<1>1. <<>> \in Seq(Line) /\ Len(<<>>) = 0 OBVIOUS
<1>. DEFINE e == <<>>
<1>. HIDE DEF e
<1>2. e \in Seq(Line) /\ Len(e) = 0 BY <1>1 DEF e
<1>3. Len(Parts(e)) = 0 /\ Parts(e) \in Seq(Seq(Line)) /\ TextOf(e) = FlattenSeq(Parts(e))
      BY <1>2, PartsOf
<1>4. Parts(e) = <<>> BY <1>3
<1>5. FlattenSeq(Parts(e)) = Parts(e) BY <1>3 DEF FlattenSeq
<1>. QED BY <1>3, <1>4, <1>5 DEF e

LEMMA TextType ==
    ASSUME NEW lines \in Seq(Line) PROVE TextOf(lines) \in Text
<1>. DEFINE p == Parts(lines)
<1>1. CASE Len(lines) = 0
  <2>1. lines = <<>> BY <1>1
  <2>. QED BY <2>1, TextEmpty DEF Text
<1>2. CASE Len(lines) # 0
  <2>1. Len(p) = Len(lines) /\ Len(p) \in Nat \ {0} BY <1>2, PartsOf
  <2>2. \A i \in 1 .. Len(p) : p[i] \in Seq(Line) BY PartsOf
  <2>3. TextOf(lines) = FlattenSeq(p) BY PartsOf
  <2>. HIDE DEF p
  <2>4. PICK f : Joins(f, p, Len(p)) /\ FlattenSeq(p) = f[Len(p)] BY <2>1, FlattenJoins
  <2>5. \A i \in 1 .. Len(p) : f[i] \in Seq(Line) BY <2>1, <2>2, <2>4, JoinType
  <2>. QED BY <2>1, <2>3, <2>4, <2>5 DEF Text
<1>. QED BY <1>1, <1>2

LEMMA TextOne ==
    ASSUME NEW l \in Line PROVE TextOf(<<l>>) = Bytes(l)
<1>. DEFINE one == <<l>>
            p == Parts(one)
<1>1. one \in Seq(Line) /\ Len(one) = 1 /\ one[1] = l OBVIOUS
<1>. HIDE DEF one
<1>2. Len(p) = 1 /\ p[1] = Bytes(l) /\ TextOf(one) = FlattenSeq(p) BY <1>1, PartsOf
<1>. HIDE DEF p
<1>3. PICK f : Joins(f, p, 1) /\ FlattenSeq(p) = f[1] 
  <2>1. Len(p) \in Nat \ {0} BY <1>2
  <2>2. \E f : Joins(f, p, Len(p)) /\ FlattenSeq(p) = f[Len(p)] BY <2>1, FlattenJoins
  <2>. QED BY <1>2, <2>2
<1>4. f[1] = p[1] BY <1>3 DEF Joins
<1>. QED BY <1>2, <1>3, <1>4 DEF one

\* A line put at the end of a list is put at the end of its text.
LEMMA TextAppend ==
    ASSUME NEW lines \in Seq(Line), NEW l \in Line
    PROVE  TextOf(Append(lines, l)) = TextOf(lines) \o TextOf(<<l>>)
<1>. DEFINE p == Parts(lines)
            q == Parts(Append(lines, l))
            n == Len(lines)
<1>1. /\ Append(lines, l) \in Seq(Line) /\ Len(Append(lines, l)) = n + 1 /\ n \in Nat
      /\ Append(lines, l)[n + 1] = l
      /\ \A i \in 1 .. n : Append(lines, l)[i] = lines[i]
      OBVIOUS
<1>2. /\ Len(q) = n + 1 /\ TextOf(Append(lines, l)) = FlattenSeq(q)
      /\ \A i \in 1 .. n + 1 : q[i] = Bytes(Append(lines, l)[i])
      BY <1>1, PartsOf
<1>3. Len(p) = n /\ TextOf(lines) = FlattenSeq(p) /\ \A i \in 1 .. n : p[i] = Bytes(lines[i])
      BY PartsOf
<1>4. q[n + 1] = Bytes(l) /\ \A i \in 1 .. n : p[i] = q[i] BY <1>1, <1>2, <1>3
<1>5. n \in Nat BY <1>1
<1>. HIDE DEF p, q, n
<1>6. PICK g : Joins(g, q, n + 1) /\ FlattenSeq(q) = g[n + 1] BY <1>2, <1>5, FlattenJoins
<1>7. CASE n = 0
  <2>1. lines = <<>> BY <1>7 DEF n
  <2>2. FlattenSeq(q) = Bytes(l) BY <1>4, <1>6, <1>7 DEF Joins
  <2>3. TextOf(lines) \o Bytes(l) = Bytes(l)
    <3>1. Bytes(l) \in Seq(Line) BY BytesType
    <3>2. <<>> \o Bytes(l) = Bytes(l) BY <3>1, ConcatEmptySeq
    <3>. QED BY <2>1, <3>2, TextEmpty
  <2>. QED BY <1>2, <2>2, <2>3, TextOne
<1>8. CASE n # 0
  <2>1. PICK f : Joins(f, p, n) /\ FlattenSeq(p) = f[n] BY <1>3, <1>5, <1>8, FlattenJoins
  <2>2. \A i \in 1 .. n : g[i] = f[i] BY <1>4, <1>5, <1>6, <2>1, JoinUnique
  <2>3. g[n + 1] = g[n] \o q[n + 1]
    <3>1. n + 1 \in 1 .. n + 1 /\ n + 1 # 1 /\ (n + 1) - 1 = n BY <1>5, <1>8
    <3>. QED BY <1>6, <3>1 DEF Joins
  <2>4. g[n] = f[n] BY <1>5, <1>8, <2>2
  <2>. QED BY <1>2, <1>3, <1>4, <1>6, <2>1, <2>3, <2>4, TextOne
<1>. QED BY <1>7, <1>8

-----------------------------------------------------------------------------
(***************************************************************************)
(* The trace log.                                                          *)
(***************************************************************************)
\* The bytes of a text that were not freed are those of the lines said, when the
\* text is stored at an offset.
Fits(at, text) ==
    \A i \in 1 .. Len(text) :
        text[i] # Torn => at + i <= Len(said) /\ said[at + i] = text[i]

\* What was said is what was stored or lost, then the text of the thread, then
\* the list; the offset counts the first part.
TextPlaced ==
    /\ pcLog = "out" => log = <<>>
    /\ pcLog = "write" => log # <<>>
    /\ \E b \in Seq(Line) :
          /\ said = (b \o log) \o TextOf(logList)
          /\ Len(said) <= OffsetSize => Offset = Len(b) \/ Len(b) = OffsetSize

WritesInPlace == Len(said) <= OffsetSize => \A w \in writes : Fits(w.at, w.text)

LogInv == LogTypeOK /\ TextPlaced /\ WritesInPlace /\ LinesInPlace

LEMMA InitLog == LogInit => LogInv
<1>. SUFFICES ASSUME LogInit PROVE LogInv OBVIOUS
<1>1. <<>> \in Seq(Line) /\ Len(<<>>) = 0 /\ <<>> \o <<>> = <<>> /\ DOMAIN <<>> = {}
      OBVIOUS
<1>2. OffsetSize \in Nat \ {0} BY LogAssumption
<1>3. LogTypeOK
  <2>1. \A S : <<>> \in [{} -> S] OBVIOUS
  <2>2. file \in [DOMAIN file -> Line \cup {Torn}] /\ DOMAIN file \subseteq Nat
        BY <1>1, <2>1 DEF LogInit
  <2>3. 0 \in 0 .. OffsetSize - 1 BY <1>2
  <2>. QED BY <1>1, <2>2, <2>3 DEF LogInit, LogTypeOK, Text
<1>4. TextPlaced BY <1>1, TextEmpty DEF LogInit, TextPlaced
<1>5. WritesInPlace /\ LinesInPlace BY <1>1 DEF LogInit, WritesInPlace, LinesInPlace
<1>. QED BY <1>3, <1>4, <1>5 DEF LogInv

\* The invariant, as long as the text, its list and its place stay.
LEMMA LogSame == ASSUME LogInv, UNCHANGED logVars PROVE LogInv'
<1>1. UNCHANGED <<runFlag, logList, pcInit, logTask, pcLog, log, Offset, writes,
                  file, printed, said>>
      BY DEF logVars, initVars, threadVars, outputVars
<1>2. LogTypeOK' BY <1>1 DEF LogInv, LogTypeOK
<1>3. TextPlaced' BY <1>1 DEF LogInv, TextPlaced
<1>4. WritesInPlace' /\ LinesInPlace' BY <1>1 DEF LogInv, WritesInPlace, LinesInPlace, Fits
<1>. QED BY <1>2, <1>3, <1>4 DEF LogInv

LEMMA InitIocpTaskLog == ASSUME LogInv, InitIocpTask PROVE LogInv'
<1>1. /\ UNCHANGED <<logList, pcLog, log, Offset, writes, file, printed, said>>
      /\ runFlag' \in BOOLEAN /\ logTask' \in BOOLEAN
      /\ pcInit' \in {"off", "file", "task", "register", "flag", "true", "false"}
      BY DEF LogInv, LogTypeOK, InitIocpTask, CreateLogFile, AddLogTask, RegisterLogFile,
             SwitchOn, threadVars, outputVars
<1>2. LogTypeOK' BY <1>1 DEF LogInv, LogTypeOK
<1>3. TextPlaced' BY <1>1 DEF LogInv, TextPlaced
<1>4. WritesInPlace' /\ LinesInPlace' BY <1>1 DEF LogInv, WritesInPlace, LinesInPlace, Fits
<1>. QED BY <1>2, <1>3, <1>4 DEF LogInv

\* What is said later leaves the bytes said before where they are.
LEMMA SaidLonger ==
    ASSUME LogInv, NEW t \in Text, said' = said \o t, UNCHANGED <<writes, file>>
    PROVE  WritesInPlace' /\ LinesInPlace' /\ said' \in Text
<1>1. /\ said \in Seq(Line) /\ said' \in Seq(Line)
      /\ Len(said') = Len(said) + Len(t) /\ Len(t) \in Nat /\ Len(said) \in Nat
      /\ \A i \in 1 .. Len(said) : said'[i] = said[i]
      BY DEF LogInv, LogTypeOK, Text
<1>2. OffsetSize \in Nat BY LogAssumption
<1>3. Len(said') <= OffsetSize => Len(said) <= OffsetSize BY <1>1, <1>2
<1>4. ASSUME Len(said') <= OffsetSize, NEW w \in writes'
      PROVE  Fits(w.at, w.text)'
  <2>1. w \in writes /\ w.at \in Nat /\ w.text \in Seq(Line)
        BY LogAssumption DEF LogInv, LogTypeOK, Text
  <2>2. Fits(w.at, w.text) BY <1>3, <1>4, <2>1 DEF LogInv, WritesInPlace
  <2>3. ASSUME NEW i \in 1 .. Len(w.text), w.text[i] # Torn
        PROVE  w.at + i <= Len(said') /\ said'[w.at + i] = w.text[i]
    <3>1. w.at + i <= Len(said) /\ said[w.at + i] = w.text[i] BY <2>2, <2>3 DEF Fits
    <3>2. w.at + i \in 1 .. Len(said) BY <1>1, <2>1, <3>1
    <3>. QED BY <1>1, <3>1, <3>2
  <2>. QED BY <2>3 DEF Fits
<1>5. ASSUME Len(said') <= OffsetSize, NEW p \in DOMAIN file', file'[p] # Torn
      PROVE  p < Len(said') /\ file'[p] = said'[p + 1]
  <2>1. p \in Nat /\ p \in DOMAIN file /\ file'[p] = file[p] BY DEF LogInv, LogTypeOK
  <2>2. p < Len(said) /\ file[p] = said[p + 1] BY <1>3, <1>5, <2>1 DEF LogInv, LinesInPlace
  <2>3. p + 1 \in 1 .. Len(said) BY <1>1, <2>1, <2>2
  <2>. QED BY <1>1, <2>1, <2>2, <2>3
<1>6. WritesInPlace' BY <1>4 DEF WritesInPlace
<1>7. LinesInPlace' BY <1>5 DEF LinesInPlace
<1>. QED BY <1>1, <1>6, <1>7 DEF Text

LEMMA TRACELOGLog == ASSUME LogInv, NEW l \in Line, TRACELOG(l) PROVE LogInv'
<1>1. UNCHANGED <<runFlag, pcInit, logTask, pcLog, log, Offset, writes, file>>
      BY DEF TRACELOG, initVars, threadVars
<1>2. CASE runFlag
  <2>1. logList' = Append(logList, l) /\ said' = said \o TextOf(<<l>>) /\ printed' = printed
        BY <1>2 DEF TRACELOG
  <2>2. logList \in Seq(Line) BY DEF LogInv, LogTypeOK
  <2>3. TextOf(<<l>>) \in Text
    <3>1. <<l>> \in Seq(Line) OBVIOUS
    <3>. QED BY <3>1, TextType
  <2>4. WritesInPlace' /\ LinesInPlace' /\ said' \in Text BY <1>1, <2>1, <2>3, SaidLonger
  <2>5. logList' \in Seq(Line) BY <2>1, <2>2
  <2>6. LogTypeOK' BY <1>1, <2>1, <2>4, <2>5 DEF LogInv, LogTypeOK
  <2>7. TextPlaced'
    <3>1. PICK b \in Seq(Line) :
             /\ said = (b \o log) \o TextOf(logList)
             /\ Len(said) <= OffsetSize => Offset = Len(b) \/ Len(b) = OffsetSize
          BY DEF LogInv, TextPlaced
    <3>2. /\ b \o log \in Seq(Line) /\ TextOf(logList) \in Seq(Line)
          /\ TextOf(<<l>>) \in Seq(Line) /\ said \in Seq(Line)
          BY <2>2, <2>3, TextType DEF LogInv, LogTypeOK, Text
    <3>3. said' = (b \o log) \o (TextOf(logList) \o TextOf(<<l>>))
      <4>. DEFINE x == b \o log
                  y == TextOf(logList)
                  z == TextOf(<<l>>)
      <4>1. x \in Seq(Line) /\ y \in Seq(Line) /\ z \in Seq(Line) BY <3>2
      <4>2. said' = (x \o y) \o z BY <2>1, <3>1
      <4>. HIDE DEF x, y, z
      <4>3. (x \o y) \o z = x \o (y \o z) BY <4>1, ConcatAssociative
      <4>. QED BY <4>2, <4>3 DEF x, y, z
    <3>4. said' = (b \o log') \o TextOf(logList') BY <1>1, <2>1, <2>2, <3>3, TextAppend
    <3>5. Len(said') = Len(said) + Len(TextOf(<<l>>)) /\ Len(said) \in Nat
          /\ Len(TextOf(<<l>>)) \in Nat
          BY <2>1, <3>2
    <3>6. OffsetSize \in Nat BY LogAssumption
    <3>7. Len(said') <= OffsetSize => Offset' = Len(b) \/ Len(b) = OffsetSize
          BY <1>1, <3>1, <3>5, <3>6
    <3>8. (pcLog' = "out" => log' = <<>>) /\ (pcLog' = "write" => log' # <<>>)
          BY <1>1 DEF LogInv, TextPlaced
    <3>. QED BY <3>4, <3>7, <3>8 DEF TextPlaced
  <2>. QED BY <2>4, <2>6, <2>7 DEF LogInv
<1>3. CASE ~runFlag
  <2>1. UNCHANGED <<logList, said>> /\ printed' = printed \cup {l} BY <1>3 DEF TRACELOG
  <2>2. LogTypeOK' BY <1>1, <2>1 DEF LogInv, LogTypeOK
  <2>3. TextPlaced' BY <1>1, <2>1 DEF LogInv, TextPlaced
  <2>4. WritesInPlace' /\ LinesInPlace'
        BY <1>1, <2>1 DEF LogInv, WritesInPlace, LinesInPlace, Fits
  <2>. QED BY <2>2, <2>3, <2>4 DEF LogInv
<1>. QED BY <1>2, <1>3

LEMMA StoredType ==
    ASSUME LogTypeOK, NEW at \in Nat, NEW text \in Seq(Line \cup {Torn})
    PROVE  /\ DOMAIN Stored(at, text) = (at .. at + Len(text) - 1) \cup DOMAIN file
           /\ \A p \in at .. at + Len(text) - 1 : Stored(at, text)[p] = text[p - at + 1]
           /\ \A p \in DOMAIN file : p \notin at .. at + Len(text) - 1
                                        => Stored(at, text)[p] = file[p]
           /\ DOMAIN Stored(at, text) \subseteq Nat
           /\ Stored(at, text) \in [DOMAIN Stored(at, text) -> Line \cup {Torn}]
<1>. DEFINE D == at .. at + Len(text) - 1
<1>1. Stored(at, text) = [p \in D \cup DOMAIN file |->
                            IF p \in D THEN text[p - at + 1] ELSE file[p]]
      BY DEF Stored
<1>2. \A p \in D : text[p - at + 1] \in Line \cup {Torn}
  <2>1. SUFFICES ASSUME NEW p \in D PROVE text[p - at + 1] \in Line \cup {Torn} OBVIOUS
  <2>2. p - at + 1 \in 1 .. Len(text) OBVIOUS
  <2>. QED BY <2>2
<1>3. D \subseteq Nat OBVIOUS
<1>4. file \in [DOMAIN file -> Line \cup {Torn}] /\ DOMAIN file \subseteq Nat BY DEF LogTypeOK
<1>. QED BY <1>1, <1>2, <1>3, <1>4

\* A text that fits its place keeps the file as it should be.
LEMMA StoredInPlace ==
    ASSUME LogTypeOK, LinesInPlace, Len(said) <= OffsetSize,
           NEW at \in Nat, NEW text \in Seq(Line \cup {Torn}), Fits(at, text),
           NEW p \in DOMAIN Stored(at, text), Stored(at, text)[p] # Torn
    PROVE  p < Len(said) /\ Stored(at, text)[p] = said[p + 1]
<1>1. CASE p \in at .. at + Len(text) - 1
  <2>. DEFINE i == p - at + 1
  <2>1. i \in 1 .. Len(text) /\ at + i = p + 1 /\ p \in Nat BY <1>1
  <2>2. Stored(at, text)[p] = text[i] BY <1>1, StoredType
  <2>3. p + 1 <= Len(said) /\ said[p + 1] = text[i] BY <2>1, <2>2 DEF Fits
  <2>4. Len(said) \in Nat BY DEF LogTypeOK, Text
  <2>. QED BY <2>1, <2>2, <2>3, <2>4
<1>2. CASE p \notin at .. at + Len(text) - 1
  <2>1. p \in DOMAIN file /\ Stored(at, text)[p] = file[p] BY <1>2, StoredType
  <2>. QED BY <2>1 DEF LinesInPlace
<1>. QED BY <1>1, <1>2

LEMMA DrainListLog == ASSUME LogInv, DrainList PROVE LogInv'
<1>1. /\ UNCHANGED <<runFlag, pcInit, logTask, Offset, writes, file, printed, said>>
      /\ log' = TextOf(logList)
      /\ pcLog' = IF log' # <<>> THEN "write" ELSE "out"
      /\ logList' = SubSeq(logList, Len(logList) + 1, Len(logList))
      /\ pcLog = "out"
      BY DEF DrainList, Drained, initVars, outputVars
<1>2. logList \in Seq(Line) BY DEF LogInv, LogTypeOK
<1>3. logList' = <<>> BY <1>1, <1>2
<1>4. log' \in Text BY <1>1, <1>2, TextType
<1>5. LogTypeOK' 
  <2>1. logList' \in Seq(Line) BY <1>3
  <2>. QED BY <1>1, <1>4, <2>1 DEF LogInv, LogTypeOK
<1>6. TextPlaced'
  <2>1. PICK b \in Seq(Line) :
           /\ said = (b \o log) \o TextOf(logList)
           /\ Len(said) <= OffsetSize => Offset = Len(b) \/ Len(b) = OffsetSize
        BY DEF LogInv, TextPlaced
  <2>2. log = <<>> BY <1>1 DEF LogInv, TextPlaced
  <2>3. b \o log = b BY <2>2, ConcatEmptySeq
  <2>4. (b \o log') \o <<>> = b \o log'
    <3>1. b \o log' \in Seq(Line) BY <1>4 DEF Text
    <3>. QED BY <3>1, ConcatEmptySeq
  <2>5. said' = (b \o log') \o TextOf(logList') BY <1>1, <1>3, <2>1, <2>3, <2>4, TextEmpty
  <2>. QED BY <1>1, <2>1, <2>5 DEF TextPlaced
<1>7. WritesInPlace' /\ LinesInPlace' BY <1>1 DEF LogInv, WritesInPlace, LinesInPlace, Fits
<1>. QED BY <1>5, <1>6, <1>7 DEF LogInv

\* The offset is where the text of the thread belongs, until it wraps around.
LEMMA OffsetFits ==
    ASSUME LogInv, pcLog = "write", Len(said) <= OffsetSize PROVE Fits(Offset, log)
<1>1. PICK b \in Seq(Line) :
         /\ said = (b \o log) \o TextOf(logList)
         /\ Offset = Len(b) \/ Len(b) = OffsetSize
      BY DEF LogInv, TextPlaced
<1>. DEFINE r == TextOf(logList)
<1>2. log \in Seq(Line) /\ r \in Seq(Line) /\ b \o log \in Seq(Line)
      BY TextType DEF LogInv, LogTypeOK, Text
<1>3. OffsetSize \in Nat /\ log # <<>> BY LogAssumption DEF LogInv, TextPlaced
<1>. HIDE DEF r
<1>4. said = (b \o log) \o r BY <1>1 DEF r
<1>5. Len(said) = Len(b) + Len(log) + Len(r) /\ Len(b \o log) = Len(b) + Len(log)
      /\ Len(log) \in Nat \ {0} /\ Len(b) \in Nat /\ Len(r) \in Nat
      BY <1>2, <1>3, <1>4
<1>6. Offset = Len(b) BY <1>1, <1>3, <1>5
<1>7. ASSUME NEW i \in 1 .. Len(log)
      PROVE  Offset + i <= Len(said) /\ said[Offset + i] = log[i]
  <2>1. Offset + i \in 1 .. Len(b \o log) /\ Offset + i = Len(b) + i /\ Offset + i <= Len(said)
        BY <1>5, <1>6
  <2>2. said[Offset + i] = (b \o log)[Offset + i] BY <1>2, <1>4, <2>1, ConcatProperties
  <2>3. (b \o log)[Len(b) + i] = log[i] BY <1>2, <1>5
  <2>. QED BY <2>1, <2>2, <2>3
<1>. QED BY <1>7 DEF Fits

LEMMA WriteFileLog == ASSUME LogInv, WriteFile PROVE LogInv'
<1>1. /\ UNCHANGED <<runFlag, logList, pcInit, logTask, log, Offset, printed, said>>
      /\ pcLog = "write" /\ pcLog' = "advance"
      BY DEF WriteFile, initVars
<1>2. /\ Offset \in Nat /\ Offset \in 0 .. OffsetSize - 1 /\ log \in Seq(Line)
      /\ log \in Seq(Line \cup {Torn})
  <2>1. OffsetSize \in Nat BY LogAssumption
  <2>2. log \in Seq(Line) /\ Offset \in 0 .. OffsetSize - 1 BY DEF LogInv, LogTypeOK, Text
  <2>3. log \in Seq(Line \cup {Torn}) BY <2>2
  <2>. QED BY <2>1, <2>2, <2>3
<1>3. TextPlaced' BY <1>1 DEF LogInv, TextPlaced
<1>4. CASE file' = Stored(Offset, log) /\ writes' = writes
  <2>1. LogTypeOK'
    <3>1. DOMAIN file' \subseteq Nat /\ file' \in [DOMAIN file' -> Line \cup {Torn}]
          BY <1>2, <1>4, StoredType DEF LogInv
    <3>. QED BY <1>1, <1>4, <3>1 DEF LogInv, LogTypeOK
  <2>2. LinesInPlace'
    <3>1. ASSUME Len(said) <= OffsetSize, NEW p \in DOMAIN file', file'[p] # Torn
          PROVE  p < Len(said) /\ file'[p] = said[p + 1]
          BY <1>1, <1>2, <1>4, <3>1, OffsetFits, StoredInPlace DEF LogInv
    <3>. QED BY <1>1, <3>1 DEF LinesInPlace
  <2>3. WritesInPlace' BY <1>1, <1>4 DEF LogInv, WritesInPlace, Fits
  <2>. QED BY <1>3, <2>1, <2>2, <2>3 DEF LogInv
<1>5. CASE /\ writes' = writes \cup {[at |-> Offset, text |-> log, freed |-> FALSE]}
           /\ file' = file
  <2>1. [at |-> Offset, text |-> log, freed |-> FALSE]
           \in [at : 0 .. OffsetSize - 1, text : Text, freed : BOOLEAN]
        BY <1>2 DEF Text
  <2>2. LogTypeOK' BY <1>1, <1>5, <2>1 DEF LogInv, LogTypeOK
  <2>3. LinesInPlace' BY <1>1, <1>5 DEF LogInv, LinesInPlace
  <2>4. ASSUME Len(said) <= OffsetSize, NEW w \in writes' PROVE Fits(w.at, w.text)'
    <3>1. Fits(w.at, w.text)
      <4>1. CASE w \in writes BY <2>4, <4>1 DEF LogInv, WritesInPlace
      <4>2. CASE w.at = Offset /\ w.text = log BY <1>1, <2>4, <4>2, OffsetFits
      <4>. QED BY <1>5, <4>1, <4>2
    <3>. QED BY <1>1, <3>1 DEF Fits
  <2>5. WritesInPlace' BY <1>1, <2>4 DEF WritesInPlace
  <2>. QED BY <1>3, <2>2, <2>3, <2>5 DEF LogInv
<1>6. CASE UNCHANGED <<file, writes>>
  <2>1. LogTypeOK' BY <1>1, <1>6 DEF LogInv, LogTypeOK
  <2>2. WritesInPlace' /\ LinesInPlace'
        BY <1>1, <1>6 DEF LogInv, WritesInPlace, LinesInPlace, Fits
  <2>. QED BY <1>3, <2>1, <2>2 DEF LogInv
<1>. QED BY <1>4, <1>5, <1>6 DEF WriteFile

LEMMA AdvanceOffsetLog == ASSUME LogInv, AdvanceOffset PROVE LogInv'
<1>1. /\ UNCHANGED <<runFlag, logList, pcInit, logTask, file, printed, said>>
      /\ pcLog' = "out" /\ log' = <<>> /\ Offset' = (Offset + Len(log)) % OffsetSize
      /\ writes' = {[w EXCEPT !.freed = TRUE] : w \in writes}
      BY DEF AdvanceOffset, Advanced, initVars, outputVars
<1>2. OffsetSize \in Nat \ {0} /\ log \in Seq(Line) /\ Offset \in Nat
      BY LogAssumption DEF LogInv, LogTypeOK, Text
<1>3. Offset' \in 0 .. OffsetSize - 1 BY <1>1, <1>2
<1>4. \A v \in writes' : \E w \in writes : /\ v.at = w.at /\ v.text = w.text
                                           /\ v \in [at : 0 .. OffsetSize - 1, text : Text,
                                                     freed : BOOLEAN]
      BY <1>1 DEF LogInv, LogTypeOK
<1>5. LogTypeOK'
  <2>1. log' \in Text BY <1>1 DEF Text
  <2>. QED BY <1>1, <1>3, <1>4, <2>1 DEF LogInv, LogTypeOK
<1>6. TextPlaced'
  <2>1. PICK b \in Seq(Line) :
           /\ said = (b \o log) \o TextOf(logList)
           /\ Len(said) <= OffsetSize => Offset = Len(b) \/ Len(b) = OffsetSize
        BY DEF LogInv, TextPlaced
  <2>. DEFINE c == b \o log
              r == TextOf(logList)
  <2>2. c \in Seq(Line) /\ Len(c) = Len(b) + Len(log) /\ Len(b) \in Nat /\ Len(log) \in Nat
        BY <1>2
  <2>3. r \in Seq(Line) BY TextType DEF LogInv, LogTypeOK, Text
  <2>. HIDE DEF c, r
  <2>4. said = c \o r BY <2>1 DEF c, r
  <2>5. Len(said) = Len(c) + Len(r) /\ Len(r) \in Nat
    <3>1. Len(c \o r) = Len(c) + Len(r) BY <2>2, <2>3
    <3>2. Len(r) \in Nat BY <2>3
    <3>. QED BY <2>4, <3>1, <3>2
  <2>6. c \o log' = c BY <1>1, <2>2, ConcatEmptySeq
  <2>7. said' = (c \o log') \o TextOf(logList') BY <1>1, <2>4, <2>6 DEF r
  <2>8. ASSUME Len(said) <= OffsetSize PROVE Offset' = Len(c) \/ Len(c) = OffsetSize
    <3>1. CASE Len(b) = OffsetSize BY <1>2, <2>2, <2>5, <2>8, <3>1
    <3>2. CASE Offset = Len(b)
      <4>1. Offset + Len(log) = Len(c) /\ Len(c) \in 0 .. OffsetSize
            BY <1>2, <2>2, <2>5, <2>8, <3>2
      <4>2. CASE Len(c) # OffsetSize
        <5>1. Len(c) \in 0 .. OffsetSize - 1 BY <1>2, <4>1, <4>2
        <5>2. Len(c) % OffsetSize = Len(c) BY <1>2, <5>1
        <5>. QED BY <1>1, <4>1, <5>2
      <4>. QED BY <4>2
    <3>. QED BY <2>1, <2>8, <3>1, <3>2
  <2>. QED BY <1>1, <2>2, <2>7, <2>8 DEF TextPlaced
<1>7. WritesInPlace' BY <1>1, <1>4 DEF LogInv, WritesInPlace, Fits
<1>8. LinesInPlace' BY <1>1 DEF LogInv, LinesInPlace
<1>. QED BY <1>5, <1>6, <1>7, <1>8 DEF LogInv

LEMMA WriteEndsLog == ASSUME LogInv, WriteEnds PROVE LogInv'
<1>1. PICK w \in writes :
         /\ writes' = writes \ {w}
         /\ \/ file' = Stored(w.at, w.text)
            \/ w.freed /\ file' = Stored(w.at, [b \in DOMAIN w.text |-> Torn])
            \/ UNCHANGED file
         /\ UNCHANGED <<runFlag, logList, initVars, threadVars, printed, said>>
      BY DEF WriteEnds
<1>2. UNCHANGED <<runFlag, logList, pcInit, logTask, pcLog, log, Offset, printed, said>>
      BY <1>1 DEF initVars, threadVars
<1>. DEFINE torn == [b \in DOMAIN w.text |-> Torn]
<1>3. /\ w.at \in Nat /\ w.text \in Seq(Line)
      /\ w.text \in Seq(Line \cup {Torn})
  <2>1. OffsetSize \in Nat BY LogAssumption
  <2>2. w.at \in 0 .. OffsetSize - 1 /\ w.text \in Seq(Line) BY DEF LogInv, LogTypeOK, Text
  <2>. QED BY <2>1, <2>2
<1>4. /\ torn \in Seq(Line \cup {Torn})
      /\ \A i \in 1 .. Len(torn) : torn[i] = Torn
  <2>1. torn \in [1 .. Len(w.text) -> Line \cup {Torn}] /\ Len(w.text) \in Nat BY <1>3
  <2>2. torn \in Seq(Line \cup {Torn}) /\ Len(torn) = Len(w.text) BY <2>1
  <2>. QED BY <1>3, <2>2
<1>. HIDE DEF torn
<1>5. TextPlaced' BY <1>2 DEF LogInv, TextPlaced
<1>6. WritesInPlace' BY <1>1, <1>2 DEF LogInv, WritesInPlace, Fits
<1>7. ASSUME NEW text \in Seq(Line \cup {Torn}), file' = Stored(w.at, text),
             Len(said) <= OffsetSize => Fits(w.at, text)
      PROVE  LogInv'
  <2>1. DOMAIN file' \subseteq Nat /\ file' \in [DOMAIN file' -> Line \cup {Torn}]
        BY <1>3, <1>7, StoredType DEF LogInv
  <2>2. LogTypeOK' BY <1>1, <1>2, <2>1 DEF LogInv, LogTypeOK
  <2>3. ASSUME Len(said) <= OffsetSize, NEW p \in DOMAIN file', file'[p] # Torn
        PROVE  p < Len(said) /\ file'[p] = said[p + 1]
        BY <1>3, <1>7, <2>3, StoredInPlace DEF LogInv
  <2>4. LinesInPlace' BY <1>2, <2>3 DEF LinesInPlace
  <2>. QED BY <1>5, <1>6, <2>2, <2>4 DEF LogInv
<1>8. CASE file' = Stored(w.at, w.text)
  <2>1. Len(said) <= OffsetSize => Fits(w.at, w.text) BY DEF LogInv, WritesInPlace
  <2>. QED BY <1>3, <1>7, <1>8, <2>1
<1>9. CASE file' = Stored(w.at, torn)
  <2>1. Fits(w.at, torn) BY <1>4 DEF Fits
  <2>. QED BY <1>4, <1>7, <1>9, <2>1
<1>10. CASE UNCHANGED file
  <2>1. LogTypeOK' BY <1>1, <1>2, <1>10 DEF LogInv, LogTypeOK
  <2>2. LinesInPlace' BY <1>2, <1>10 DEF LogInv, LinesInPlace
  <2>. QED BY <1>5, <1>6, <2>1, <2>2 DEF LogInv
<1>. QED BY <1>1, <1>8, <1>9, <1>10 DEF torn

LEMMA LogStepLog == ASSUME LogInv, LogStep PROVE LogInv'
BY DrainListLog, WriteFileLog, AdvanceOffsetLog, WriteEndsLog DEF LogStep, TraceLogThread

-----------------------------------------------------------------------------
(***************************************************************************)
(* The start.                                                              *)
(***************************************************************************)
\* The steps at which there is a server that is not in _tcpServers yet.
Making == {"socket", "listen", "accept", "send", "heart", "report"}

\* The steps after WSAStartup and the search for the server's configuration.
Serving == Making \cup {"new", "started"}

PastLog    == Serving \cup {"wsa", "cfg"}
PastPort   == PastLog \cup {"log"}
PastTimers == PastPort \cup {"timerTask", "port"}
PastPool   == PastTimers \cup {"timers"}

\* TypeOK without the log.
StartTypeOK ==
    /\ config \in Configs
    /\ pcStart \in PastPool \cup {"config", "pool", "failed"}
    /\ up \subseteq {"pool", "timers", "port", "wsa"}
    /\ k \in 1 .. Len(config.tcpServer) + 1
    /\ server \in [Server -> {"none", "new", "kept", "deleted"}]
    /\ bound \in [Server -> 0 .. PortSize - 1]
    /\ tasks \subseteq
          {<<"TimerThread", 0>>}
             \cup ({"AcceptThread", "SendThread", "HeartCheckTimer"} \X Server)
    /\ toReport \in 0 .. 2

\* The services come up in the order of the steps and stay up.
UpInOrder ==
    /\ pcStart \notin {"config", "failed"} => config.parsed
    /\ pcStart \in PastPool => "pool" \in up
    /\ pcStart \in PastTimers => "timers" \in up
    /\ pcStart \in PastPort => "port" \in up
    /\ pcStart \in PastLog => runFlag
    /\ pcStart \in Serving \cup {"cfg"} => "wsa" \in up
    /\ pcStart \in Serving => config.found

\* The log is switched on from within the start.
LogInOrder ==
    /\ pcInit # "off" => "pool" \in up
    /\ pcInit = "true" => runFlag
    /\ logTask => pcInit \notin {"off", "file", "task"}

\* The servers before k are kept, k is being made, the others are not there yet.
ServersInOrder ==
    /\ \A s \in Server : s < k => server[s] = "kept"
    /\ pcStart \in Making => k \in Server /\ server[k] = "new"
    /\ pcStart = "started" => k = Len(config.tcpServer) + 1

\* The tasks of the servers before k are all there, those of k as far as it came.
TasksInOrder ==
    /\ \A t \in tasks :
          t[2] # 0 => t[2] < k \/ (t[2] = k /\ pcStart \in {"send", "heart"})
    /\ \A s \in Server : s < k =>
          {"AcceptThread", "SendThread", "HeartCheckTimer"} \X {s} \subseteq tasks
    /\ pcStart \in {"send", "heart"} => <<"AcceptThread", k>> \in tasks
    /\ pcStart = "heart" => <<"SendThread", k>> \in tasks
    /\ \A t \in tasks : Uses(t[1]) \subseteq up
    /\ (\E t \in tasks : t[2] > 0) => runFlag

\* The servers up to k have a socket each.
PortsInOrder ==
    /\ \A s \in Server : s < k => HasPort(s)
    /\ \A s, r \in Server : Ip(s) = Ip(r) /\ bound[s] = bound[r] /\ bound[s] # 0 => s = r
    /\ pcStart \in {"listen", "accept", "send", "heart"} => HasPort(k)

StartInv ==
    StartTypeOK /\ UpInOrder /\ LogInOrder /\ ServersInOrder /\ TasksInOrder /\ PortsInOrder

Inv == LogInv /\ StartInv

LEMMA Steps ==
    /\ Making \subseteq Serving /\ Serving \subseteq PastLog /\ PastLog \subseteq PastPort
    /\ PastPort \subseteq PastTimers /\ PastTimers \subseteq PastPool
    /\ PastPool \cup {"config", "pool", "failed"} =
          {"config", "pool", "timers", "timerTask", "port", "log", "wsa", "cfg",
           "new", "socket", "listen", "accept", "send", "heart", "report",
           "started", "failed"}
BY DEF Making, Serving, PastLog, PastPort, PastTimers, PastPool

LEMMA TypesTogether == LogInv /\ StartInv => TypeOK
BY Steps DEF LogInv, StartInv, StartTypeOK, TypeOK

LEMMA ReadyFromInv == Inv => ReadyBeforeUse
BY DEF Inv, StartInv, TasksInOrder, LogInOrder, ReadyBeforeUse

LEMMA JobsFromInv == Inv => JobsOwnLiveServers
<1>. SUFFICES ASSUME Inv, NEW t \in tasks, t[2] # 0 PROVE server[t[2]] \in {"new", "kept"}
     BY DEF JobsOwnLiveServers
<1>1. t[2] \in Server BY DEF Inv, StartInv, StartTypeOK
<1>2. t[2] < k \/ (t[2] = k /\ pcStart \in {"send", "heart"})
      BY DEF Inv, StartInv, TasksInOrder
<1>. QED BY <1>1, <1>2 DEF Inv, StartInv, ServersInOrder, Making

\* A start that is done came past every server.
LEMMA StartedFromInv == Inv => StartedMeansServing
<1>. SUFFICES ASSUME Inv, pcStart = "started"
              PROVE  /\ config.parsed /\ config.found
                     /\ \A s \in Server :
                           /\ server[s] = "kept"
                           /\ HasPort(s)
                           /\ {"AcceptThread", "SendThread", "HeartCheckTimer"} \X {s}
                                 \subseteq tasks
                     /\ \A s, r \in Server : Ip(s) = Ip(r) /\ bound[s] = bound[r] => s = r
     BY DEF StartedMeansServing
<1>1. config.parsed /\ config.found
      BY DEF Inv, StartInv, UpInOrder, Serving
<1>2. Len(config.tcpServer) \in Nat BY ConfigAssumption DEF Inv, StartInv, StartTypeOK
<1>3. \A s \in Server : s < k BY <1>2 DEF Server, Inv, StartInv, ServersInOrder
<1>. QED BY <1>1, <1>3 DEF Inv, StartInv, ServersInOrder, TasksInOrder, PortsInOrder, HasPort

LEMMA InitStart == Init => StartInv
<1>. SUFFICES ASSUME Init PROVE StartInv OBVIOUS
<1>1. config \in Configs /\ Len(config.tcpServer) \in Nat BY ConfigAssumption DEF Init
<1>2. StartTypeOK BY <1>1, ConfigAssumption DEF Init, StartTypeOK, Server
<1>3. /\ runFlag = FALSE /\ pcInit = "off" /\ logTask = FALSE /\ pcStart = "config"
      /\ k = 1 /\ tasks = {} /\ \A s \in Server : ~(s < k)
      BY DEF Init, LogInit, Server
<1>4. UpInOrder /\ LogInOrder
      BY <1>3 DEF UpInOrder, LogInOrder, PastPool, PastTimers, PastPort, PastLog, Serving, Making
<1>5. ServersInOrder /\ TasksInOrder
      BY <1>3 DEF ServersInOrder, TasksInOrder, Making
<1>6. PortsInOrder BY <1>3 DEF Init, PortsInOrder
<1>. QED BY <1>2, <1>4, <1>5, <1>6 DEF StartInv

\* What the log's steps do to the start.
LogGrows ==
    /\ runFlag => runFlag'
    /\ pcInit' # "off" => pcInit # "off" \/ "pool" \in up
    /\ pcInit' = "true" => runFlag'
    /\ logTask' => pcInit' \notin {"off", "file", "task"}

LEMMA StartSame ==
    ASSUME StartInv, UNCHANGED <<config, pcStart, up, k, server, bound, tasks>>,
           toReport' \in 0 .. 2, LogGrows
    PROVE  StartInv'
<1>1. UNCHANGED <<config, pcStart, up, k, server, bound, tasks, Server>> BY DEF Server
<1>2. \A s : HasPort(s)' = HasPort(s) /\ Ip(s)' = Ip(s) BY <1>1 DEF HasPort, Port, Ip
<1>3. StartTypeOK' BY <1>1 DEF StartInv, StartTypeOK
<1>4. UpInOrder' /\ LogInOrder' BY <1>1 DEF StartInv, UpInOrder, LogInOrder, LogGrows
<1>5. ServersInOrder' BY <1>1 DEF StartInv, ServersInOrder
<1>6. TasksInOrder'
  <2>1. runFlag => runFlag' BY DEF LogGrows
  <2>. QED BY <1>1, <2>1 DEF StartInv, TasksInOrder, Uses
<1>7. PortsInOrder' BY <1>1, <1>2 DEF StartInv, PortsInOrder
<1>. QED BY <1>3, <1>4, <1>5, <1>6, <1>7 DEF StartInv

LEMMA LogStepGrows ==
    ASSUME LogInv, StartInv,
           LogStep \/ InitIocpTask \/ (\E l \in Line : TRACELOG(l)) \/ UNCHANGED logVars
    PROVE  LogGrows
<1>. USE DEF StartInv, LogInOrder
<1>1. CASE UNCHANGED <<runFlag, initVars>>
  <2>1. UNCHANGED <<runFlag, pcInit, logTask>> BY <1>1 DEF initVars
  <2>. QED BY <2>1 DEF LogGrows
<1>2. CASE InitIocpTask
      BY <1>2 DEF InitIocpTask, CreateLogFile, AddLogTask, RegisterLogFile, SwitchOn, LogGrows
<1>3. CASE LogStep
      BY <1>1, <1>3 DEF LogStep, TraceLogThread, DrainList, WriteFile, AdvanceOffset, WriteEnds
<1>4. CASE \E l \in Line : TRACELOG(l) BY <1>1, <1>4 DEF TRACELOG
<1>5. CASE UNCHANGED logVars BY <1>1, <1>5 DEF logVars
<1>. QED BY <1>2, <1>3, <1>4, <1>5

\* A step of the start that leaves the log alone.
LEMMA LogStays ==
    ASSUME UNCHANGED logVars
    PROVE  UNCHANGED <<runFlag, pcInit, logTask>>
BY DEF logVars, initVars

\* A step that brings services up, or none, and makes no server and no task.
LEMMA StartMoves ==
    ASSUME StartInv, UNCHANGED <<logVars, config, k, server, bound, tasks>>,
           toReport' \in 0 .. 2, up \subseteq up',
           up' \subseteq {"pool", "timers", "port", "wsa"},
           pcStart' \in PastPool \cup {"config", "pool", "failed"},
           pcStart \notin {"send", "heart"}, pcStart' \notin {"send", "heart", "started"},
           pcStart' \in Making => pcStart \in Making,
           pcStart' \in {"listen", "accept"} => pcStart = "listen",
           UpInOrder'
    PROVE  StartInv'
<1>1. UNCHANGED <<runFlag, pcInit, logTask, Server>> BY LogStays DEF Server
<1>2. \A s : HasPort(s)' = HasPort(s) /\ Ip(s)' = Ip(s) BY DEF HasPort, Port, Ip
<1>3. StartTypeOK' BY <1>1 DEF StartInv, StartTypeOK
<1>4. LogInOrder' BY <1>1 DEF StartInv, LogInOrder
<1>5. ServersInOrder' BY <1>1 DEF StartInv, ServersInOrder
<1>6. TasksInOrder'
  <2>1. \A t \in tasks : Uses(t[1])' = Uses(t[1]) BY DEF Uses
  <2>. QED BY <1>1, <2>1 DEF StartInv, TasksInOrder
<1>7. PortsInOrder' BY <1>1, <1>2 DEF StartInv, PortsInOrder
<1>. QED BY <1>3, <1>4, <1>5, <1>6, <1>7 DEF StartInv

\* The steps that come before the servers, the tasks apart.
LEMMA EarlySteps ==
    ASSUME Inv,
           \/ ParseConfigFile
           \/ InitThreadPool
           \/ BringUp("timers", TimerCs, "timerTask")
           \/ InitService
           \/ pcInit = "true" /\ Go("log", "wsa")
           \/ pcInit = "false" /\ Go("log", "failed")
           \/ WSAStartup
           \/ GetServerCfg
           \/ Go("listen", "accept")
    PROVE  StartInv' /\ UNCHANGED logVars
<1>. USE DEF Inv
<1>. DEFINE Steady == UNCHANGED <<logVars, config, k, server, bound, tasks, toReport>>
<1>0. toReport \in 0 .. 2 /\ up \subseteq {"pool", "timers", "port", "wsa"}
      BY DEF StartInv, StartTypeOK
<1>. DEFINE To(from, to, service) ==
              Steady /\ pcStart = from /\ pcStart' = to /\ up' = up \cup service
<1>1. \/ To("config", "pool", {}) /\ config.parsed
      \/ \E p \in {"config", "port", "log", "wsa", "cfg"} : To(p, "failed", {})
      \/ To("pool", "timers", {"pool"})
      \/ To("timers", "timerTask", {"timers"})
      \/ To("port", "log", {"port"})
      \/ To("log", "wsa", {}) /\ pcInit = "true"
      \/ To("wsa", "cfg", {"wsa"})
      \/ To("cfg", "new", {}) /\ config.found
      \/ To("listen", "accept", {})
      BY DEF ParseConfigFile, InitThreadPool, InitService, WSAStartup, GetServerCfg, Go,
             BringUp, TimerCs
<1>2. UNCHANGED <<runFlag, pcInit, logTask>> BY <1>1, LogStays
<1>3. UpInOrder'
      BY <1>1, <1>2 DEF StartInv, UpInOrder, LogInOrder, PastPool, PastTimers, PastPort,
                        PastLog, Serving, Making
<1>4. /\ Steady /\ up \subseteq up' /\ up' \subseteq {"pool", "timers", "port", "wsa"}
      /\ pcStart' \in PastPool \cup {"config", "pool", "failed"}
      /\ pcStart \notin {"send", "heart"} /\ pcStart' \notin {"send", "heart", "started"}
      /\ pcStart' \in Making => pcStart \in Making
      /\ pcStart' \in {"listen", "accept"} => pcStart = "listen"
      BY <1>0, <1>1 DEF PastPool, PastTimers, PastPort, PastLog, Serving, Making
<1>. QED BY <1>0, <1>3, <1>4, StartMoves

\* WSASocket, bind and listen.
LEMMA SocketSteps ==
    ASSUME Inv, CreateSocket \/ (pcStart = "listen" /\ FailInitServer(1) /\ UNCHANGED bound)
    PROVE  StartInv' /\ UNCHANGED logVars
<1>. USE DEF Inv
<1>0. /\ k \in Server
      /\ \A p \in Bindable(k) : p \in 0 .. PortSize - 1 /\ p # 0 /\ (Port(k) # 0 => p = Port(k))
  <2>1. k \in Server
        BY DEF CreateSocket, StartInv, ServersInOrder, Making
  <2>2. config.tcpServer \in Seq([ip : Nat, uProt : Nat])
        BY ConfigAssumption DEF StartInv, StartTypeOK
  <2>3. config.tcpServer[k] \in [ip : Nat, uProt : Nat] BY <2>1, <2>2, ElementOfSeq DEF Server
  <2>4. config.tcpServer[k].uProt \in Nat BY <2>3
  <2>5. Port(k) \in 0 .. PortSize - 1 BY <2>4, ConfigAssumption DEF Port
  <2>. QED BY <2>1, <2>5, ConfigAssumption DEF Bindable
<1>1. CASE FailInitServer(1) \/ FailInitServer(2)
  <2>1. /\ pcStart \in {"socket", "listen"} /\ pcStart' = "report" /\ toReport' \in 0 .. 2
        /\ UNCHANGED <<logVars, config, up, k, server, bound, tasks>>
        BY <1>1 DEF CreateSocket, FailInitServer
  <2>2. UNCHANGED runFlag BY <2>1, LogStays
  <2>3. UpInOrder'
        BY <2>1, <2>2 DEF StartInv, UpInOrder, PastPool, PastTimers, PastPort, PastLog,
                          Serving, Making
  <2>4. pcStart' \in PastPool /\ pcStart \in Making
        BY <2>1 DEF PastPool, PastTimers, PastPort, PastLog, Serving, Making
  <2>5. up' \subseteq {"pool", "timers", "port", "wsa"} BY <2>1 DEF StartInv, StartTypeOK
  <2>. QED BY <2>1, <2>3, <2>4, <2>5, StartMoves
<1>2. ASSUME pcStart = "socket", NEW p \in Bindable(k), PortFree(k, p),
             bound' = [bound EXCEPT ![k] = p], pcStart' = "listen",
             UNCHANGED <<logVars, config, up, k, server, tasks, toReport>>
      PROVE  StartInv' /\ UNCHANGED logVars
  <2>1. UNCHANGED <<runFlag, pcInit, logTask, Server>> BY <1>2, LogStays DEF Server
  <2>2. \A s : Port(s)' = Port(s) /\ Ip(s)' = Ip(s) BY <1>2 DEF Port, Ip
  <2>3. StartTypeOK'
        BY <1>0, <1>2, <2>1 DEF StartInv, StartTypeOK, PastPool, PastTimers, PastPort,
                                PastLog, Serving, Making
  <2>4. UpInOrder' /\ LogInOrder'
        BY <1>2, <2>1 DEF StartInv, UpInOrder, LogInOrder, PastPool, PastTimers, PastPort,
                          PastLog, Serving, Making
  <2>5. ServersInOrder' BY <1>2, <2>1 DEF StartInv, ServersInOrder, Making
  <2>6. TasksInOrder'
    <3>1. \A t \in tasks : Uses(t[1])' = Uses(t[1]) BY DEF Uses
    <3>. QED BY <1>2, <2>1, <3>1 DEF StartInv, TasksInOrder
  <2>7. PortsInOrder'
    <3>1. bound'[k] = p /\ \A s \in Server \ {k} : bound'[s] = bound[s]
          BY <1>0, <1>2 DEF StartInv, StartTypeOK
    <3>2. HasPort(k)' BY <1>0, <1>2, <2>2, <3>1 DEF HasPort
    <3>3. ASSUME NEW s \in Server, HasPort(s) PROVE HasPort(s)'
      <4>1. CASE s = k BY <1>0, <1>2, <2>2, <3>1, <4>1 DEF HasPort
      <4>2. CASE s # k
        <5>1. bound'[s] = bound[s] /\ Port(s)' = Port(s) BY <2>2, <3>1, <4>2
        <5>. QED BY <3>3, <5>1 DEF HasPort
      <4>. QED BY <4>1, <4>2
    <3>4. \A s, r \in Server :
             Ip(s)' = Ip(r)' /\ bound'[s] = bound'[r] /\ bound'[s] # 0 => s = r
          BY <1>2, <2>2, <3>1 DEF PortFree, StartInv, PortsInOrder
    <3>. QED BY <1>2, <2>1, <3>2, <3>3, <3>4 DEF StartInv, PortsInOrder
  <2>. QED BY <1>2, <2>3, <2>4, <2>5, <2>6, <2>7 DEF StartInv
<1>. QED BY <1>1, <1>2 DEF CreateSocket, FailInitServer

\* A task is added when all that it uses is up.
LEMMA JobSteps ==
    ASSUME Inv, AddJob("timerTask", "TimerThread", 0, "port") \/ AddServerJobs
    PROVE  StartInv' /\ UNCHANGED logVars
<1>. USE DEF Inv
<1>. DEFINE Job(from, f, s, to) ==
              /\ pcStart = from /\ pcStart' = to
              /\ tasks' = tasks \cup {<<f, s>>}
<1>1. /\ \/ Job("timerTask", "TimerThread", 0, "port")
         \/ Job("accept", "AcceptThread", k, "send")
         \/ Job("send", "SendThread", k, "heart")
      /\ UNCHANGED <<logVars, config, up, k, server, bound, toReport>>
      BY DEF AddJob, AddServerJobs
<1>2. UNCHANGED <<runFlag, pcInit, logTask, Server>> BY <1>1, LogStays DEF Server
<1>3. \A s : HasPort(s)' = HasPort(s) /\ Ip(s)' = Ip(s) BY <1>1 DEF HasPort, Port, Ip
<1>4. pcStart # "timerTask" => k \in Server
      BY <1>1 DEF StartInv, ServersInOrder, Making
<1>5. k \in Nat BY ConfigAssumption DEF StartInv, StartTypeOK
<1>6. StartTypeOK'
      BY <1>1, <1>2, <1>4 DEF StartInv, StartTypeOK, PastPool, PastTimers, PastPort,
                              PastLog, Serving, Making
<1>7. UpInOrder' /\ LogInOrder'
      BY <1>1, <1>2 DEF StartInv, UpInOrder, LogInOrder, PastPool, PastTimers, PastPort,
                        PastLog, Serving, Making
<1>8. ServersInOrder' BY <1>1, <1>2 DEF StartInv, ServersInOrder, Making
<1>9. TasksInOrder'
  <2>1. PICK f, s : /\ tasks' = tasks \cup {<<f, s>>}
                    /\ Uses(f) \subseteq up
                    /\ s # 0 => s = k /\ runFlag /\ pcStart' \in {"send", "heart"}
    <3>1. CASE pcStart = "timerTask"
      <4>1. Uses("TimerThread") \subseteq up
            BY <3>1 DEF Uses, StartInv, UpInOrder, PastPool, PastTimers
      <4>. QED BY <1>1, <3>1, <4>1
    <3>2. CASE pcStart \in {"accept", "send"}
      <4>1. /\ {"pool", "port", "wsa"} \subseteq up /\ runFlag
            BY <3>2 DEF StartInv, UpInOrder, PastPool, PastTimers, PastPort, PastLog,
                        Serving, Making
      <4>2. Uses("AcceptThread") \subseteq up /\ Uses("SendThread") \subseteq up
            BY <4>1 DEF Uses
      <4>. QED BY <1>1, <3>2, <4>1, <4>2
    <3>. QED BY <1>1, <3>1, <3>2
  <2>2. \A t \in tasks' : t \in tasks \/ (t[1] = f /\ t[2] = s) BY <2>1
  <2>3. \A t \in tasks : Uses(t[1])' = Uses(t[1]) BY DEF Uses
  <2>4. Uses(f)' = Uses(f) BY DEF Uses
  <2>5. \A t \in tasks' : Uses(t[1])' \subseteq up'
        BY <1>1, <2>1, <2>2, <2>3, <2>4 DEF StartInv, TasksInOrder
  <2>6. \A t \in tasks' :
           t[2] # 0 => t[2] < k \/ (t[2] = k /\ pcStart' \in {"send", "heart"})
        BY <1>1, <2>1, <2>2 DEF StartInv, TasksInOrder
  <2>7. (\E t \in tasks' : t[2] > 0) => runFlag
    <3>1. SUFFICES ASSUME NEW t \in tasks', t[2] > 0 PROVE runFlag OBVIOUS
    <3>2. CASE t \in tasks BY <3>1, <3>2 DEF StartInv, TasksInOrder
    <3>3. CASE t[2] = s
      <4>1. s # 0
        <5>1. CASE s = 0 BY <3>1, <3>3, <5>1
        <5>. QED BY <5>1
      <4>. QED BY <2>1, <4>1
    <3>. QED BY <2>2, <3>2, <3>3
  <2>8. /\ pcStart' \in {"send", "heart"} => <<"AcceptThread", k>> \in tasks'
        /\ pcStart' = "heart" => <<"SendThread", k>> \in tasks'
        BY <1>1 DEF StartInv, TasksInOrder
  <2>9. tasks \subseteq tasks' BY <2>1
  <2>10. \A s_1 \in Server : s_1 < k =>
            {"AcceptThread", "SendThread", "HeartCheckTimer"} \X {s_1} \subseteq tasks'
         BY <2>9 DEF StartInv, TasksInOrder
  <2>. QED BY <1>1, <1>2, <2>5, <2>6, <2>7, <2>8, <2>10 DEF TasksInOrder
<1>10. PortsInOrder' BY <1>1, <1>2, <1>3 DEF StartInv, PortsInOrder
<1>. QED BY <1>1, <1>6, <1>7, <1>8, <1>9, <1>10 DEF StartInv

\* The next server, or the end.
LEMMA NewServerStep == ASSUME Inv, NewServer PROVE StartInv' /\ UNCHANGED logVars
<1>. USE DEF Inv
<1>1. /\ pcStart = "new"
      /\ UNCHANGED <<logVars, config, up, k, bound, tasks, toReport>>
      /\ \/ /\ k \in Server /\ server' = [server EXCEPT ![k] = "new"] /\ pcStart' = "socket"
         \/ k \notin Server /\ server' = server /\ pcStart' = "started"
      BY DEF NewServer
<1>2. UNCHANGED <<runFlag, pcInit, logTask, Server>> BY <1>1, LogStays DEF Server
<1>3. \A s : HasPort(s)' = HasPort(s) /\ Ip(s)' = Ip(s) BY <1>1 DEF HasPort, Port, Ip
<1>4. /\ server \in [Server -> {"none", "new", "kept", "deleted"}]
      /\ k \in 1 .. Len(config.tcpServer) + 1 /\ Len(config.tcpServer) \in Nat
      /\ Server \subseteq Nat
      BY ConfigAssumption DEF StartInv, StartTypeOK, Server
<1>5. StartTypeOK'
  <2>1. server' \in [Server -> {"none", "new", "kept", "deleted"}] BY <1>1, <1>4
  <2>. QED BY <1>1, <1>2, <2>1 DEF StartInv, StartTypeOK, PastPool, PastTimers, PastPort,
                                   PastLog, Serving, Making
<1>6. UpInOrder' /\ LogInOrder'
      BY <1>1, <1>2 DEF StartInv, UpInOrder, LogInOrder, PastPool, PastTimers, PastPort,
                        PastLog, Serving, Making
<1>7. ServersInOrder'
  <2>1. \A s \in Server : s < k => server'[s] = "kept"
        BY <1>1, <1>4 DEF StartInv, ServersInOrder
  <2>2. pcStart' = "started" => k = Len(config.tcpServer) + 1 BY <1>1, <1>4 DEF Server
  <2>3. pcStart' \in Making => k \in Server /\ server'[k] = "new"
        BY <1>1, <1>4 DEF Making
  <2>. QED BY <1>1, <1>2, <2>1, <2>2, <2>3 DEF ServersInOrder
<1>8. TasksInOrder'
  <2>1. \A t \in tasks : Uses(t[1])' = Uses(t[1]) BY DEF Uses
  <2>2. pcStart \notin {"send", "heart"} /\ pcStart' \notin {"send", "heart"} BY <1>1
  <2>. QED BY <1>1, <1>2, <2>1, <2>2 DEF StartInv, TasksInOrder
<1>9. PortsInOrder'
  <2>1. pcStart' \notin {"listen", "accept", "send", "heart"} BY <1>1
  <2>. QED BY <1>1, <1>2, <1>3, <2>1 DEF StartInv, PortsInOrder
<1>. QED BY <1>1, <1>5, <1>6, <1>7, <1>8, <1>9 DEF StartInv

\* The server is kept with all its tasks and its port.
LEMMA CreateTimerStep == ASSUME Inv, CreateTimer PROVE StartInv' /\ UNCHANGED logVars
<1>. USE DEF Inv
<1>1. /\ pcStart = "heart" /\ pcStart' = "new" /\ k' = k + 1
      /\ tasks' = tasks \cup {<<"HeartCheckTimer", k>>}
      /\ server' = [server EXCEPT ![k] = "kept"]
      /\ UNCHANGED <<logVars, config, up, bound, toReport>>
      BY DEF CreateTimer
<1>2. UNCHANGED <<runFlag, pcInit, logTask, Server>> BY <1>1, LogStays DEF Server
<1>3. \A s : HasPort(s)' = HasPort(s) /\ Ip(s)' = Ip(s) BY <1>1 DEF HasPort, Port, Ip
<1>4. /\ server \in [Server -> {"none", "new", "kept", "deleted"}]
      /\ Len(config.tcpServer) \in Nat /\ Server = 1 .. Len(config.tcpServer)
      /\ k \in Server /\ Server \subseteq Nat
      BY <1>1, ConfigAssumption DEF StartInv, StartTypeOK, ServersInOrder, Making, Server
<1>5. \A s \in Server : s < k' <=> s < k \/ s = k BY <1>1, <1>4
<1>6. StartTypeOK'
  <2>1. server' \in [Server -> {"none", "new", "kept", "deleted"}] BY <1>1, <1>4
  <2>2. k' \in 1 .. Len(config.tcpServer) + 1 BY <1>1, <1>4
  <2>. QED BY <1>1, <1>2, <1>4, <2>1, <2>2 DEF StartInv, StartTypeOK, PastPool, PastTimers,
                                               PastPort, PastLog, Serving, Making
<1>7. UpInOrder' /\ LogInOrder'
      BY <1>1, <1>2 DEF StartInv, UpInOrder, LogInOrder, PastPool, PastTimers, PastPort,
                        PastLog, Serving, Making
<1>8. ServersInOrder'
  <2>1. \A s \in Server : s < k' => server'[s] = "kept"
        BY <1>1, <1>4, <1>5 DEF StartInv, ServersInOrder
  <2>2. pcStart' \notin Making /\ pcStart' # "started" BY <1>1 DEF Making
  <2>. QED BY <1>2, <2>1, <2>2 DEF ServersInOrder
<1>9. TasksInOrder'
  <2>1. \A t \in tasks' : t \in tasks \/ (t[1] = "HeartCheckTimer" /\ t[2] = k) BY <1>1
  <2>2. /\ \A t \in tasks : Uses(t[1])' = Uses(t[1])
        /\ Uses("HeartCheckTimer")' = Uses("HeartCheckTimer")
        BY DEF Uses
  <2>3. Uses("HeartCheckTimer") \subseteq up /\ runFlag
        BY <1>1 DEF Uses, StartInv, UpInOrder, PastPool, PastTimers, PastPort, PastLog,
                    Serving, Making
  <2>4. \A t \in tasks' : Uses(t[1])' \subseteq up'
        BY <1>1, <2>1, <2>2, <2>3 DEF StartInv, TasksInOrder
  <2>5. \A t \in tasks' : t[2] # 0 => t[2] < k'
    <3>1. SUFFICES ASSUME NEW t \in tasks', t[2] # 0 PROVE t[2] < k' OBVIOUS
    <3>2. t[2] \in Server
      <4>1. CASE t \in tasks BY <3>1, <4>1 DEF StartInv, StartTypeOK
      <4>2. CASE t[2] = k BY <1>4, <4>2
      <4>. QED BY <2>1, <4>1, <4>2
    <3>3. t[2] < k \/ t[2] = k
      <4>1. CASE t \in tasks BY <3>1, <4>1 DEF StartInv, TasksInOrder
      <4>. QED BY <2>1, <4>1
    <3>. QED BY <1>5, <3>2, <3>3
  <2>6. tasks \subseteq tasks' /\ <<"HeartCheckTimer", k>> \in tasks'
        /\ <<"AcceptThread", k>> \in tasks' /\ <<"SendThread", k>> \in tasks'
        BY <1>1 DEF StartInv, TasksInOrder
  <2>7. ASSUME NEW s \in Server, s < k'
        PROVE  {"AcceptThread", "SendThread", "HeartCheckTimer"} \X {s} \subseteq tasks'
    <3>1. CASE s < k BY <2>6, <3>1 DEF StartInv, TasksInOrder
    <3>2. CASE s = k BY <2>6, <3>2
    <3>. QED BY <1>5, <2>7, <3>1, <3>2
  <2>8. pcStart' \notin {"send", "heart"} BY <1>1
  <2>. QED BY <1>2, <2>3, <2>4, <2>5, <2>7, <2>8 DEF TasksInOrder
<1>10. PortsInOrder'
  <2>1. \A s \in Server : s < k' => HasPort(s)
        BY <1>1, <1>5 DEF StartInv, PortsInOrder
  <2>2. pcStart' \notin {"listen", "accept", "send", "heart"} BY <1>1
  <2>. QED BY <1>1, <1>2, <1>3, <2>1, <2>2 DEF StartInv, PortsInOrder
<1>. QED BY <1>1, <1>6, <1>7, <1>8, <1>9, <1>10 DEF StartInv

\* The object is deleted when no task has a pointer to it yet.
LEMMA DeleteServerStep == ASSUME Inv, DeleteServer PROVE StartInv' /\ UNCHANGED logVars
<1>. USE DEF Inv
<1>1. /\ pcStart = "report" /\ pcStart' = "failed"
      /\ server' = [s \in Server |-> IF s = k THEN "deleted" ELSE server[s]]
      /\ UNCHANGED <<logVars, config, up, k, bound, tasks, toReport>>
      BY DEF DeleteServer, Unfinished
<1>2. UNCHANGED <<runFlag, pcInit, logTask, Server>> BY <1>1, LogStays DEF Server
<1>3. \A s : HasPort(s)' = HasPort(s) /\ Ip(s)' = Ip(s) BY <1>1 DEF HasPort, Port, Ip
<1>4. k \in Server /\ Server \subseteq Nat
      BY <1>1 DEF StartInv, ServersInOrder, Making, Server
<1>5. StartTypeOK'
  <2>1. server' \in [Server -> {"none", "new", "kept", "deleted"}]
        BY <1>1 DEF StartInv, StartTypeOK
  <2>. QED BY <1>1, <1>2, <2>1 DEF StartInv, StartTypeOK
<1>6. UpInOrder' /\ LogInOrder'
      BY <1>1, <1>2 DEF StartInv, UpInOrder, LogInOrder, PastPool, PastTimers, PastPort,
                        PastLog, Serving, Making
<1>7. ServersInOrder'
  <2>1. \A s \in Server : s < k => server'[s] = "kept"
        BY <1>1, <1>4 DEF StartInv, ServersInOrder
  <2>. QED BY <1>1, <1>2, <2>1 DEF ServersInOrder, Making
<1>8. TasksInOrder'
  <2>1. \A t \in tasks : Uses(t[1])' = Uses(t[1]) BY DEF Uses
  <2>2. pcStart \notin {"send", "heart"} /\ pcStart' \notin {"send", "heart"} BY <1>1
  <2>. QED BY <1>1, <1>2, <2>1, <2>2 DEF StartInv, TasksInOrder
<1>9. PortsInOrder'
  <2>1. pcStart' \notin {"listen", "accept", "send", "heart"} BY <1>1
  <2>. QED BY <1>1, <1>2, <1>3, <2>1 DEF StartInv, PortsInOrder
<1>. QED BY <1>1, <1>5, <1>6, <1>7, <1>8, <1>9 DEF StartInv

\* The steps of the start that are steps of the log, too.
LEMMA LogSteps ==
    ASSUME Inv,
           \/ InitTraceLog /\ UNCHANGED startVars
           \/ ReportFailure
           \/ P1_LOG
           \/ LogStep /\ UNCHANGED startVars
    PROVE  Inv'
<1>. USE DEF Inv
<1>1. toReport \in 0 .. 2 BY DEF StartInv, StartTypeOK
<1>2. CASE pcStart = "log" /\ pcInit = "off" /\ pcInit' = "file" /\
           UNCHANGED <<runFlag, logList, logTask, threadVars, writes, outputVars, startVars>>
  <2>1. /\ UNCHANGED <<runFlag, logList, logTask, pcLog, log, Offset, writes,
                       file, printed, said>>
        /\ UNCHANGED <<config, pcStart, up, k, server, bound, tasks, toReport>>
        BY <1>2 DEF threadVars, outputVars, startVars
  <2>2. LogTypeOK' BY <1>2, <2>1 DEF LogInv, LogTypeOK
  <2>3. TextPlaced' BY <2>1 DEF LogInv, TextPlaced
  <2>4. WritesInPlace' /\ LinesInPlace' BY <2>1 DEF LogInv, WritesInPlace, LinesInPlace, Fits
  <2>5. "pool" \in up /\ ~logTask
        BY <1>2 DEF StartInv, UpInOrder, LogInOrder, PastPool, PastTimers, PastPort
  <2>6. LogGrows BY <1>2, <2>1, <2>5 DEF LogGrows
  <2>7. StartInv' BY <1>1, <2>1, <2>6, StartSame
  <2>. QED BY <2>2, <2>3, <2>4, <2>7 DEF LogInv
<1>3. ASSUME LogStep \/ InitIocpTask \/ (\E l \in Line : TRACELOG(l)) \/ UNCHANGED logVars,
             UNCHANGED <<config, pcStart, up, k, server, bound, tasks>>, toReport' \in 0 .. 2
      PROVE  Inv'
  <2>1. LogInv' BY <1>3, LogStepLog, InitIocpTaskLog, TRACELOGLog, LogSame
  <2>2. LogGrows BY <1>3, LogStepGrows
  <2>. QED BY <1>3, <2>1, <2>2, StartSame
<1>4. CASE InitIocpTask /\ UNCHANGED startVars BY <1>1, <1>3, <1>4 DEF startVars
<1>5. CASE ReportFailure
  <2>1. toReport' \in 0 .. 2 BY <1>1, <1>5 DEF ReportFailure
  <2>2. (\E l \in Line : TRACELOG(l)) \/ UNCHANGED logVars BY <1>5 DEF ReportFailure
  <2>. QED BY <1>3, <1>5, <2>1, <2>2 DEF ReportFailure
<1>6. CASE P1_LOG BY <1>1, <1>3, <1>6 DEF P1_LOG, startVars
<1>7. CASE LogStep /\ UNCHANGED startVars BY <1>1, <1>3, <1>7 DEF startVars
<1>8. CASE InitTraceLog /\ UNCHANGED startVars
  <2>1. ~(Go("log", "wsa") \/ Go("log", "failed"))
        BY <1>8 DEF Go, startVars
  <2>. QED BY <1>2, <1>4, <1>8, <2>1 DEF InitTraceLog
<1>. QED BY <1>5, <1>6, <1>7, <1>8

LEMMA StartStep == ASSUME Inv, P1_Start PROVE Inv'
<1>1. CASE StartInv' /\ UNCHANGED logVars BY <1>1, LogSame DEF Inv
<1>2. CASE ParseConfigFile \/ InitThreadPool \/ InitService \/ WSAStartup \/ GetServerCfg
      BY <1>1, <1>2, EarlySteps
<1>3. CASE InitTimerManager BY <1>1, <1>3, EarlySteps, JobSteps DEF InitTimerManager
<1>4. CASE InitTraceLog
  <2>1. CASE UNCHANGED startVars BY <1>4, <2>1, LogSteps
  <2>2. CASE (pcInit = "true" /\ Go("log", "wsa")) \/ (pcInit = "false" /\ Go("log", "failed"))
        BY <1>1, <2>2, EarlySteps
  <2>. QED BY <1>4, <2>1, <2>2 DEF InitTraceLog, startVars
<1>5. CASE NewServer BY <1>1, <1>5, NewServerStep
<1>6. CASE CreateSocket BY <1>1, <1>6, SocketSteps
<1>7. CASE Listen BY <1>1, <1>7, EarlySteps, SocketSteps DEF Listen
<1>8. CASE AddServerJobs BY <1>1, <1>8, JobSteps
<1>9. CASE CreateTimer BY <1>1, <1>9, CreateTimerStep
<1>10. CASE ReportFailure BY <1>10, LogSteps
<1>11. CASE DeleteServer BY <1>1, <1>11, DeleteServerStep
<1>. QED BY <1>2, <1>3, <1>4, <1>5, <1>6, <1>7, <1>8, <1>9, <1>10, <1>11
   DEF P1_Start

LEMMA Invariant == Spec => []Inv
<1>1. Init => Inv BY InitLog, InitStart DEF Init, Inv
<1>2. Inv /\ [Next]_vars => Inv'
  <2>. SUFFICES ASSUME Inv, [Next]_vars PROVE Inv' OBVIOUS
  <2>1. CASE P1_Start BY <2>1, StartStep
  <2>2. CASE P1_LOG \/ (LogStep /\ UNCHANGED startVars) BY <2>2, LogSteps
  <2>3. CASE UNCHANGED vars
    <3>1. UNCHANGED <<logVars, startVars>> BY <2>3 DEF vars
    <3>2. LogInv' BY <3>1, LogSame DEF Inv
    <3>3. LogGrows BY <3>1, LogStepGrows DEF Inv
    <3>4. toReport' \in 0 .. 2 BY <3>1 DEF startVars, Inv, StartInv, StartTypeOK
    <3>5. StartInv' BY <3>1, <3>3, <3>4, StartSame DEF Inv, startVars
    <3>. QED BY <3>2, <3>5 DEF Inv
  <2>. QED BY <2>1, <2>2, <2>3 DEF Next
<1>. QED BY <1>1, <1>2, PTL DEF Spec

-----------------------------------------------------------------------------
\* P1_Service.cpp:21, ConfigManager.cpp:46: every variable has its type; k never goes
\* past the configured servers, and no port is outside of 16 bits.
THEOREM TypeCorrect == Spec => []TypeOK
<1>1. Inv => TypeOK BY TypesTogether DEF Inv
<1>. QED BY <1>1, Invariant, PTL

\* P1_Service.cpp:21: whatever a task of the pool or a timer uses is up before the
\* task is added.
THEOREM ReadyInTime == Spec => []ReadyBeforeUse
BY Invariant, ReadyFromInv, PTL

\* NetServiceTask.cpp:38: a server that fails to start is deleted only while no
\* task has a pointer to it.
THEOREM JobsOutliveNoServer == Spec => []JobsOwnLiveServers
BY Invariant, JobsFromInv, PTL

\* P1_Service.cpp:21: a start that returns true has every configured server up,
\* each at a port of its own.
THEOREM StartedIsServing == Spec => []StartedMeansServing
BY Invariant, StartedFromInv, PTL

\* TraceLog.cpp:33: the file holds what was logged where it was logged, until more
\* was said than the offset counts.
THEOREM LinesStayInPlace == Spec => []LinesInPlace
<1>1. Inv => LinesInPlace BY DEF Inv, LogInv
<1>. QED BY <1>1, Invariant, PTL
=============================================================================
