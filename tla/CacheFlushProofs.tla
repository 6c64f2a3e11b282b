-------------------------- MODULE CacheFlushProofs --------------------------
(***************************************************************************)
(* Theorems about CacheFlush, for any keys, cursors and faults.            *)
(***************************************************************************)
EXTENDS CacheFlush, FiniteSetTheorems, SequenceTheorems, TLAPS

(* SetToSeq lists its set, each element once.                              *)
LEMMA SetToSeqLists ==
  ASSUME NEW S, IsFiniteSet(S)
  PROVE  /\ SetToSeq(S) \in Seq(S) /\ Len(SetToSeq(S)) = Cardinality(S)
         /\ ToSet(SetToSeq(S)) = S
<1> DEFINE n == Cardinality(S)
<1>1. n \in Nat /\ ExistsBijection(1..n, S)
  BY FS_CardinalityType
<1>2. PICK f \in Bijection(1..n, S) : TRUE
  BY <1>1 DEF ExistsBijection
<1>3. f \in [1..n -> S] /\ IsInjective(f)
  BY <1>2 DEF Bijection, Injection
<1>4. SetToSeq(S) \in [1..n -> S] /\ IsInjective(SetToSeq(S))
  BY <1>3 DEF SetToSeq
<1>5. SetToSeq(S) \in Seq(S) /\ Len(SetToSeq(S)) = n
  BY <1>1, <1>4
<1>6. SetToSeq(S) \in Injection(1..n, S)
  BY <1>4 DEF Injection
<1>7. IsFiniteSet(1..n) /\ Cardinality(1..n) = n
  BY <1>1, FS_Interval
<1>8. SetToSeq(S) \in Surjection(1..n, S)
  BY <1>6, <1>7, FS_Injection
<1>9. ToSet(SetToSeq(S)) = S
  BY <1>4, <1>8 DEF Surjection, ToSet
<1>10. QED
  BY <1>5, <1>9

-----------------------------------------------------------------------------
(* What the lines of a reply may be, and what may stand behind a "$" line. *)
Blank == ""
Keyed == Namespaces \union ToSet(Cursors)
Named == Keyed \union {Blank}
Line  == {"*", "$", ":", "+", "-"} \union Named

Request ==
  {<<"SELECT">>}
    \union {<<"SCAN", c, p>> : c \in Line, p \in DOMAIN Spaces}
    \union {<<"DEL", b>> : b \in SUBSET Named}

Paired(lines) ==
  \A i \in 1..Len(lines) : lines[i] = "$" => i < Len(lines) /\ lines[i + 1] \in Keyed

ScanReply(next, keys) == <<"*", "$", next, "*">> \o BulkStrings(keys)

(* The positions of a list of pairs.                                       *)
LEMMA PairPositions ==
  ASSUME NEW n \in Nat
  PROVE  /\ \A i \in 1..n : /\ 2 * i - 1 \in 1..2 * n /\ (2 * i - 1) % 2 = 1
                           /\ 2 * i \in 1..2 * n /\ (2 * i) % 2 = 0
                           /\ (2 * i) \div 2 = i
         /\ \A j \in 1..2 * n : \E i \in 1..n : j = 2 * i - 1 \/ j = 2 * i
<1>1. ASSUME NEW i \in 1..n
      PROVE  /\ 2 * i - 1 \in 1..2 * n /\ (2 * i - 1) % 2 = 1
             /\ 2 * i \in 1..2 * n /\ (2 * i) % 2 = 0 /\ (2 * i) \div 2 = i
  OBVIOUS
<1>2. ASSUME NEW j \in 1..2 * n
      PROVE  \E i \in 1..n : j = 2 * i - 1 \/ j = 2 * i
  <2>1. PICK h : h = (j + 1) \div 2
    OBVIOUS
  <2>2. h \in 1..n /\ (j = 2 * h - 1 \/ j = 2 * h)
    BY <2>1
  <2>3. QED
    BY <2>2
<1>3. QED
  BY <1>1, <1>2

(* The lines of a SCAN's reply, one by one.                                *)
ScanShape(r, next, s) ==
  /\ Len(r) = 4 + 2 * Len(s)
  /\ r[1] = "*" /\ r[2] = "$" /\ r[3] = next /\ r[4] = "*"
  /\ \A i \in 1..Len(s) : r[3 + 2 * i] = "$" /\ r[4 + 2 * i] = s[i]
  /\ \A j \in 1..Len(r) :
       j <= 4 \/ \E i \in 1..Len(s) : j = 3 + 2 * i \/ j = 4 + 2 * i

LEMMA ScanReplyLines ==
  ASSUME NEW T, NEW s \in Seq(T), NEW next \in T, "*" \in T, "$" \in T,
         NEW r, r = ScanReply(next, s)
  PROVE  r \in Seq(T) /\ ScanShape(r, next, s)
<1> DEFINE h == <<"*", "$", next, "*">>
           b == BulkStrings(s)
<1>1. Len(s) \in Nat /\ \A i \in 1..Len(s) : s[i] \in T
  BY ElementOfSeq, LenProperties
<1>2. h \in Seq(T) /\ Len(h) = 4 /\ h[1] = "*" /\ h[2] = "$" /\ h[3] = next /\ h[4] = "*"
  OBVIOUS
<1>3. b = [i \in 1..2 * Len(s) |-> IF i % 2 = 1 THEN "$" ELSE s[i \div 2]]
  BY DEF BulkStrings
<1>4. /\ \A i \in 1..Len(s) : /\ 2 * i - 1 \in 1..2 * Len(s) /\ (2 * i - 1) % 2 = 1
                              /\ 2 * i \in 1..2 * Len(s) /\ (2 * i) % 2 = 0
                              /\ (2 * i) \div 2 = i
      /\ \A j \in 1..2 * Len(s) : \E i \in 1..Len(s) : j = 2 * i - 1 \/ j = 2 * i
  BY <1>1, PairPositions
<1>5. ASSUME NEW i \in 1..Len(s) PROVE b[2 * i - 1] = "$" /\ b[2 * i] = s[i]
  BY <1>3, <1>4
<1>6. \A j \in 1..2 * Len(s) : b[j] \in T
  BY <1>1, <1>4, <1>5
<1>7. b \in Seq(T) /\ Len(b) = 2 * Len(s)
  <2>1. b \in [1..2 * Len(s) -> T]
    BY <1>3, <1>6
  <2>2. 2 * Len(s) \in Nat
    BY <1>1
  <2>3. QED
    BY <2>1, <2>2
<1> HIDE DEF h, b
<1>8. r = h \o b
  BY DEF ScanReply, h, b
<1>9. /\ r \in Seq(T) /\ Len(r) = 4 + 2 * Len(s)
      /\ \A j \in 1..Len(r) : r[j] = IF j <= 4 THEN h[j] ELSE b[j - 4]
  <2>1. /\ h \o b \in Seq(T) /\ Len(h \o b) = Len(h) + Len(b)
        /\ \A j \in 1..Len(h) + Len(b) :
             (h \o b)[j] = IF j <= Len(h) THEN h[j] ELSE b[j - Len(h)]
    BY <1>2, <1>7, ConcatProperties
  <2>2. QED
    BY <1>2, <1>7, <1>8, <2>1
<1>10. r[1] = "*" /\ r[2] = "$" /\ r[3] = next /\ r[4] = "*"
  BY <1>1, <1>2, <1>9
<1>11. \A i \in 1..Len(s) : r[3 + 2 * i] = "$" /\ r[4 + 2 * i] = s[i]
  <2> SUFFICES ASSUME NEW i \in 1..Len(s)
               PROVE  r[3 + 2 * i] = "$" /\ r[4 + 2 * i] = s[i]
    OBVIOUS
  <2>1. /\ 3 + 2 * i \in 1..Len(r) /\ ~(3 + 2 * i <= 4) /\ 3 + 2 * i - 4 = 2 * i - 1
        /\ 4 + 2 * i \in 1..Len(r) /\ ~(4 + 2 * i <= 4) /\ 4 + 2 * i - 4 = 2 * i
    BY <1>1, <1>9
  <2>2. b[2 * i - 1] = "$" /\ b[2 * i] = s[i]
    BY <1>5
  <2>3. QED
    BY <1>9, <2>1, <2>2
<1>12. \A j \in 1..Len(r) :
         j <= 4 \/ \E i \in 1..Len(s) : j = 3 + 2 * i \/ j = 4 + 2 * i
  <2> SUFFICES ASSUME NEW j \in 1..Len(r), ~(j <= 4)
               PROVE  \E i \in 1..Len(s) : j = 3 + 2 * i \/ j = 4 + 2 * i
    OBVIOUS
  <2>1. j - 4 \in 1..2 * Len(s)
    BY <1>1, <1>9
  <2>2. PICK i \in 1..Len(s) : j - 4 = 2 * i - 1 \/ j - 4 = 2 * i
    BY <1>4, <2>1
  <2>3. QED
    BY <1>1, <2>2
<1>13. QED
  BY <1>9, <1>10, <1>11, <1>12 DEF ScanShape

(* A SCAN's reply names its keys and the next cursor only, each behind a   *)
(* "$" line ...                                                            *)
LEMMA ScanReplyPaired ==
  ASSUME NEW s \in Seq(Namespaces), NEW next \in ToSet(Cursors),
         NEW r, r = ScanReply(next, s)
  PROVE  r \in Seq(Line) /\ r # <<>> /\ Paired(r)
<1>1. r \in Seq(Line) /\ ScanShape(r, next, s)
  <2>1. Namespaces \subseteq Line /\ next \in Line /\ "*" \in Line /\ "$" \in Line
    BY DEF Line, Named, Keyed
  <2>2. s \in Seq(Line)
    BY <2>1, SeqMonotonic
  <2>3. QED
    BY <2>1, <2>2, ScanReplyLines
<1>2. Len(s) \in Nat /\ \A i \in 1..Len(s) : s[i] \in Namespaces
  BY ElementOfSeq, LenProperties
<1>3. Len(r) \in Nat /\ r # <<>>
  BY <1>1, <1>2 DEF ScanShape
<1>4. Paired(r)
  <2> SUFFICES ASSUME NEW j \in 1..Len(r), r[j] = "$"
               PROVE  j < Len(r) /\ r[j + 1] \in Keyed
    BY DEF Paired
  <2>1. CASE j <= 4
    <3>0. j = 1 \/ j = 2 \/ j = 3 \/ j = 4
      BY <1>3, <2>1
    <3>1. j = 2
      BY <1>1, <3>0, LinesAssumption DEF ScanShape
    <3>2. QED
      BY <1>1, <1>2, <3>1 DEF Keyed, ScanShape
  <2>2. CASE \E i \in 1..Len(s) : j = 3 + 2 * i \/ j = 4 + 2 * i
    <3> PICK i \in 1..Len(s) : j = 3 + 2 * i \/ j = 4 + 2 * i
      BY <2>2
    <3>0. r[4 + 2 * i] # "$" /\ r[4 + 2 * i] \in Namespaces
      BY <1>1, <1>2, LinesAssumption DEF ScanShape
    <3>1. j = 3 + 2 * i
      BY <3>0
    <3>2. j + 1 = 4 + 2 * i /\ j < Len(r)
      BY <1>1, <1>2, <3>1 DEF ScanShape
    <3>3. QED
      BY <3>0, <3>2 DEF Keyed
  <2>3. QED
    BY <1>1, <2>1, <2>2 DEF ScanShape
<1>5. QED
  BY <1>1, <1>3, <1>4

(* The text behind the last CRLF is a line too.                            *)
LEMMA LastLine ==
  ASSUME NEW T, NEW r \in Seq(T), NEW e \in T, NEW lines, lines = Append(r, e)
  PROVE  /\ lines \in Seq(T) /\ Len(lines) = Len(r) + 1 /\ Len(r) \in Nat
         /\ \A j \in 1..Len(r) : lines[j] = r[j]
         /\ lines[Len(r) + 1] = e
<1>1. Len(r) \in Nat
  BY LenProperties
<1>2. QED
  BY <1>1, AppendProperties

(* ... and _parse_scan reads back exactly those.                           *)
LEMMA ParseScanReply ==
  ASSUME NEW S, NEW s \in Seq(S), NEW next, NEW r, r = ScanReply(next, s)
  PROVE  Parse(r).cursor = next /\ Parse(r).keys = ToSet(s)
<1>a. PICK lines : lines = Append(r, Blank)
  OBVIOUS
<1> DEFINE pairs == {i \in 0..Len(lines) :
                       /\ 5 + 2 * i + 1 <= Len(lines)
                       /\ \A j \in 0..i : lines[5 + 2 * j] = "$"}
<1>b. PICK T : T = {"*", "$", next, Blank} \union S
  OBVIOUS
<1>1. r \in Seq(T) /\ ScanShape(r, next, s)
  <2>1. S \subseteq T /\ next \in T /\ "*" \in T /\ "$" \in T
    BY <1>b
  <2>2. s \in Seq(T)
    BY <2>1, SeqMonotonic
  <2>3. QED
    BY <2>1, <2>2, ScanReplyLines
<1>2. Len(s) \in Nat /\ DOMAIN s = 1..Len(s)
  BY LenProperties
<1>3. Len(lines) = 5 + 2 * Len(s) /\ \A j \in 1..Len(r) : lines[j] = r[j]
  <2>1. Blank \in T
    BY <1>b
  <2>2. Len(lines) = Len(r) + 1 /\ \A j \in 1..Len(r) : lines[j] = r[j]
    BY <1>1, <1>a, <2>1, LastLine
  <2>3. QED
    BY <1>1, <1>2, <2>2 DEF ScanShape
<1>4. Parse(r) = [cursor |-> IF Len(lines) > 2 THEN lines[3] ELSE "0",
                  keys   |-> IF Len(lines) > 3 /\ lines[4] = "*"
                             THEN {lines[5 + 2 * i + 1] : i \in pairs} ELSE {}]
  BY <1>a DEF Parse, Blank
<1>5. \A j \in 0..(Len(s) - 1) : lines[5 + 2 * j] = "$" /\ lines[5 + 2 * j + 1] = s[j + 1]
  <2> SUFFICES ASSUME NEW j \in 0..(Len(s) - 1)
               PROVE  lines[5 + 2 * j] = "$" /\ lines[5 + 2 * j + 1] = s[j + 1]
    OBVIOUS
  <2>1. /\ j + 1 \in 1..Len(s) /\ 3 + 2 * (j + 1) = 5 + 2 * j /\ 4 + 2 * (j + 1) = 5 + 2 * j + 1
        /\ 5 + 2 * j \in 1..Len(r) /\ 5 + 2 * j + 1 \in 1..Len(r)
    BY <1>1, <1>2 DEF ScanShape
  <2>2. QED
    BY <1>1, <1>3, <2>1 DEF ScanShape
<1>6. pairs = 0..(Len(s) - 1)
  <2>1. ASSUME NEW i \in pairs PROVE i \in 0..(Len(s) - 1)
    BY <1>2, <1>3
  <2>2. ASSUME NEW i \in 0..(Len(s) - 1) PROVE i \in pairs
    <3>1. i \in 0..Len(lines) /\ 5 + 2 * i + 1 <= Len(lines)
      BY <1>2, <1>3
    <3>2. \A j \in 0..i : j \in 0..(Len(s) - 1)
      BY <1>2
    <3>3. QED
      BY <1>5, <3>1, <3>2
  <2>3. QED
    BY <2>1, <2>2
<1>7. Len(lines) > 2 /\ Len(lines) > 3 /\ lines[3] = next /\ lines[4] = "*"
  BY <1>1, <1>2, <1>3 DEF ScanShape
<1> HIDE DEF pairs
<1>8. {lines[5 + 2 * i + 1] : i \in pairs} = ToSet(s)
  <2>1. \A j \in 1..Len(s) : j - 1 \in 0..(Len(s) - 1) /\ (j - 1) + 1 = j
    BY <1>2
  <2>2. ASSUME NEW i \in pairs PROVE lines[5 + 2 * i + 1] \in ToSet(s)
    <3>1. i + 1 \in 1..Len(s) /\ lines[5 + 2 * i + 1] = s[i + 1]
      BY <1>2, <1>5, <1>6
    <3>2. QED
      BY <1>2, <3>1 DEF ToSet
  <2>3. ASSUME NEW j \in 1..Len(s)
        PROVE  \E i \in pairs : s[j] = lines[5 + 2 * i + 1]
    <3>1. j - 1 \in pairs /\ lines[5 + 2 * (j - 1) + 1] = s[j]
      BY <1>5, <1>6, <2>1
    <3>2. QED
      BY <3>1
  <2>4. ToSet(s) = {s[j] : j \in 1..Len(s)}
    BY <1>2 DEF ToSet
  <2>5. QED
    BY <2>2, <2>3, <2>4
<1>9. QED
  BY <1>4, <1>7, <1>8

(* However a reply is cut, what _parse_scan takes for a key is an entry of *)
(* the cache, a cursor or nothing.                                         *)
LEMMA ParseNames ==
  ASSUME NEW r \in Seq(Line),
         \A i \in 1..Len(r) : r[i] = "$" /\ i < Len(r) => r[i + 1] \in Keyed
  PROVE  Parse(r).cursor \in Line /\ Parse(r).keys \subseteq Named
<1>a. PICK lines : lines = Append(r, Blank)
  OBVIOUS
<1> DEFINE pairs == {i \in 0..Len(lines) :
                       /\ 5 + 2 * i + 1 <= Len(lines)
                       /\ \A j \in 0..i : lines[5 + 2 * j] = "$"}
<1>1. /\ lines \in Seq(Line) /\ Len(lines) = Len(r) + 1 /\ Len(r) \in Nat
      /\ \A j \in 1..Len(r) : lines[j] = r[j]
      /\ lines[Len(r) + 1] = Blank
  <2>1. Blank \in Line
    BY DEF Line, Named
  <2>2. QED
    BY <1>a, <2>1, LastLine
<1>2. Parse(r) = [cursor |-> IF Len(lines) > 2 THEN lines[3] ELSE "0",
                  keys   |-> IF Len(lines) > 3 /\ lines[4] = "*"
                             THEN {lines[5 + 2 * i + 1] : i \in pairs} ELSE {}]
  BY <1>a DEF Parse, Blank
<1>3. \A j \in 1..Len(lines) : lines[j] \in Line
  BY <1>1, ElementOfSeq
<1>4. ASSUME NEW i \in pairs PROVE lines[5 + 2 * i + 1] \in Named
  <2>1. i \in Nat /\ 5 + 2 * i + 1 <= Len(lines) /\ i \in 0..i
    BY <1>1
  <2>2. lines[5 + 2 * i] = "$"
    BY <2>1
  <2>3. 5 + 2 * i \in 1..Len(r)
    BY <1>1, <2>1
  <2>4. CASE 5 + 2 * i < Len(r)
    <3>1. r[5 + 2 * i] = "$" /\ r[5 + 2 * i + 1] \in Keyed
      BY <1>1, <2>2, <2>3, <2>4
    <3>2. 5 + 2 * i + 1 \in 1..Len(r)
      BY <1>1, <2>1, <2>4
    <3>3. QED
      BY <1>1, <3>1, <3>2 DEF Named
  <2>5. CASE 5 + 2 * i = Len(r)
    BY <1>1, <2>5 DEF Named
  <2>6. QED
    BY <1>1, <2>3, <2>4, <2>5
<1>5. "0" \in Line
  <2>1. Cursors \in Seq(STRING) /\ Cursors # <<>>
    BY CursorsAssumption
  <2>2. 1 \in DOMAIN Cursors
    BY <2>1, EmptySeq, LenProperties
  <2>3. QED
    BY <2>2, CursorsAssumption DEF Line, Named, Keyed, ToSet
<1>6. Len(lines) > 2 => lines[3] \in Line
  BY <1>1, <1>3
<1> HIDE DEF pairs
<1>7. {lines[5 + 2 * i + 1] : i \in pairs} \subseteq Named
  BY <1>4
<1>8. QED
  BY <1>2, <1>5, <1>6, <1>7

-----------------------------------------------------------------------------
(* Replies, whole and in pieces.                                           *)
Readable(lines) ==
  /\ lines \in Seq(Line)
  /\ \A i \in 1..Len(lines) : lines[i] = "$" /\ i < Len(lines) => lines[i + 1] \in Keyed

LEMMA CursorsStay ==
  ASSUME NEW c \in ToSet(Cursors)
  PROVE  NextCursor(c) \in ToSet(Cursors)
<1>1. Cursors \in Seq(STRING) /\ Cursors # <<>> /\ Cursors[1] = "0"
  BY CursorsAssumption
<1>2. Len(Cursors) \in Nat \ {0} /\ DOMAIN Cursors = 1..Len(Cursors)
  BY <1>1, EmptySeq, LenProperties
<1>3. ToSet(Cursors) = {Cursors[i] : i \in 1..Len(Cursors)}
  BY <1>2 DEF ToSet
<1>4. PICK i : i = CHOOSE j \in DOMAIN Cursors : Cursors[j] = c
  OBVIOUS
<1>5. i \in 1..Len(Cursors) /\ Cursors[i] = c
  <2>1. \E j \in DOMAIN Cursors : Cursors[j] = c
    BY <1>2, <1>3
  <2>2. QED
    BY <1>2, <1>4, <2>1
<1>6. NextCursor(c) = IF i = Len(Cursors) THEN "0" ELSE Cursors[i + 1]
  BY <1>4 DEF NextCursor
<1>7. CASE i = Len(Cursors)
  <2>1. 1 \in 1..Len(Cursors) /\ NextCursor(c) = Cursors[1]
    BY <1>1, <1>2, <1>6, <1>7
  <2>2. QED
    BY <1>3, <2>1
<1>8. CASE i # Len(Cursors)
  <2>1. i + 1 \in 1..Len(Cursors)
    <3>1. ASSUME NEW m \in Nat, i \in 1..m, i # m PROVE i + 1 \in 1..m
      BY <3>1
    <3>2. QED
      BY <1>2, <1>5, <1>8, <3>1
  <2>2. NextCursor(c) = Cursors[i + 1]
    BY <1>6, <1>8
  <2>3. QED
    BY <1>3, <2>1, <2>2
<1>9. QED
  BY <1>7, <1>8

LEMMA PairedConcat ==
  ASSUME NEW s \in Seq(Line), NEW t \in Seq(Line), Paired(s), Paired(t)
  PROVE  s \o t \in Seq(Line) /\ Paired(s \o t)
<1>1. PICK u : u = s \o t
  OBVIOUS
<1>2. /\ u \in Seq(Line) /\ Len(u) = Len(s) + Len(t) /\ Len(s) \in Nat /\ Len(t) \in Nat
      /\ \A i \in 1..Len(s) + Len(t) :
           u[i] = IF i <= Len(s) THEN s[i] ELSE t[i - Len(s)]
  BY <1>1, ConcatProperties, LenProperties
<1>3. ASSUME NEW i \in 1..Len(u), u[i] = "$"
      PROVE  i < Len(u) /\ u[i + 1] \in Keyed
  <2>1. CASE i <= Len(s)
    <3>1. i \in 1..Len(s) /\ s[i] = "$"
      BY <1>2, <1>3, <2>1
    <3>2. i < Len(s) /\ s[i + 1] \in Keyed
      BY <3>1 DEF Paired
    <3>3. QED
      BY <1>2, <3>1, <3>2
  <2>2. CASE ~(i <= Len(s))
    <3>1. i - Len(s) \in 1..Len(t) /\ t[i - Len(s)] = "$"
      BY <1>2, <1>3, <2>2
    <3>2. i - Len(s) < Len(t) /\ t[i - Len(s) + 1] \in Keyed
      BY <3>1 DEF Paired
    <3>3. i + 1 - Len(s) = i - Len(s) + 1 /\ i + 1 \in 1..Len(s) + Len(t) /\ ~(i + 1 <= Len(s))
      BY <1>2, <2>2, <3>1, <3>2
    <3>4. QED
      BY <1>2, <3>2, <3>3
  <2>3. QED
    BY <2>1, <2>2
<1>4. QED
  BY <1>1, <1>2, <1>3 DEF Paired

(* A part of what has arrived can be read, and so can the rest.            *)
LEMMA CutReplies ==
  ASSUME NEW s \in Seq(Line), Paired(s), NEW n \in 1..Len(s)
  PROVE  /\ Readable(SubSeq(s, 1, n))
         /\ SubSeq(s, n + 1, Len(s)) \in Seq(Line) /\ Paired(SubSeq(s, n + 1, Len(s)))
<1>1. Len(s) \in Nat /\ n \in Nat /\ \A i \in 1..Len(s) : s[i] \in Line
  BY LenProperties, ElementOfSeq
<1>2. Readable(SubSeq(s, 1, n))
  <2>1. PICK a : a = SubSeq(s, 1, n)
    OBVIOUS
  <2>2. \A i \in 1..n : s[i] \in Line
    BY <1>1
  <2>3. a \in Seq(Line) /\ Len(a) = n /\ \A i \in 1..n : a[i] = s[i]
    BY <1>1, <2>1, <2>2, SubSeqProperties
  <2>4. ASSUME NEW i \in 1..Len(a), a[i] = "$", i < Len(a) PROVE a[i + 1] \in Keyed
    <3>1. i \in 1..Len(s) /\ i + 1 \in 1..n /\ s[i] = "$"
      BY <1>1, <2>3, <2>4
    <3>2. QED
      BY <2>3, <3>1 DEF Paired
  <2>5. QED
    BY <2>1, <2>3, <2>4 DEF Readable
<1>3. SubSeq(s, n + 1, Len(s)) \in Seq(Line) /\ Paired(SubSeq(s, n + 1, Len(s)))
  <2>1. PICK b : b = SubSeq(s, n + 1, Len(s))
    OBVIOUS
  <2>2. \A i \in n + 1..Len(s) : s[i] \in Line
    BY <1>1
  <2>3. b \in Seq(Line) /\ Len(b) = Len(s) - n /\ \A i \in 1..Len(s) - n : b[i] = s[n + i]
    <3>1. n + 1 \in Int /\ Len(s) \in Int
      BY <1>1
    <3>2. /\ b \in Seq(Line)
          /\ Len(b) = IF n + 1 <= Len(s) THEN Len(s) - (n + 1) + 1 ELSE 0
          /\ \A i \in 1..Len(s) - (n + 1) + 1 : b[i] = s[n + 1 + i - 1]
      BY <2>1, <2>2, <3>1, SubSeqProperties
    <3>3. Len(s) - (n + 1) + 1 = Len(s) - n
      BY <1>1
    <3>4. Len(b) = Len(s) - n
      BY <1>1, <3>2
    <3>5. ASSUME NEW i \in 1..Len(s) - n PROVE b[i] = s[n + i]
      <4>1. n + 1 + i - 1 = n + i
        BY <1>1
      <4>2. b[i] = s[n + 1 + i - 1]
        BY <3>2, <3>3
      <4>3. QED
        BY <4>1, <4>2
    <3>6. QED
      BY <3>2, <3>4, <3>5
  <2>4. ASSUME NEW i \in 1..Len(b), b[i] = "$" PROVE i < Len(b) /\ b[i + 1] \in Keyed
    <3>1. n + i \in 1..Len(s) /\ s[n + i] = "$"
      BY <1>1, <2>3, <2>4
    <3>2. n + i < Len(s) /\ s[n + i + 1] \in Keyed
      BY <3>1 DEF Paired
    <3>3. i < Len(b) /\ i + 1 \in 1..Len(s) - n /\ n + (i + 1) = n + i + 1
      BY <1>1, <2>3, <3>2
    <3>4. QED
      BY <2>3, <3>2, <3>3
  <2>5. QED
    BY <2>1, <2>3, <2>4 DEF Paired
<1>4. QED
  BY <1>2, <1>3

(* What a SCAN finds is a finite set of entries of the cache.              *)
LEMMA FoundListed ==
  ASSUME store \subseteq Keys, NEW c, NEW p \in DOMAIN Spaces
  PROVE  /\ SetToSeq(Found(c, p)) \in Seq(Namespaces)
         /\ ToSet(SetToSeq(Found(c, p))) = Found(c, p)
<1>1. PICK F : F = Found(c, p)
  OBVIOUS
<1>2. F \subseteq Keys /\ F \subseteq Namespaces
  BY <1>1 DEF Found, Matched, Namespaces
<1>3. IsFiniteSet(F)
  BY <1>2, SpacesAssumption, FS_Subset
<1>4. SetToSeq(F) \in Seq(F) /\ ToSet(SetToSeq(F)) = F
  BY <1>3, SetToSeqLists
<1>5. SetToSeq(F) \in Seq(Namespaces)
  BY <1>2, <1>4, SeqMonotonic
<1>6. QED
  BY <1>1, <1>4, <1>5

(* Every reply of Redis is well formed.                                    *)
LEMMA WholeReplies ==
  ASSUME store \subseteq Keys, NEW command \in Request
  PROVE  ReplyTo(command) \in Seq(Line) /\ Paired(ReplyTo(command))
<1>1. ASSUME NEW m \in {"+", ":", "-"}
      PROVE  <<m>> \in Seq(Line) /\ Paired(<<m>>)
  <2>1. m \in Line /\ m # "$"
    BY DEF Line
  <2>2. <<m>> \in Seq(Line) /\ Len(<<m>>) = 1 /\ <<m>>[1] = m
    BY <2>1
  <2>3. QED
    BY <2>1, <2>2 DEF Paired
<1>2. CASE command = <<"SELECT">>
  <2>1. ReplyTo(command) = <<"+">>
    BY <1>2 DEF ReplyTo
  <2>2. QED
    BY <1>1, <2>1
<1>3. CASE command \in {<<"DEL", b>> : b \in SUBSET Named}
  <2>1. PICK b \in SUBSET Named : command = <<"DEL", b>>
    BY <1>3
  <2>2. ReplyTo(command) = <<":">>
    BY <2>1 DEF ReplyTo
  <2>3. QED
    BY <1>1, <2>2
<1>4. CASE command \in {<<"SCAN", c, p>> : c \in Line, p \in DOMAIN Spaces}
  <2>1. PICK c \in Line, p \in DOMAIN Spaces : command = <<"SCAN", c, p>>
    BY <1>4
  <2>2. command[1] = "SCAN" /\ command[2] = c /\ command[3] = p
    BY <2>1
  <2>3. CASE c \in ToSet(Cursors)
    <3>1. ReplyTo(command) = ScanReply(NextCursor(c), SetToSeq(Found(c, p)))
      BY <2>2, <2>3 DEF ReplyTo, ScanReply
    <3>2. SetToSeq(Found(c, p)) \in Seq(Namespaces)
      BY <2>1, FoundListed
    <3>3. QED
      BY <2>3, <3>1, <3>2, CursorsStay, ScanReplyPaired
  <2>4. CASE c \notin ToSet(Cursors)
    <3>1. ReplyTo(command) = <<"-">>
      BY <2>2, <2>4 DEF ReplyTo
    <3>2. QED
      BY <1>1, <3>1
  <2>5. QED
    BY <2>3, <2>4
<1>5. QED
  BY <1>2, <1>3, <1>4 DEF Request

-----------------------------------------------------------------------------
(* What holds whatever replies the loader is served.                       *)
Looping ==
  /\ pc \in {"select", "scan", "del", "done", "failed"}
  /\ pattern \in DOMAIN Spaces /\ cursor \in Line /\ batch \subseteq Named

WellFormed ==
  /\ store \subseteq Keys
  /\ commands \in Seq(Request)
  /\ stream \in Seq(Line) /\ Paired(stream)
  /\ Looping

LEMMA SpacesListed ==
  Len(Spaces) \in Nat \ {0} /\ DOMAIN Spaces = 1..Len(Spaces)
<1>1. Spaces \in Seq(SUBSET Namespaces) /\ Spaces # <<>>
  BY SpacesAssumption
<1>2. QED
  BY <1>1, EmptySeq, LenProperties

LEMMA CursorsListed ==
  /\ Len(Cursors) \in Nat \ {0} /\ DOMAIN Cursors = 1..Len(Cursors)
  /\ Cursors[1] = "0" /\ "0" \in ToSet(Cursors)
<1>1. Cursors \in Seq(STRING) /\ Cursors # <<>> /\ Cursors[1] = "0"
  BY CursorsAssumption
<1>2. Len(Cursors) \in Nat \ {0} /\ DOMAIN Cursors = 1..Len(Cursors)
  BY <1>1, EmptySeq, LenProperties
<1>3. Cursors[1] \in ToSet(Cursors)
  BY <1>2 DEF ToSet
<1>4. QED
  BY <1>1, <1>2, <1>3

LEMMA CommandsAreRequests ==
  ASSUME Looping, pc \in {"select", "scan", "del"}
  PROVE  Command \in Request
<1>1. CASE pc = "select"
  BY <1>1 DEF Command, Request
<1>2. CASE pc = "scan"
  BY <1>2 DEF Command, Request, Looping
<1>3. CASE pc = "del"
  <2>1. Command = <<"DEL", batch>> /\ batch \in SUBSET Named
    BY <1>3 DEF Command, Looping
  <2>2. QED
    BY <2>1 DEF Request
<1>4. QED
  BY <1>1, <1>2, <1>3

LEMMA TurnsKeepLooping ==
  ASSUME Looping, NEW next \in Line, EndTurn(next), batch' = {}
  PROVE  Looping'
<1>1. pattern \in 1..Len(Spaces) /\ Len(Spaces) \in Nat
  BY SpacesListed DEF Looping
<1>2. pattern' \in 1..Len(Spaces)
  BY <1>1 DEF EndTurn
<1>3. pattern' \in DOMAIN Spaces
  BY <1>2, SpacesListed
<1>4. QED
  BY <1>3 DEF EndTurn, Looping

LEMMA RepliesKeepLooping ==
  ASSUME Looping, NEW reply, Readable(reply), Receive(reply)
  PROVE  Looping'
<1>1. CASE pc = "select" /\ pc' = "scan" /\ UNCHANGED <<pattern, cursor, batch>>
  BY <1>1 DEF Looping
<1>2. CASE pc = "scan" /\ AfterScan(Parse(reply))
  <2>1. Parse(reply).cursor \in Line /\ Parse(reply).keys \subseteq Named
    BY ParseNames DEF Readable
  <2>2. PICK scan : scan = Parse(reply)
    OBVIOUS
  <2>3. CASE /\ pc' = "del" /\ batch' = scan.keys /\ cursor' = scan.cursor
             /\ UNCHANGED pattern
    BY <2>1, <2>2, <2>3 DEF Looping
  <2>4. CASE EndTurn(scan.cursor) /\ batch' = {}
    BY <2>1, <2>2, <2>4, TurnsKeepLooping
  <2>5. QED
    BY <1>2, <2>2, <2>3, <2>4 DEF AfterScan
<1>3. CASE pc = "del" /\ EndTurn(cursor) /\ batch' = {}
  <2>1. cursor \in Line
    BY DEF Looping
  <2>2. QED
    BY <1>3, <2>1, TurnsKeepLooping
<1>4. QED
  BY <1>1, <1>2, <1>3 DEF Receive

LEMMA WellFormedInit == Init => WellFormed
<1> SUFFICES ASSUME Init PROVE WellFormed
  OBVIOUS
<1>1. store \subseteq Keys /\ commands \in Seq(Request)
  BY DEF Init
<1>2. stream \in Seq(Line) /\ Paired(stream)
  BY DEF Init, Paired
<1>3. Looping
  <2>1. pattern \in DOMAIN Spaces
    BY SpacesListed DEF Init
  <2>2. cursor \in Line
    BY CursorsListed DEF Init, Line, Named, Keyed
  <2>3. QED
    BY <2>1, <2>2 DEF Init, Looping
<1>4. QED
  BY <1>1, <1>2, <1>3 DEF WellFormed

(* A command deletes entries of the cache, or what has the name of a       *)
(* cursor or none; that is nothing of the rest of the database.            *)
LEMMA DelSparesOthers ==
  ASSUME NEW command \in Request
  PROVE  (IF command[1] = "DEL" THEN command[2] ELSE {}) \intersect OtherKeys = {}
<1>1. CASE command \in {<<"DEL", b>> : b \in SUBSET Named}
  <2>1. PICK b \in SUBSET Named : command = <<"DEL", b>>
    BY <1>1
  <2>2. Named \intersect OtherKeys = {}
    BY SpacesAssumption, LinesAssumption DEF Named, Keyed, Blank
  <2>3. QED
    BY <2>1, <2>2
<1>2. CASE command = <<"SELECT">>
  BY <1>2
<1>3. CASE command \in {<<"SCAN", c, p>> : c \in Line, p \in DOMAIN Spaces}
  BY <1>3
<1>4. QED
  BY <1>1, <1>2, <1>3 DEF Request

LEMMA HandleKeeps ==
  ASSUME WellFormed, Handle
  PROVE  WellFormed' /\ OtherKeys \intersect store \subseteq store'
<1>1. PICK command : command = Head(commands)
  OBVIOUS
<1>2. command \in Request /\ commands' \in Seq(Request)
  BY <1>1, HeadTailProperties DEF WellFormed, Handle
<1>3. Looping'
  BY DEF WellFormed, Looping, Handle, client
<1>4. CASE /\ stream' = stream \o ReplyTo(command)
           /\ store' = store \ (IF command[1] = "DEL" THEN command[2] ELSE {})
  <2>1. stream' \in Seq(Line) /\ Paired(stream')
    BY <1>2, <1>4, WholeReplies, PairedConcat DEF WellFormed
  <2>2. store' \subseteq Keys
    BY <1>4 DEF WellFormed
  <2>3. OtherKeys \intersect store \subseteq store'
    BY <1>2, <1>4, DelSparesOthers
  <2>4. QED
    BY <1>2, <1>3, <2>1, <2>2, <2>3 DEF WellFormed, Paired
<1>5. CASE stream' = Append(stream, "-") /\ store' = store
  <2>1. <<"-">> \in Seq(Line) /\ Paired(<<"-">>)
    BY DEF Line, Paired
  <2>2. "-" \in Line
    BY DEF Line
  <2>3. stream' = stream \o <<"-">>
    BY <1>5, <2>2, AppendIsConcat DEF WellFormed
  <2>4. stream' \in Seq(Line) /\ Paired(stream')
    BY <2>1, <2>3, PairedConcat DEF WellFormed
  <2>5. QED
    BY <1>2, <1>3, <1>5, <2>4 DEF WellFormed, Paired
<1>6. QED
  BY <1>1, <1>4, <1>5 DEF Handle

LEMMA LoaderKeeps ==
  ASSUME WellFormed, Loader
  PROVE  WellFormed' /\ store' = store
<1>1. CASE Send
  <2>1. Looping' /\ store' = store /\ stream' = stream
    BY <1>1 DEF Send, WellFormed, Looping
  <2>2. commands' \in Seq(Request)
    BY <1>1, CommandsAreRequests, AppendProperties DEF Send, WellFormed
  <2>3. QED
    BY <2>1, <2>2 DEF WellFormed, Paired
<1>2. CASE Read
  <2>1. Readable(stream)
    BY DEF WellFormed, Readable, Paired
  <2>2. Looping'
    BY <1>2, <2>1, RepliesKeepLooping DEF Read, WellFormed
  <2>3. QED
    BY <1>2, <2>2 DEF Read, WellFormed, Paired
<1>3. CASE \E n \in 1..Len(stream) : ReadCut(n)
  <2>1. PICK n \in 1..Len(stream) : ReadCut(n)
    BY <1>3
  <2>2. /\ Readable(SubSeq(stream, 1, n))
        /\ stream' \in Seq(Line) /\ Paired(stream')
    BY <2>1, CutReplies DEF ReadCut, WellFormed
  <2>3. Looping'
    BY <2>1, <2>2, RepliesKeepLooping DEF ReadCut, WellFormed
  <2>4. QED
    BY <2>1, <2>2, <2>3 DEF ReadCut, WellFormed, Paired
<1>4. CASE ReadEof
  <2>1. Readable(<<>>)
    BY DEF Readable
  <2>2. Looping'
    BY <1>4, <2>1, RepliesKeepLooping DEF ReadEof, WellFormed
  <2>3. QED
    BY <1>4, <2>2 DEF ReadEof, WellFormed, Paired
<1>5. CASE Raise
  BY <1>5 DEF Raise, WellFormed, Paired, Looping
<1>6. QED
  BY <1>1, <1>2, <1>3, <1>4, <1>5 DEF Loader

LEMMA WellFormedStep ==
  ASSUME WellFormed, [Next]_vars
  PROVE  WellFormed' /\ OtherKeys \intersect store \subseteq store'
<1>1. CASE Loader
  BY <1>1, LoaderKeeps
<1>2. CASE Handle
  BY <1>2, HandleKeeps
<1>3. CASE \E how \in AllFaults : Break(how)
  BY <1>3 DEF Break, WellFormed, Paired, Looping, client
<1>4. CASE \E k \in Namespaces : Write(k) \/ Expire(k)
  <2>1. Namespaces \subseteq Keys /\ Namespaces \intersect OtherKeys = {}
    BY SpacesAssumption DEF Keys
  <2>2. QED
    BY <1>4, <2>1 DEF Write, Expire, WellFormed, Paired, Looping, client
<1>5. CASE UNCHANGED vars
  BY <1>5 DEF vars, WellFormed, Paired, Looping, client
<1>6. QED
  BY <1>1, <1>2, <1>3, <1>4, <1>5 DEF Next

(* Whatever is cut, refused or missing, the flush deletes entries of the   *)
(* two namespaces only (_flush_via_socket, load_osm.py:403-469): a reply   *)
(* read in pieces may pass a cursor or an empty line for a key, and that   *)
(* is why the other keys must not be named so.                             *)
THEOREM OthersSpared == Spec => KeepsToItsNamespaces
<1>1. Spec => []WellFormed
  BY WellFormedInit, WellFormedStep, PTL DEF Spec
<1>2. WellFormed /\ [Next]_vars => [OtherKeys \intersect store \subseteq store']_vars
  BY WellFormedStep
<1>3. QED
  BY <1>1, <1>2, PTL DEF Spec, KeepsToItsNamespaces

-----------------------------------------------------------------------------
(* A flush without trouble: the loader and Redis take turns, and what is   *)
(* owed lies ahead of the loop.                                            *)
Pos(c) == CHOOSE i \in DOMAIN Cursors : Cursors[i] = c

Ahead(k, p) ==
  \/ p > pattern
  \/ p = pattern /\ pc = "del" /\ k \in batch
  \/ p = pattern /\ (pc = "del" => cursor # "0") /\ Pos(Slot[k]) >= Pos(cursor)

Pending ==
  /\ owed \subseteq store
  /\ \A k \in owed : \E p \in DOMAIN Spaces : k \in Spaces[p] /\ Ahead(k, p)

(* The reply in the stream is the one to the command the loader is at.     *)
Answered ==
  \/ pc = "select"
  \/ pc = "del" /\ batch \intersect owed = {}
  \/ /\ pc = "scan" /\ Parse(stream).cursor = NextCursor(cursor)
     /\ \A k \in owed \intersect Spaces[pattern] :
          Slot[k] = cursor => k \in Parse(stream).keys

Lockstep ==
  /\ server = "up" /\ cursor \in ToSet(Cursors) /\ pc # "failed"
  /\ \/ ~waiting /\ commands = <<>> /\ stream = <<>>
     \/ waiting /\ commands = <<Command>> /\ stream = <<>> /\ pc # "done"
     \/ waiting /\ commands = <<>> /\ stream # <<>> /\ Answered
  /\ pc = "select" => pattern = 1 /\ cursor = "0"

Untroubled == Lockstep /\ IF pc = "done" THEN owed = {} ELSE Pending

InStep == trouble = {} => Untroubled

(* A SCAN goes through the cursors in their order, and "0" ends it.        *)
LEMMA Positions ==
  ASSUME NEW c \in ToSet(Cursors)
  PROVE  /\ Pos(c) \in 1..Len(Cursors) /\ Cursors[Pos(c)] = c
         /\ Pos("0") = 1
         /\ Pos(c) = Len(Cursors) => NextCursor(c) = "0"
         /\ Pos(c) # Len(Cursors) => /\ NextCursor(c) # "0"
                                     /\ Pos(NextCursor(c)) = Pos(c) + 1
<1>1. /\ Len(Cursors) \in Nat \ {0} /\ DOMAIN Cursors = 1..Len(Cursors)
      /\ Cursors[1] = "0" /\ "0" \in ToSet(Cursors)
  BY CursorsListed
<1>2. \A i, j \in 1..Len(Cursors) : Cursors[i] = Cursors[j] => i = j
  BY <1>1, CursorsAssumption DEF IsInjective
<1>3. ASSUME NEW d \in ToSet(Cursors)
      PROVE  Pos(d) \in 1..Len(Cursors) /\ Cursors[Pos(d)] = d
  <2>1. \E i \in DOMAIN Cursors : Cursors[i] = d
    BY <1>1, <1>3 DEF ToSet
  <2>2. QED
    BY <1>1, <2>1 DEF Pos
<1>4. ASSUME NEW i \in 1..Len(Cursors) PROVE Pos(Cursors[i]) = i
  <2>1. Cursors[i] \in ToSet(Cursors)
    BY <1>1 DEF ToSet
  <2>2. QED
    BY <1>2, <1>3, <2>1
<1>5. Pos("0") = 1
  <2>1. 1 \in 1..Len(Cursors)
    BY <1>1
  <2>2. QED
    BY <1>1, <1>4, <2>1
<1>6. NextCursor(c) = IF Pos(c) = Len(Cursors) THEN "0" ELSE Cursors[Pos(c) + 1]
  BY DEF NextCursor, Pos
<1>7. ASSUME Pos(c) # Len(Cursors)
      PROVE  NextCursor(c) # "0" /\ Pos(NextCursor(c)) = Pos(c) + 1
  <2>1. ASSUME NEW i \in 1..Len(Cursors), i # Len(Cursors)
        PROVE  i + 1 \in 1..Len(Cursors) /\ i + 1 # 1
    <3>1. ASSUME NEW m \in Nat, i \in 1..m, i # m PROVE i + 1 \in 1..m /\ i + 1 # 1
      BY <3>1
    <3>2. QED
      BY <1>1, <2>1, <3>1
  <2>2. Pos(c) + 1 \in 1..Len(Cursors) /\ Pos(c) + 1 # 1
    BY <1>3, <1>7, <2>1
  <2>3. NextCursor(c) = Cursors[Pos(c) + 1]
    BY <1>6, <1>7
  <2>4. Pos(NextCursor(c)) = Pos(c) + 1
    BY <1>4, <2>2, <2>3
  <2>5. QED
    BY <1>5, <2>2, <2>4
<1>8. QED
  BY <1>3, <1>5, <1>6, <1>7

(* The end of a turn leaves nothing owed behind.                           *)
Remaining(next) ==
  \A k \in owed : \E p \in DOMAIN Spaces :
    /\ k \in Spaces[p]
    /\ p > pattern \/ (p = pattern /\ next # "0" /\ Pos(Slot[k]) >= Pos(next))

LEMMA SlotsAreCursors ==
  ASSUME store \subseteq Keys, owed \subseteq store, NEW k \in owed
  PROVE  Slot[k] \in ToSet(Cursors) /\ Pos(Slot[k]) \in Nat /\ Pos(Slot[k]) >= 1
<1>1. Slot[k] \in ToSet(Cursors)
  BY CursorsAssumption
<1>2. QED
  BY <1>1, Positions, CursorsListed

LEMMA TurnsLeaveNothing ==
  ASSUME WellFormed, owed \subseteq store, NEW next \in ToSet(Cursors),
         Remaining(next), EndTurn(next), UNCHANGED <<store, owed>>
  PROVE  /\ pc' \in {"scan", "done"} /\ cursor' \in ToSet(Cursors)
         /\ IF pc' = "done" THEN owed' = {} ELSE Pending'
<1>1. pattern \in 1..Len(Spaces) /\ Len(Spaces) \in Nat /\ DOMAIN Spaces = 1..Len(Spaces)
  BY SpacesListed DEF WellFormed, Looping
<1>2. CASE next # "0" /\ pc' = "scan" /\ pattern' = pattern
  <2>1. cursor' = next
    BY DEF EndTurn
  <2>2. ASSUME NEW k \in owed'
        PROVE  \E p \in DOMAIN Spaces : k \in Spaces[p] /\ Ahead(k, p)'
    <3>1. PICK p \in DOMAIN Spaces :
            k \in Spaces[p] /\ (p > pattern \/ (p = pattern /\ Pos(Slot[k]) >= Pos(next)))
      BY <2>2 DEF Remaining
    <3>2. Ahead(k, p)'
      BY <1>2, <2>1, <3>1 DEF Ahead
    <3>3. QED
      BY <3>1, <3>2
  <2>3. QED
    BY <1>2, <2>1, <2>2 DEF Pending
<1>3. CASE next = "0" /\ pattern < Len(Spaces) /\ pc' = "scan" /\ pattern' = pattern + 1
  <2>1. cursor' = "0" /\ Pos("0") = 1
    BY <1>3, Positions DEF EndTurn
  <2>2. ASSUME NEW k \in owed'
        PROVE  \E p \in DOMAIN Spaces : k \in Spaces[p] /\ Ahead(k, p)'
    <3>1. PICK p \in DOMAIN Spaces : k \in Spaces[p] /\ p > pattern
      BY <1>3, <2>2 DEF Remaining
    <3>2. Pos(Slot[k]) \in Nat /\ Pos(Slot[k]) >= 1
      BY <2>2, SlotsAreCursors DEF WellFormed
    <3>3. p > pattern' \/ p = pattern'
      BY <1>1, <1>3, <3>1
    <3>4. Ahead(k, p)'
      BY <1>3, <2>1, <3>2, <3>3 DEF Ahead
    <3>5. QED
      BY <3>1, <3>4
  <2>3. QED
    BY <1>3, <2>1, <2>2 DEF Pending
<1>4. CASE next = "0" /\ pattern = Len(Spaces) /\ pc' = "done"
  <2>1. cursor' = next
    BY DEF EndTurn
  <2>2. owed = {}
    <3>1. \A p \in DOMAIN Spaces : ~(p > pattern)
      BY <1>1, <1>4
    <3>2. QED
      BY <1>4, <3>1 DEF Remaining
  <2>3. QED
    BY <1>4, <2>1, <2>2
<1>5. QED
  BY <1>2, <1>3, <1>4 DEF EndTurn

(* What the loader makes of the reply to its command.                      *)
LEMMA RepliesLeaveNothing ==
  ASSUME WellFormed, Lockstep, Pending, Answered, Receive(stream), stream' = <<>>,
         UNCHANGED <<store, owed, server, commands>>, commands = <<>>
  PROVE  Untroubled'
<1>1. owed \subseteq store /\ store \subseteq Keys /\ cursor \in ToSet(Cursors)
  BY DEF Pending, WellFormed, Lockstep
<1>2. server' = "up" /\ waiting' = FALSE /\ commands' = <<>> /\ stream' = <<>>
  BY DEF Receive, Lockstep
<1>3. SUFFICES /\ pc' \in {"scan", "del", "done"} /\ cursor' \in ToSet(Cursors)
               /\ IF pc' = "done" THEN owed' = {} ELSE Pending'
  BY <1>2 DEF Untroubled, Lockstep
<1>4. CASE pc = "select" /\ pc' = "scan" /\ UNCHANGED <<pattern, cursor, batch>>
  <2>1. ASSUME NEW k \in owed, NEW p \in DOMAIN Spaces, Ahead(k, p) PROVE Ahead(k, p)'
    BY <1>4, <2>1 DEF Ahead
  <2>2. QED
    BY <1>1, <1>4, <2>1 DEF Pending
<1>5. CASE pc = "scan" /\ AfterScan(Parse(stream))
  <2>1. PICK scan : scan = Parse(stream)
    OBVIOUS
  <2>2. /\ scan.cursor = NextCursor(cursor)
        /\ \A k \in owed \intersect Spaces[pattern] : Slot[k] = cursor => k \in scan.keys
    BY <1>5, <2>1 DEF Answered
  <2>3. NextCursor(cursor) \in ToSet(Cursors)
    BY <1>1, CursorsStay
  <2>4. ASSUME NEW k \in owed
        PROVE  \E p \in DOMAIN Spaces :
                 /\ k \in Spaces[p]
                 /\ \/ p > pattern
                    \/ p = pattern /\ k \in scan.keys
                    \/ /\ p = pattern /\ NextCursor(cursor) # "0"
                       /\ Pos(Slot[k]) >= Pos(NextCursor(cursor))
    <3>1. PICK p \in DOMAIN Spaces :
            k \in Spaces[p] /\ (p > pattern \/ (p = pattern /\ Pos(Slot[k]) >= Pos(cursor)))
      BY <1>5 DEF Pending, Ahead
    <3>2. Slot[k] \in ToSet(Cursors) /\ Pos(Slot[k]) \in Nat
      BY <1>1, SlotsAreCursors
    <3>3. CASE p > pattern
      BY <3>1, <3>3
    <3>4. CASE p = pattern /\ Pos(Slot[k]) = Pos(cursor)
      <4>1. Slot[k] = cursor
        BY <1>1, <3>2, <3>4, Positions
      <4>2. QED
        BY <2>2, <3>1, <3>4, <4>1
    <3>5. CASE p = pattern /\ Pos(Slot[k]) >= Pos(cursor) /\ Pos(Slot[k]) # Pos(cursor)
      <4>1. Pos(cursor) \in 1..Len(Cursors) /\ Pos(Slot[k]) \in 1..Len(Cursors)
        BY <1>1, <3>2, Positions
      <4>2. Pos(cursor) # Len(Cursors) /\ Pos(Slot[k]) >= Pos(cursor) + 1
        BY <3>5, <4>1, CursorsListed
      <4>3. NextCursor(cursor) # "0" /\ Pos(NextCursor(cursor)) = Pos(cursor) + 1
        BY <1>1, <4>2, Positions
      <4>4. QED
        BY <3>1, <3>5, <4>2, <4>3
    <3>6. QED
      BY <3>1, <3>3, <3>4, <3>5
  <2>5. CASE /\ pc' = "del" /\ batch' = scan.keys /\ cursor' = scan.cursor
             /\ UNCHANGED pattern
    <3>1. ASSUME NEW k \in owed'
          PROVE  \E p \in DOMAIN Spaces : k \in Spaces[p] /\ Ahead(k, p)'
      <4>1. PICK p \in DOMAIN Spaces :
              /\ k \in Spaces[p]
              /\ \/ p > pattern
                 \/ p = pattern /\ k \in scan.keys
                 \/ /\ p = pattern /\ NextCursor(cursor) # "0"
                    /\ Pos(Slot[k]) >= Pos(NextCursor(cursor))
        BY <2>4, <3>1
      <4>2. Ahead(k, p)'
        BY <2>2, <2>5, <4>1 DEF Ahead
      <4>3. QED
        BY <4>1, <4>2
    <3>2. QED
      BY <1>1, <2>2, <2>3, <2>5, <3>1 DEF Pending
  <2>6. CASE scan.keys = {} /\ EndTurn(scan.cursor)
    <3>1. Remaining(scan.cursor)
      BY <2>2, <2>4, <2>6 DEF Remaining
    <3>2. QED
      BY <1>1, <2>2, <2>3, <2>6, <3>1, TurnsLeaveNothing
  <2>7. QED
    BY <1>5, <2>1, <2>5, <2>6 DEF AfterScan
<1>6. CASE pc = "del" /\ EndTurn(cursor)
  <2>1. batch \intersect owed = {}
    BY <1>6 DEF Answered
  <2>2. Remaining(cursor)
    BY <1>6, <2>1 DEF Remaining, Pending, Ahead
  <2>3. QED
    BY <1>1, <1>6, <2>2, TurnsLeaveNothing
<1>7. QED
  BY <1>4, <1>5, <1>6 DEF Receive

(* Less is owed, and nothing else changes that Pending speaks of.          *)
LEMMA PendingShrinks ==
  ASSUME Pending, owed' \subseteq owed, owed' \subseteq store',
         UNCHANGED <<pc, pattern, cursor, batch>>
  PROVE  Pending'
<1>1. ASSUME NEW k \in owed, NEW p \in DOMAIN Spaces, Ahead(k, p) PROVE Ahead(k, p)'
  BY <1>1 DEF Ahead
<1>2. QED
  BY <1>1 DEF Pending

LEMMA HandleAnswers ==
  ASSUME WellFormed, Untroubled, Handle, trouble' = {}
  PROVE  Untroubled'
<1>1. /\ server = "up" /\ cursor \in ToSet(Cursors) /\ pc # "failed" /\ waiting
      /\ commands = <<Command>> /\ stream = <<>> /\ pc # "done"
      /\ (pc = "select" => pattern = 1 /\ cursor = "0")
  BY DEF Untroubled, Lockstep, Handle
<1>2. Pending /\ pc \in {"select", "scan", "del"} /\ store \subseteq Keys
  BY <1>1 DEF Untroubled, WellFormed, Looping
<1>3. PICK command : command = Command
  OBVIOUS
<1>4. Head(commands) = command /\ Tail(commands) = <<>>
  BY <1>1, <1>3
<1>5. PICK deleted : deleted = IF command[1] = "DEL" THEN command[2] ELSE {}
  OBVIOUS
<1>6. /\ commands' = <<>> /\ stream' = stream \o ReplyTo(command)
      /\ store' = store \ deleted /\ owed' = owed \ deleted
      /\ UNCHANGED <<server, pc, waiting, pattern, cursor, batch>>
  BY <1>4, <1>5 DEF Handle, client
<1>7. stream' = ReplyTo(command)
  <2>1. command \in Request
    BY <1>2, <1>3, CommandsAreRequests DEF WellFormed
  <2>2. ReplyTo(command) \in Seq(Line)
    BY <1>2, <2>1, WholeReplies
  <2>3. QED
    BY <1>1, <1>6, <2>2, ConcatEmptySeq
<1>8. Pending'
  BY <1>2, <1>6, PendingShrinks DEF Pending
<1>9. stream' # <<>> /\ Answered'
  <2>1. CASE pc = "select"
    <3>1. stream' = <<"+">>
      BY <1>3, <1>7, <2>1 DEF Command, ReplyTo
    <3>2. QED
      BY <1>6, <2>1, <3>1 DEF Answered
  <2>2. CASE pc = "del"
    <3>1. command = <<"DEL", batch>>
      BY <1>3, <2>2 DEF Command
    <3>2. command[1] = "DEL" /\ command[2] = batch
      BY <3>1
    <3>3. stream' = <<":">> /\ deleted = batch
      BY <1>5, <1>7, <3>2 DEF ReplyTo
    <3>4. QED
      BY <1>6, <2>2, <3>3 DEF Answered
  <2>3. CASE pc = "scan"
    <3>1. command = <<"SCAN", cursor, pattern>>
      BY <1>3, <2>3 DEF Command
    <3>2. command[1] = "SCAN" /\ command[2] = cursor /\ command[3] = pattern
      BY <3>1
    <3>3. stream' = ScanReply(NextCursor(cursor), SetToSeq(Found(cursor, pattern)))
      BY <1>1, <1>7, <3>2 DEF ReplyTo, ScanReply
    <3>4. pattern \in DOMAIN Spaces
      BY DEF WellFormed, Looping
    <3>5. PICK s : s = SetToSeq(Found(cursor, pattern))
      OBVIOUS
    <3>6. s \in Seq(Namespaces) /\ ToSet(s) = Found(cursor, pattern)
      BY <1>2, <3>4, <3>5, FoundListed
    <3>7. stream' # <<>>
      BY <1>1, <3>3, <3>5, <3>6, CursorsStay, ScanReplyPaired
    <3>8. /\ Parse(stream').cursor = NextCursor(cursor)
          /\ Parse(stream').keys = Found(cursor, pattern)
      BY <3>3, <3>5, <3>6, ParseScanReply
    <3>9. owed' \subseteq store
      BY <1>2, <1>6 DEF Pending
    <3>10. \A k \in owed' \intersect Spaces[pattern] :
             Slot[k] = cursor => k \in Parse(stream').keys
      BY <3>8, <3>9 DEF Found, Matched
    <3>11. QED
      BY <1>6, <2>3, <3>7, <3>8, <3>10 DEF Answered
  <2>4. QED
    BY <1>2, <2>1, <2>2, <2>3
<1>10. QED
  BY <1>1, <1>6, <1>8, <1>9 DEF Untroubled, Lockstep

LEMMA LoaderAnswered ==
  ASSUME WellFormed, Untroubled, Loader, trouble' = {}
  PROVE  Untroubled'
<1>1. server = "up"
  BY DEF Untroubled, Lockstep
<1>2. CASE Send
  <2>1. /\ pc \in {"select", "scan", "del"} /\ ~waiting /\ waiting' = TRUE
        /\ commands' = Append(commands, Command) /\ commands = <<>> /\ stream = <<>>
        /\ UNCHANGED <<store, owed, server, stream, pc, pattern, cursor, batch>>
    BY <1>1, <1>2 DEF Send, Untroubled, Lockstep
  <2>2. commands' = <<Command>> /\ Command' = Command
    BY <2>1 DEF Command
  <2>3. Pending'
    BY <2>1, PendingShrinks DEF Untroubled, Pending
  <2>4. QED
    BY <2>1, <2>2, <2>3 DEF Untroubled, Lockstep
<1>3. CASE Read
  <2>1. waiting /\ stream # <<>> /\ commands = <<>> /\ Answered
    BY <1>3 DEF Read, Untroubled, Lockstep
  <2>2. Pending
    BY <2>1 DEF Untroubled, Answered
  <2>3. QED
    BY <1>3, <2>1, <2>2, RepliesLeaveNothing DEF Read, Untroubled
<1>4. ~ReadEof /\ ~Raise
  BY <1>1 DEF ReadEof, Raise
<1>5. ~\E n \in 1..Len(stream) : ReadCut(n)
  BY DEF ReadCut
<1>6. QED
  BY <1>2, <1>3, <1>4, <1>5 DEF Loader

LEMMA InStepInit == Init => InStep
<1> SUFFICES ASSUME Init PROVE Untroubled
  BY DEF InStep
<1>1. cursor \in ToSet(Cursors)
  BY CursorsListed DEF Init
<1>2. owed \subseteq store
  BY DEF Init
<1>3. ASSUME NEW k \in owed
      PROVE  \E p \in DOMAIN Spaces : k \in Spaces[p] /\ Ahead(k, p)
  <2>1. PICK p \in DOMAIN Spaces : k \in Spaces[p]
    BY DEF Init, Namespaces
  <2>2. Pos(Slot[k]) \in Nat /\ Pos(Slot[k]) >= 1
    BY <1>2, SlotsAreCursors DEF Init
  <2>3. Pos("0") = 1
    BY <1>1, Positions
  <2>4. p = 1 \/ p > 1
    BY SpacesListed
  <2>5. Ahead(k, p)
    BY <2>2, <2>3, <2>4 DEF Ahead, Init
  <2>6. QED
    BY <2>1, <2>5
<1>4. QED
  BY <1>1, <1>2, <1>3 DEF Init, Untroubled, Lockstep, Pending

LEMMA InStepStep ==
  ASSUME WellFormed, InStep, [Next]_vars
  PROVE  InStep'
<1> SUFFICES ASSUME trouble' = {} PROVE Untroubled'
  BY DEF InStep
<1>1. trouble = {}
  BY DEF Next, Loader, Send, Read, ReadCut, ReadEof, Raise, Handle, Break, Write,
         Expire, vars
<1>2. Untroubled
  BY <1>1 DEF InStep
<1>3. CASE Loader
  BY <1>2, <1>3, LoaderAnswered
<1>4. CASE Handle
  BY <1>2, <1>4, HandleAnswers
<1>5. CASE \E how \in AllFaults : Break(how)
  BY <1>5 DEF Break
<1>6. CASE \E k \in Namespaces : pc \notin {"done", "failed"} /\ (Write(k) \/ Expire(k))
  <2>1. PICK k \in Namespaces : pc \notin {"done", "failed"} /\ (Write(k) \/ Expire(k))
    BY <1>6
  <2>2. /\ owed' \subseteq owed
        /\ UNCHANGED <<server, commands, stream, pc, waiting, pattern, cursor, batch>>
    BY <2>1 DEF Write, Expire, client
  <2>3. Pending
    BY <1>2, <2>1 DEF Untroubled
  <2>4. owed' \subseteq store'
    BY <2>1, <2>3 DEF Write, Expire, Pending
  <2>5. Pending'
    BY <2>2, <2>3, <2>4, PendingShrinks
  <2>6. Lockstep'
    <3>1. Command' = Command
      BY <2>2 DEF Command
    <3>2. Answered => Answered'
      BY <2>2 DEF Answered
    <3>3. QED
      BY <1>2, <2>2, <3>1, <3>2 DEF Untroubled, Lockstep
  <2>7. QED
    BY <2>1, <2>2, <2>5, <2>6 DEF Untroubled
<1>7. CASE UNCHANGED vars
  <2>1. UNCHANGED <<store, owed, server, commands, stream, pc, waiting, pattern, cursor, batch>>
    BY <1>7 DEF vars, client
  <2>2. Pending => Pending'
    BY <2>1, PendingShrinks DEF Pending
  <2>3. Command' = Command /\ (Answered => Answered')
    BY <2>1 DEF Command, Answered
  <2>4. QED
    BY <1>2, <2>1, <2>2, <2>3 DEF Untroubled, Lockstep
<1>8. QED
  BY <1>3, <1>4, <1>5, <1>6, <1>7 DEF Next

(* A flush that logs "flush done", with every reply whole and none an      *)
(* error, has deleted every entry of both namespaces that it found and     *)
(* that nobody wrote again, whatever requests cached and Redis expired     *)
(* between its commands (_flush_via_socket, load_osm.py:452-466).          *)
THEOREM FlushedWhenDone == Spec => []DoneMeansFlushed
<1>1. InStep => DoneMeansFlushed
  BY DEF InStep, Untroubled, DoneMeansFlushed
<1>2. QED
  BY <1>1, WellFormedInit, WellFormedStep, InStepInit, InStepStep, PTL DEF Spec
=============================================================================
