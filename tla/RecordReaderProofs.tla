------------------------- MODULE RecordReaderProofs -------------------------
(***************************************************************************)
(* Proofs about RecordReader, for every set of bytes, every text and every *)
(* way it grows and is polled: the reader splits bytes into their lines,   *)
(* the polls return the lines of what they consumed, and lines are         *)
(* determined by the bytes, so that polls and one reading agree.           *)
(***************************************************************************)
EXTENDS RecordReader, SequenceTheorems, WellFoundedInduction, TLAPS

(* A set of positions has a first one.                                     *)
LEMMA FirstExists ==
  ASSUME NEW T \in SUBSET Nat, T # {}
  PROVE  \E m \in T : \A k \in T : m <= k
<1> DEFINE R == OpToRel(<, Nat)
<1>1. IsWellFoundedOn(R, Nat)
  BY NatLessThanWellFounded
<1>2. \A x, y \in Nat : <<x, y>> \in R <=> x < y
  BY DEF OpToRel
<1> HIDE DEF R
<1>3. PICK m \in T : \A k \in T : ~ (<<k, m>> \in R)
  BY <1>1, WFMin
<1>4. \A k \in T : ~ (k < m)
  BY <1>2, <1>3
<1>5. \A k \in T : m <= k
  BY <1>4
<1> QED BY <1>5

(* The last newline is inside the bytes.                                   *)
LEMMA ConsumableEndsLine ==
  ASSUME NEW t \in Seq(Byte), Consumable(t) # 0
  PROVE  Consumable(t) \in 1 .. Len(t) /\ t[Consumable(t)] = NL
<1> DEFINE I == {p \in 1 .. Len(t) : t[p] = NL}
<1> DEFINE D == {d \in Nat : Len(t) - d \in I}
<1>1. Consumable(t) = (IF I # {} THEN Max(I) ELSE 0)
  BY DEF Consumable, SelectLastInSeq
<1>2. PICK p \in I : TRUE
  BY <1>1
<1>3. Len(t) \in Nat /\ I \subseteq 1 .. Len(t)
  BY LenProperties
<1>4. \A p1 \in I : t[p1] = NL
  OBVIOUS
<1> HIDE DEF I
<1>5. Len(t) - p \in D /\ D \in SUBSET Nat
  BY <1>2, <1>3
<1>6. PICK d \in D : \A e \in D : d <= e
  <2> HIDE DEF D
  <2> QED BY <1>5, FirstExists
<1>7. Len(t) - d \in I /\ \A q \in I : Len(t) - d >= q
  <2>1. \A q \in I : Len(t) - q \in D
    BY <1>3
  <2> QED BY <1>3, <1>6, <2>1
<1>8. Max(I) \in I
  BY <1>7 DEF Max
<1> QED BY <1>1, <1>2, <1>3, <1>4, <1>8

(* A line that its newline ends within the first n bytes of t.             *)
IsWholeLine(r, t, n) ==
  /\ After(r) <= n
  /\ \A j \in 1 .. Len(r.bytes) :
       r.bytes[j] = t[r.byte_offset + j] /\ r.bytes[j] # NL
  /\ t[After(r)] = NL

AreWholeLines(recs, t, n) ==
  /\ Follows(recs)
  /\ \A k \in 1 .. Len(recs) : IsWholeLine(recs[k], t, n)
  /\ Reached(recs) = n

(* Fields of a record.                                                     *)
LEMMA RecordFields ==
  ASSUME NEW r \in RecordType
  PROVE  /\ r.bytes \in Seq(Byte) /\ Len(r.bytes) \in Nat
         /\ r.byte_offset \in Nat /\ r.line_no \in Nat
         /\ EndOf(r) \in Nat /\ After(r) \in Nat
         /\ EndOf(r) = r.byte_offset + Len(r.bytes) /\ After(r) = EndOf(r) + 1
<1>1. /\ r.bytes \in Seq(Byte) /\ r.byte_offset \in Nat /\ r.line_no \in Nat
  BY DEF RecordType
<1>2. Len(r.bytes) \in Nat
  BY <1>1, LenProperties
<1> QED BY <1>1, <1>2 DEF EndOf, After

(* Elements of a sequence of records.                                      *)
LEMMA RecordAt ==
  ASSUME NEW recs \in Seq(RecordType), NEW k \in 1 .. Len(recs)
  PROVE  recs[k] \in RecordType
BY LenProperties

(* A whole line is a line of any longer prefix of the text.                *)
LEMMA WholeLineIsLine ==
  ASSUME NEW r \in RecordType, NEW t, NEW n \in Nat, NEW m \in Nat, n <= m,
         IsWholeLine(r, t, n)
  PROVE  IsWholeLine(r, t, m) /\ IsLine(r, t, m)
<1>1. /\ r.byte_offset \in Nat /\ Len(r.bytes) \in Nat
      /\ EndOf(r) = r.byte_offset + Len(r.bytes) /\ After(r) = EndOf(r) + 1
  BY RecordFields
<1>2. After(r) <= m /\ r.byte_offset < m /\ EndOf(r) <= m
  BY <1>1 DEF IsWholeLine
<1> QED BY <1>1, <1>2 DEF IsWholeLine, IsLine

(* Whole lines that reach n are the lines of the first n bytes.            *)
LEMMA WholeLinesAreLines ==
  ASSUME NEW recs \in Seq(RecordType), NEW t, NEW n \in Nat,
         AreWholeLines(recs, t, n)
  PROVE  AreLines(recs, t, n)
<1>1. \A k \in 1 .. Len(recs) : IsLine(recs[k], t, n)
  BY RecordAt, WholeLineIsLine DEF AreWholeLines
<1> QED BY <1>1 DEF AreWholeLines, AreLines

(* A record that begins where the others end continues them.               *)
LEMMA AppendFollows ==
  ASSUME NEW recs \in Seq(RecordType), NEW r \in RecordType,
         Follows(recs), r.byte_offset = Reached(recs)
  PROVE  /\ Append(recs, r) \in Seq(RecordType)
         /\ Len(Append(recs, r)) = Len(recs) + 1
         /\ \A k \in 1 .. Len(recs) : Append(recs, r)[k] = recs[k]
         /\ Append(recs, r)[Len(recs) + 1] = r
         /\ Follows(Append(recs, r))
         /\ Reached(Append(recs, r)) = After(r)
<1> DEFINE more == Append(recs, r)
<1>1. /\ more \in Seq(RecordType) /\ Len(more) = Len(recs) + 1
      /\ more[Len(recs) + 1] = r
      /\ \A k \in 1 .. Len(recs) : more[k] = recs[k]
      /\ Len(recs) \in Nat
  BY AppendProperties, LenProperties
<1> HIDE DEF more
<1>2. Follows(more)
  <2> SUFFICES ASSUME NEW k \in 1 .. Len(more)
               PROVE  more[k].byte_offset = IF k = 1 THEN 0 ELSE After(more[k - 1])
    BY DEF Follows
  <2>1. CASE k <= Len(recs)
    <3>1. more[k] = recs[k] /\ (k # 1 => more[k - 1] = recs[k - 1])
      BY <1>1, <2>1
    <3>2. recs[k].byte_offset = IF k = 1 THEN 0 ELSE After(recs[k - 1])
      BY <1>1, <2>1 DEF Follows
    <3> QED BY <3>1, <3>2
  <2>2. CASE k = Len(recs) + 1
    <3>1. CASE Len(recs) = 0
      BY <1>1, <2>2, <3>1, EmptySeq DEF Reached
    <3>2. CASE Len(recs) # 0
      <4>1. recs # <<>> /\ k # 1 /\ k - 1 = Len(recs) /\ Len(recs) \in 1 .. Len(recs)
        BY <1>1, <2>2, <3>2
      <4>2. more[k] = r /\ more[k - 1] = recs[Len(recs)]
        BY <1>1, <2>2, <4>1
      <4> QED BY <4>1, <4>2 DEF Reached
    <3> QED BY <3>1, <3>2
  <2> QED BY <1>1, <2>1, <2>2
<1>3. Reached(more) = After(r)
  <2>1. more # <<>>
    BY <1>1
  <2> QED BY <1>1, <2>1 DEF Reached
<1> QED BY <1>1, <1>2, <1>3 DEF more

-----------------------------------------------------------------------------
(* Lines are determined by the bytes: two sequences of records that both   *)
(* are the lines of the first n bytes of t agree record by record.         *)

(* Two lines of t that begin at the same byte are the same bytes.          *)
LEMMA SameStartSameLine ==
  ASSUME NEW a \in RecordType, NEW b \in RecordType, NEW t, NEW n \in Nat,
         IsLine(a, t, n), IsLine(b, t, n), a.byte_offset = b.byte_offset
  PROVE  a.bytes = b.bytes
<1>1. /\ a.bytes \in Seq(Byte) /\ Len(a.bytes) \in Nat /\ a.byte_offset \in Nat
      /\ b.bytes \in Seq(Byte) /\ Len(b.bytes) \in Nat
      /\ EndOf(a) = a.byte_offset + Len(a.bytes)
      /\ EndOf(b) = a.byte_offset + Len(b.bytes)
  BY RecordFields
<1>2. ~ (Len(a.bytes) < Len(b.bytes))
  <2> SUFFICES ASSUME Len(a.bytes) < Len(b.bytes) PROVE FALSE
    OBVIOUS
  <2>1. EndOf(a) < n /\ Len(a.bytes) + 1 \in 1 .. Len(b.bytes)
    BY <1>1 DEF IsLine
  <2>2. t[EndOf(a) + 1] = NL
    BY <2>1 DEF IsLine
  <2>3. t[b.byte_offset + (Len(a.bytes) + 1)] # NL
    BY <2>1 DEF IsLine
  <2>4. b.byte_offset + (Len(a.bytes) + 1) = EndOf(a) + 1
    BY <1>1
  <2> QED BY <2>2, <2>3, <2>4
<1>3. ~ (Len(b.bytes) < Len(a.bytes))
  <2> SUFFICES ASSUME Len(b.bytes) < Len(a.bytes) PROVE FALSE
    OBVIOUS
  <2>1. EndOf(b) < n /\ Len(b.bytes) + 1 \in 1 .. Len(a.bytes)
    BY <1>1 DEF IsLine
  <2>2. t[EndOf(b) + 1] = NL
    BY <2>1 DEF IsLine
  <2>3. t[a.byte_offset + (Len(b.bytes) + 1)] # NL
    BY <2>1 DEF IsLine
  <2>4. a.byte_offset + (Len(b.bytes) + 1) = EndOf(b) + 1
    BY <1>1
  <2> QED BY <2>2, <2>3, <2>4
<1>4. Len(a.bytes) = Len(b.bytes)
  BY <1>1, <1>2, <1>3
<1>5. \A j \in 1 .. Len(a.bytes) : a.bytes[j] = b.bytes[j]
  BY <1>4 DEF IsLine
<1> QED BY <1>1, <1>4, <1>5, SeqEqual

Same(a, b) == a.byte_offset = b.byte_offset /\ a.bytes = b.bytes

(* Every record of one reading stands at the same place in the other.      *)
LEMMA LinesAgree ==
  ASSUME NEW a \in Seq(RecordType), NEW b \in Seq(RecordType), NEW t, NEW n \in Nat,
         AreLines(a, t, n), AreLines(b, t, n)
  PROVE  \A k \in 1 .. Len(a) : k \in 1 .. Len(b) /\ Same(a[k], b[k])
<1> DEFINE Agree(k) == k \in 1 .. Len(b) /\ Same(a[k], b[k])
<1> DEFINE Bad == {k \in 1 .. Len(a) : ~Agree(k)}
<1> SUFFICES ASSUME Bad # {} PROVE FALSE
  OBVIOUS
<1>1. Len(a) \in Nat /\ Len(b) \in Nat
  BY LenProperties
<1>2. PICK k \in Bad : \A j \in Bad : k <= j
  <2>1. Bad \in SUBSET Nat
    OBVIOUS
  <2> HIDE DEF Bad
  <2> QED BY <2>1, FirstExists
<1>3. k \in 1 .. Len(a) /\ ~Agree(k)
  OBVIOUS
<1>4. k # 1 => k - 1 \in 1 .. Len(a) /\ Agree(k - 1)
  <2> SUFFICES ASSUME k # 1 PROVE k - 1 \in 1 .. Len(a) /\ Agree(k - 1)
    OBVIOUS
  <2>1. k - 1 \in 1 .. Len(a) /\ ~ (k <= k - 1)
    BY <1>1, <1>3
  <2>2. k - 1 \notin Bad
    BY <1>2, <2>1
  <2> QED BY <2>1, <2>2
<1> HIDE DEF Bad
<1>5. a[k] \in RecordType /\ IsLine(a[k], t, n)
  BY <1>3, RecordAt DEF AreLines
<1>6. a[k].byte_offset \in Nat /\ a[k].byte_offset < n
  BY <1>5, RecordFields DEF IsLine
<1>7. a[k].byte_offset = IF k = 1 THEN 0 ELSE After(a[k - 1])
  BY <1>3 DEF AreLines, Follows
<1>8. k # 1 => After(a[k - 1]) = After(b[k - 1])
  BY <1>4 DEF Same, After, EndOf
<1>9. k \in 1 .. Len(b)
  <2>1. n <= Reached(b)
    BY DEF AreLines
  <2>2. CASE k = 1
    <3>1. Reached(b) # 0 \/ Reached(b) = 0
      OBVIOUS
    <3>2. b # <<>>
      BY <1>6, <1>7, <2>1, <2>2 DEF Reached
    <3> QED BY <1>1, <2>2, <3>2, EmptySeq
  <2>3. CASE k # 1
    <3>1. k - 1 \in 1 .. Len(b) /\ Len(b) # 0 /\ b # <<>>
      BY <1>1, <1>4, <2>3
    <3>2. k - 1 # Len(b)
      <4> SUFFICES ASSUME k - 1 = Len(b) PROVE FALSE
        OBVIOUS
      <4>1. Reached(b) = a[k].byte_offset
        BY <1>7, <1>8, <2>3, <3>1 DEF Reached
      <4> QED BY <1>6, <2>1, <4>1
    <3> QED BY <1>1, <1>3, <3>1, <3>2
  <2> QED BY <2>2, <2>3
<1>10. b[k] \in RecordType /\ IsLine(b[k], t, n)
  BY <1>9, RecordAt DEF AreLines
<1>11. b[k].byte_offset = IF k = 1 THEN 0 ELSE After(b[k - 1])
  BY <1>9 DEF AreLines, Follows
<1>12. a[k].byte_offset = b[k].byte_offset
  BY <1>7, <1>8, <1>11
<1>13. a[k].bytes = b[k].bytes
  BY <1>5, <1>10, <1>12, SameStartSameLine
<1> QED BY <1>3, <1>9, <1>12, <1>13 DEF Same

(* There is only one way to read the lines of a text: the reference that   *)
(* SplitMatchesReference and PollsMatchOneReading compare with leaves no   *)
(* choice of bytes or offsets.                                             *)
THEOREM OneReadingOnly ==
  ASSUME NEW a \in Seq(RecordType), NEW b \in Seq(RecordType), NEW t, NEW n \in Nat,
         AreLines(a, t, n), AreLines(b, t, n)
  PROVE  Len(a) = Len(b) /\ \A k \in 1 .. Len(a) : Same(a[k], b[k])
<1>1. \A k \in 1 .. Len(a) : k \in 1 .. Len(b) /\ Same(a[k], b[k])
  BY LinesAgree
<1>2. \A k \in 1 .. Len(b) : k \in 1 .. Len(a)
  BY LinesAgree
<1>3. Len(a) \in Nat /\ Len(b) \in Nat
  BY LenProperties
<1>4. Len(a) <= Len(b)
  <2>1. CASE Len(a) = 0
    BY <1>3, <2>1
  <2>2. CASE Len(a) # 0
    BY <1>1, <1>3, <2>2
  <2> QED BY <2>1, <2>2
<1>5. Len(b) <= Len(a)
  <2>1. CASE Len(b) = 0
    BY <1>3, <2>1
  <2>2. CASE Len(b) # 0
    BY <1>2, <1>3, <2>2
  <2> QED BY <2>1, <2>2
<1> QED BY <1>1, <1>3, <1>4, <1>5
-----------------------------------------------------------------------------
(* What the loop has found at any turn: the whole lines up to start, and   *)
(* no newline since.                                                       *)
LoopInv ==
  pc # "idle" =>
    /\ offset = start /\ line_no = Len(out) + 1
    /\ AreWholeLines(out, buf, start)
    /\ \A k \in 1 .. Len(out) : out[k].line_no = k
    /\ \A j \in start + 1 .. i : buf[j] # NL

(* The piece that a poll splits: the bytes after the persisted offset, up  *)
(* to a newline.                                                           *)
PieceInv ==
  pc = "poll" =>
    /\ Len(buf) > 0 /\ buf[Len(buf)] = NL
    /\ cursor + Len(buf) <= Len(text)
    /\ \A j \in 1 .. Len(buf) : buf[j] = text[cursor + j]

PolledInv == AreWholeLines(polled, text, cursor)

ReaderInv == TypeOK /\ LoopInv /\ PieceInv /\ PolledInv

(* The bytes since the last newline, as a record.                          *)
LEMMA CurrentLineIs ==
  ASSUME TypeOK
  PROVE  /\ CurrentLine \in RecordType
         /\ CurrentLine.byte_offset = offset /\ CurrentLine.line_no = line_no
         /\ Len(CurrentLine.bytes) = i - start
         /\ \A j \in 1 .. i - start : CurrentLine.bytes[j] = buf[start + j]
<1> DEFINE piece == SubSeq(buf, start + 1, i)
<1>1. Len(buf) \in Nat /\ start \in Nat /\ i \in Nat /\ start <= i /\ i <= Len(buf)
  BY LenProperties DEF TypeOK
<1>2. \A j \in start + 1 .. i : buf[j] \in Byte
  BY <1>1, LenProperties DEF TypeOK
<1>3. /\ piece \in Seq(Byte)
      /\ Len(piece) = IF start + 1 <= i THEN i - (start + 1) + 1 ELSE 0
      /\ \A j \in 1 .. i - (start + 1) + 1 : piece[j] = buf[start + 1 + j - 1]
  BY <1>1, <1>2, SubSeqProperties
<1> HIDE DEF piece
<1>4. Len(piece) = i - start /\ \A j \in 1 .. i - start : piece[j] = buf[start + j]
  BY <1>1, <1>3
<1>5. CurrentLine = Record(piece, offset, line_no)
  BY DEF CurrentLine, piece
<1>6. /\ CurrentLine \in RecordType /\ CurrentLine.bytes = piece
      /\ CurrentLine.byte_offset = offset /\ CurrentLine.line_no = line_no
  BY <1>3, <1>5 DEF Record, RecordType, TypeOK
<1> QED BY <1>4, <1>6

(* When the loop is done, the records are the lines of the bytes.          *)
LEMMA DoneIsSplit ==
  ASSUME TypeOK, LoopInv
  PROVE  SplitMatchesReference
<1> SUFFICES ASSUME LoopDone
             PROVE  /\ AreLines(Records, buf, Len(buf))
                    /\ \A k \in 1 .. Len(Records) : Records[k].line_no = k
  BY DEF SplitMatchesReference
<1>1. /\ i = Len(buf) /\ i \in Nat /\ start \in Nat /\ start <= i
      /\ offset = start /\ line_no = Len(out) + 1
      /\ AreWholeLines(out, buf, start)
      /\ \A k \in 1 .. Len(out) : out[k].line_no = k
      /\ \A j \in start + 1 .. i : buf[j] # NL
      /\ out \in Seq(RecordType) /\ Len(out) \in Nat
  BY LenProperties DEF LoopDone, LoopInv, TypeOK
<1>2. CASE start = Len(buf)
  <2>1. Records = out
    BY <1>2 DEF Records
  <2> QED BY <1>1, <1>2, <2>1, WholeLinesAreLines
<1>3. CASE start < Len(buf)
  <2> DEFINE last == CurrentLine
  <2>1. Records = Append(out, last)
    BY <1>3 DEF Records
  <2>2. /\ last \in RecordType
        /\ last.byte_offset = start /\ last.line_no = Len(out) + 1
        /\ Len(last.bytes) = i - start
        /\ \A j \in 1 .. i - start : last.bytes[j] = buf[start + j]
    BY <1>1, CurrentLineIs
  <2> HIDE DEF last
  <2>3. EndOf(last) = i /\ After(last) = i + 1
    BY <1>1, <2>2, RecordFields
  <2>4. IsLine(last, buf, Len(buf))
    BY <1>1, <1>3, <2>2, <2>3 DEF IsLine
  <2>5. Follows(out) /\ last.byte_offset = Reached(out)
    BY <1>1, <2>2 DEF AreWholeLines
  <2>6. /\ Len(Records) = Len(out) + 1
        /\ \A k \in 1 .. Len(out) : Records[k] = out[k]
        /\ Records[Len(out) + 1] = last
        /\ Follows(Records) /\ Reached(Records) = After(last)
    BY <1>1, <2>1, <2>2, <2>5, AppendFollows
  <2>7. \A k \in 1 .. Len(out) : IsLine(out[k], buf, Len(buf))
    BY <1>1, RecordAt, WholeLineIsLine DEF AreWholeLines
  <2>8. \A k \in 1 .. Len(Records) : k \in 1 .. Len(out) \/ k = Len(out) + 1
    BY <1>1, <2>6
  <2>9. Len(buf) <= Reached(Records)
    BY <1>1, <2>3, <2>6
  <2>10. AreLines(Records, buf, Len(buf))
    BY <2>4, <2>6, <2>7, <2>8, <2>9 DEF AreLines
  <2> QED BY <1>1, <2>2, <2>6, <2>8, <2>10
<1> QED BY <1>1, <1>2, <1>3

(* Whole lines stay whole lines of a text that agrees up to n.             *)
LEMMA WholeLinesOfPrefix ==
  ASSUME NEW recs \in Seq(RecordType), NEW t, NEW u, NEW n \in Nat,
         AreWholeLines(recs, t, n), \A j \in 1 .. n : u[j] = t[j]
  PROVE  AreWholeLines(recs, u, n)
<1>1. ASSUME NEW k \in 1 .. Len(recs) PROVE IsWholeLine(recs[k], u, n)
  <2>1. recs[k] \in RecordType /\ IsWholeLine(recs[k], t, n)
    BY RecordAt DEF AreWholeLines
  <2>2. /\ recs[k].byte_offset \in Nat /\ Len(recs[k].bytes) \in Nat
        /\ After(recs[k]) = recs[k].byte_offset + Len(recs[k].bytes) + 1
        /\ After(recs[k]) <= n
    BY <2>1, RecordFields DEF IsWholeLine
  <2>3. After(recs[k]) \in 1 .. n
    BY <2>2
  <2>4. ASSUME NEW j \in 1 .. Len(recs[k].bytes)
        PROVE  recs[k].byte_offset + j \in 1 .. n
    BY <2>2
  <2> QED BY <2>1, <2>3, <2>4 DEF IsWholeLine
<1> QED BY <1>1 DEF AreWholeLines

(* Lines of a piece are lines of the file once they are rebased.           *)
LEMMA RebasedLine ==
  ASSUME NEW r \in RecordType, NEW n \in Nat, cursor \in Nat,
         IsWholeLine(r, buf, n), \A j \in 1 .. n : buf[j] = text[cursor + j]
  PROVE  /\ Rebase(r) \in RecordType
         /\ Rebase(r).byte_offset = r.byte_offset + cursor
         /\ After(Rebase(r)) = After(r) + cursor
         /\ IsWholeLine(Rebase(r), text, cursor + n)
<1> DEFINE q == Rebase(r)
<1>1. /\ r.bytes \in Seq(Byte) /\ Len(r.bytes) \in Nat /\ r.byte_offset \in Nat
      /\ After(r) = r.byte_offset + Len(r.bytes) + 1
      /\ After(r) <= n
  BY RecordFields DEF IsWholeLine
<1>2. /\ q \in RecordType
      /\ q.bytes = r.bytes /\ q.byte_offset = r.byte_offset + cursor
  BY <1>1 DEF Rebase, RecordType
<1> HIDE DEF q
<1>3. After(q) = After(r) + cursor
  BY <1>1, <1>2 DEF After, EndOf
<1>4. ASSUME NEW j \in 1 .. Len(q.bytes)
      PROVE  q.bytes[j] = text[q.byte_offset + j] /\ q.bytes[j] # NL
  <2>1. r.byte_offset + j \in 1 .. n
    <3>1. j \in 1 .. Len(r.bytes)
      BY <1>2
    <3> QED BY <1>1, <3>1
  <2>2. q.bytes[j] = buf[r.byte_offset + j] /\ q.bytes[j] # NL
    BY <1>2 DEF IsWholeLine
  <2>3. buf[r.byte_offset + j] = text[cursor + (r.byte_offset + j)]
    BY <2>1
  <2>4. cursor + (r.byte_offset + j) = q.byte_offset + j
    BY <1>1, <1>2
  <2> QED BY <2>2, <2>3, <2>4
<1>5. text[After(q)] = NL
  <2>1. After(r) \in 1 .. n
    BY <1>1
  <2>2. buf[After(r)] = NL
    BY DEF IsWholeLine
  <2>3. buf[After(r)] = text[cursor + After(r)] /\ After(q) = cursor + After(r)
    BY <1>1, <1>3, <2>1
  <2> QED BY <2>2, <2>3
<1>6. After(q) <= cursor + n
  BY <1>1, <1>3
<1>7. IsWholeLine(q, text, cursor + n)
  BY <1>4, <1>5, <1>6 DEF IsWholeLine
<1> QED BY <1>2, <1>3, <1>7 DEF q

(* The lines of the file up to the cursor, followed by the rebased lines   *)
(* of the piece after it, are the lines of the file up to the new cursor.  *)
LEMMA PolledGrows ==
  ASSUME NEW recs \in Seq(RecordType), NEW n \in Nat,
         TypeOK, PolledInv, AreWholeLines(recs, buf, n),
         \A j \in 1 .. n : buf[j] = text[cursor + j]
  PROVE  LET more == polled \o [k \in DOMAIN recs |-> Rebase(recs[k])]
         IN  more \in Seq(RecordType) /\ AreWholeLines(more, text, cursor + n)
<1> DEFINE tail == [k \in DOMAIN recs |-> Rebase(recs[k])]
<1> DEFINE more == polled \o tail
<1>1. /\ cursor \in Nat /\ polled \in Seq(RecordType)
      /\ Len(polled) \in Nat /\ Len(recs) \in Nat /\ DOMAIN recs = 1 .. Len(recs)
  BY LenProperties DEF TypeOK
<1>2. ASSUME NEW k \in 1 .. Len(recs)
      PROVE  /\ Rebase(recs[k]) \in RecordType
             /\ Rebase(recs[k]).byte_offset = recs[k].byte_offset + cursor
             /\ After(Rebase(recs[k])) = After(recs[k]) + cursor
             /\ IsWholeLine(Rebase(recs[k]), text, cursor + n)
             /\ recs[k].byte_offset \in Nat /\ After(recs[k]) \in Nat
  <2>1. recs[k] \in RecordType /\ IsWholeLine(recs[k], buf, n)
    BY RecordAt DEF AreWholeLines
  <2> QED BY <1>1, <2>1, RebasedLine, RecordFields
<1>3. tail \in Seq(RecordType)
  <2>1. \A k \in 1 .. Len(recs) : Rebase(recs[k]) \in RecordType
    BY <1>2
  <2> QED BY <1>1, <2>1, IsASeq
<1>4. /\ Len(tail) = Len(recs)
      /\ \A k \in 1 .. Len(recs) : tail[k] = Rebase(recs[k])
  BY <1>1, <1>3, LenProperties
<1> HIDE DEF tail
<1>5. /\ more \in Seq(RecordType) /\ Len(more) = Len(polled) + Len(recs)
      /\ \A k \in 1 .. Len(polled) : more[k] = polled[k]
      /\ \A k \in 1 .. Len(recs) : more[Len(polled) + k] = tail[k]
  <2>1. /\ more \in Seq(RecordType) /\ Len(more) = Len(polled) + Len(tail)
        /\ \A k \in 1 .. Len(polled) + Len(tail) :
             more[k] = IF k <= Len(polled) THEN polled[k] ELSE tail[k - Len(polled)]
    BY <1>1, <1>3, ConcatProperties
  <2> HIDE DEF more
  <2>2. ASSUME NEW k \in 1 .. Len(polled) PROVE more[k] = polled[k]
    BY <1>1, <1>4, <2>1
  <2>3. ASSUME NEW k \in 1 .. Len(recs) PROVE more[Len(polled) + k] = tail[k]
    <3>1. /\ Len(polled) + k \in 1 .. Len(polled) + Len(tail)
          /\ ~ (Len(polled) + k <= Len(polled)) /\ Len(polled) + k - Len(polled) = k
      BY <1>1, <1>4
    <3> QED BY <2>1, <3>1
  <2> QED BY <1>4, <2>1, <2>2, <2>3
<1> HIDE DEF more
<1>6. /\ Follows(polled) /\ Reached(polled) = cursor
      /\ Follows(recs) /\ Reached(recs) = n
      /\ \A k \in 1 .. Len(polled) : IsWholeLine(polled[k], text, cursor)
  BY DEF PolledInv, AreWholeLines
<1>7. Follows(more)
  <2> SUFFICES ASSUME NEW k \in 1 .. Len(more)
               PROVE  more[k].byte_offset = IF k = 1 THEN 0 ELSE After(more[k - 1])
    BY DEF Follows
  <2>1. CASE k <= Len(polled)
    <3>1. k \in 1 .. Len(polled) /\ (k # 1 => k - 1 \in 1 .. Len(polled))
      BY <1>1, <1>5, <2>1
    <3>2. more[k] = polled[k] /\ (k # 1 => more[k - 1] = polled[k - 1])
      BY <1>5, <3>1
    <3>3. polled[k].byte_offset = IF k = 1 THEN 0 ELSE After(polled[k - 1])
      BY <1>1, <1>6, <2>1 DEF Follows
    <3> QED BY <3>2, <3>3
  <2>2. CASE k = Len(polled) + 1
    <3>1. 1 \in 1 .. Len(recs) /\ k = Len(polled) + 1
      BY <1>1, <1>5, <2>2
    <3>2. more[k] = tail[1]
      BY <1>5, <3>1
    <3>3. recs[1].byte_offset = 0
      BY <1>6, <3>1 DEF Follows
    <3>4. more[k].byte_offset = cursor
      BY <1>1, <1>2, <1>4, <3>1, <3>2, <3>3
    <3>5. CASE Len(polled) = 0
      BY <1>1, <1>6, <2>2, <3>4, <3>5, EmptySeq DEF Reached
    <3>6. CASE Len(polled) # 0
      <4>1. polled # <<>> /\ k # 1 /\ k - 1 = Len(polled) /\ k - 1 \in 1 .. Len(polled)
        BY <1>1, <2>2, <3>6
      <4>2. more[k - 1] = polled[Len(polled)]
        BY <1>5, <4>1
      <4> QED BY <1>6, <3>4, <4>1, <4>2 DEF Reached
    <3> QED BY <3>5, <3>6
  <2>3. CASE k > Len(polled) + 1
    <3> DEFINE m == k - Len(polled)
    <3>1. /\ m \in 1 .. Len(recs) /\ m - 1 \in 1 .. Len(recs) /\ m # 1 /\ k # 1
          /\ k = Len(polled) + m /\ k - 1 = Len(polled) + (m - 1)
      BY <1>1, <1>5, <2>3
    <3> HIDE DEF m
    <3>2. more[k] = tail[m] /\ more[k - 1] = tail[m - 1]
      BY <1>5, <3>1
    <3>3. recs[m].byte_offset = After(recs[m - 1])
      BY <1>6, <3>1 DEF Follows
    <3>4. /\ more[k].byte_offset = recs[m].byte_offset + cursor
          /\ After(more[k - 1]) = After(recs[m - 1]) + cursor
      BY <1>2, <1>4, <3>1, <3>2
    <3> QED BY <3>1, <3>3, <3>4
  <2> QED BY <1>1, <1>5, <2>1, <2>2, <2>3
<1>8. ASSUME NEW k \in 1 .. Len(more) PROVE IsWholeLine(more[k], text, cursor + n)
  <2>1. CASE k <= Len(polled)
    <3>1. k \in 1 .. Len(polled)
      BY <1>1, <1>5, <2>1
    <3>2. more[k] = polled[k]
      BY <1>5, <3>1
    <3>3. polled[k] \in RecordType /\ IsWholeLine(polled[k], text, cursor)
      BY <1>1, <1>6, <3>1, RecordAt
    <3>4. cursor <= cursor + n /\ cursor + n \in Nat
      BY <1>1
    <3> QED BY <1>1, <3>3, <3>2, <3>4, WholeLineIsLine
  <2>2. CASE k > Len(polled)
    <3> DEFINE m == k - Len(polled)
    <3>1. m \in 1 .. Len(recs) /\ k = Len(polled) + m
      BY <1>1, <1>5, <2>2
    <3> HIDE DEF m
    <3>2. more[k] = Rebase(recs[m])
      BY <1>4, <1>5, <3>1
    <3> QED BY <1>2, <3>1, <3>2
  <2> QED BY <1>1, <1>5, <2>1, <2>2
<1>9. Reached(more) = cursor + n
  <2>1. CASE Len(recs) = 0
    <3>1. recs = <<>> /\ n = 0
      BY <1>6, <2>1, EmptySeq DEF Reached
    <3>2. Len(more) = Len(polled)
      BY <1>1, <1>5, <2>1
    <3>3. CASE polled = <<>>
      <4>1. Len(more) = 0
        BY <3>2, <3>3
      <4> QED BY <1>1, <1>5, <1>6, <3>1, <3>3, <4>1, EmptySeq DEF Reached
    <3>4. CASE polled # <<>>
      <4>1. Len(polled) \in 1 .. Len(polled) /\ more # <<>>
        BY <1>1, <3>2, <3>4, EmptySeq
      <4>2. more[Len(more)] = polled[Len(polled)]
        BY <1>5, <3>2, <4>1
      <4> QED BY <1>1, <1>6, <3>1, <3>4, <4>1, <4>2 DEF Reached
    <3> QED BY <3>3, <3>4
  <2>2. CASE Len(recs) # 0
    <3>1. Len(recs) \in 1 .. Len(recs) /\ recs # <<>> /\ more # <<>>
      BY <1>1, <1>5, <2>2
    <3>2. more[Len(more)] = Rebase(recs[Len(recs)])
      BY <1>4, <1>5, <3>1
    <3>3. Reached(more) = After(recs[Len(recs)]) + cursor
      BY <1>2, <3>1, <3>2 DEF Reached
    <3> QED BY <1>1, <1>2, <1>6, <3>1, <3>3 DEF Reached
  <2> QED BY <2>1, <2>2
<1>10. AreWholeLines(more, text, cursor + n)
  BY <1>7, <1>8, <1>9 DEF AreWholeLines
<1> QED BY <1>5, <1>10 DEF more, tail

-----------------------------------------------------------------------------
(* What a poll takes is what follows the cursor, up to a newline.          *)
Piece == SubSeq(Unread, 1, Consumable(Unread))

LEMMA UnreadPiece ==
  ASSUME TypeOK, Consumable(Unread) > 0
  PROVE  /\ Piece \in Seq(Byte) /\ Len(Piece) > 0 /\ Len(Piece) \in Nat
         /\ Piece[Len(Piece)] = NL
         /\ cursor + Len(Piece) <= Len(text)
         /\ \A j \in 1 .. Len(Piece) : Piece[j] = text[cursor + j]
<1> DEFINE n == Consumable(Unread)
<1> DEFINE piece == SubSeq(Unread, 1, n)
<1>1. text \in Seq(Byte) /\ Len(text) \in Nat /\ cursor \in Nat /\ cursor <= Len(text)
  BY LenProperties DEF TypeOK
<1>2. \A j \in cursor + 1 .. Len(text) : text[j] \in Byte
  BY <1>1, LenProperties
<1>3. /\ Unread \in Seq(Byte) /\ Len(Unread) = Len(text) - cursor
      /\ \A j \in 1 .. Len(text) - cursor : Unread[j] = text[cursor + j]
  <2>1. /\ Unread \in Seq(Byte)
        /\ Len(Unread) = IF cursor + 1 <= Len(text) THEN Len(text) - (cursor + 1) + 1 ELSE 0
        /\ \A j \in 1 .. Len(text) - (cursor + 1) + 1 : Unread[j] = text[cursor + 1 + j - 1]
    BY <1>1, <1>2, SubSeqProperties DEF Unread
  <2> QED BY <1>1, <2>1
<1>4. n \in 1 .. Len(Unread) /\ Unread[n] = NL
  <2>1. n # 0
    OBVIOUS
  <2> QED BY <1>3, <2>1, ConsumableEndsLine
<1> HIDE DEF n
<1>5. n \in Nat /\ n <= Len(text) - cursor
  BY <1>1, <1>3, <1>4
<1>6. \A j \in 1 .. n : Unread[j] \in Byte
  BY <1>3, <1>5, <1>1, LenProperties
<1>7. /\ piece \in Seq(Byte) /\ Len(piece) = n
      /\ \A j \in 1 .. n : piece[j] = Unread[j]
  <2>1. /\ piece \in Seq(Byte)
        /\ Len(piece) = IF 1 <= n THEN n - 1 + 1 ELSE 0
        /\ \A j \in 1 .. n - 1 + 1 : piece[j] = Unread[1 + j - 1]
    BY <1>5, <1>6, SubSeqProperties
  <2> QED BY <1>4, <1>5, <2>1
<1>8. Piece = piece
  BY DEF Piece, n
<1> HIDE DEF piece
<1> QED BY <1>1, <1>3, <1>4, <1>5, <1>7, <1>8

(* A poll's piece ends with a newline, so the loop leaves no rest.         *)
LEMMA PieceDone ==
  ASSUME TypeOK, LoopInv, PieceInv, pc = "poll", LoopDone
  PROVE  Records = out /\ AreWholeLines(out, buf, Len(buf))
<1>1. /\ i = Len(buf) /\ i \in Nat /\ start \in Nat /\ start <= i /\ i > 0
      /\ buf[i] = NL /\ \A j \in start + 1 .. i : buf[j] # NL
      /\ AreWholeLines(out, buf, start)
  BY LenProperties DEF TypeOK, LoopInv, PieceInv, LoopDone
<1>2. start = i
  <2>1. i \notin start + 1 .. i
    BY <1>1
  <2> QED BY <1>1, <2>1
<1> QED BY <1>1, <1>2 DEF Records

(* A turn of the loop keeps what the loop knows.                           *)
LEMMA SplitStep ==
  ASSUME TypeOK, LoopInv, SplitByte
  PROVE  out' \in Seq(RecordType) /\ LoopInv'
<1>1. /\ pc' = pc /\ buf' = buf /\ i' = i + 1 /\ pc # "idle"
      /\ i \in Nat /\ start \in Nat /\ start <= i /\ i < Len(buf) /\ Len(buf) \in Nat
      /\ out \in Seq(RecordType) /\ Len(out) \in Nat
      /\ offset = start /\ line_no = Len(out) + 1
      /\ AreWholeLines(out, buf, start)
      /\ \A k \in 1 .. Len(out) : out[k].line_no = k
      /\ \A j \in start + 1 .. i : buf[j] # NL
  BY LenProperties DEF SplitByte, TypeOK, LoopInv
<1>2. CASE buf[i + 1] # NL
  <2>1. out' = out /\ offset' = offset /\ line_no' = line_no /\ start' = start
    BY <1>2 DEF SplitByte
  <2>2. \A j \in start' + 1 .. i' : buf'[j] # NL
    <3>1. \A j \in start' + 1 .. i' : j \in start + 1 .. i \/ j = i + 1
      BY <1>1, <2>1
    <3> QED BY <1>1, <1>2, <3>1
  <2> QED BY <1>1, <2>1, <2>2 DEF LoopInv
<1>3. CASE buf[i + 1] = NL
  <2> DEFINE last == CurrentLine
  <2>1. out' = Append(out, last) /\ offset' = i + 1 /\ line_no' = line_no + 1 /\ start' = i + 1
    BY <1>3 DEF SplitByte
  <2>2. /\ last \in RecordType
        /\ last.byte_offset = start /\ last.line_no = Len(out) + 1
        /\ Len(last.bytes) = i - start
        /\ \A j \in 1 .. i - start : last.bytes[j] = buf[start + j]
    BY <1>1, CurrentLineIs
  <2> HIDE DEF last
  <2>3. After(last) = i + 1
    BY <1>1, <2>2 DEF After, EndOf
  <2>4. IsWholeLine(last, buf, i + 1)
    BY <1>1, <1>3, <2>2, <2>3 DEF IsWholeLine
  <2>5. Follows(out) /\ last.byte_offset = Reached(out)
    BY <1>1, <2>2 DEF AreWholeLines
  <2>6. /\ out' \in Seq(RecordType) /\ Len(out') = Len(out) + 1
        /\ \A k \in 1 .. Len(out) : out'[k] = out[k]
        /\ out'[Len(out) + 1] = last
        /\ Follows(out') /\ Reached(out') = i + 1
    BY <1>1, <2>1, <2>2, <2>3, <2>5, AppendFollows
  <2>7. \A k \in 1 .. Len(out') : k \in 1 .. Len(out) \/ k = Len(out) + 1
    BY <1>1, <2>6
  <2>8. \A k \in 1 .. Len(out) : IsWholeLine(out[k], buf, i + 1)
    <3>1. start <= i + 1 /\ i + 1 \in Nat
      BY <1>1
    <3> QED BY <1>1, <3>1, RecordAt, WholeLineIsLine DEF AreWholeLines
  <2>9. AreWholeLines(out', buf, i + 1)
    BY <2>4, <2>6, <2>7, <2>8 DEF AreWholeLines
  <2>10. \A k \in 1 .. Len(out') : out'[k].line_no = k
    BY <1>1, <2>2, <2>6, <2>7
  <2>11. line_no' = Len(out') + 1 /\ start' + 1 > i'
    BY <1>1, <2>1, <2>6
  <2>12. \A j \in start' + 1 .. i' : buf'[j] # NL
    BY <1>1, <2>1
  <2> QED BY <1>1, <2>1, <2>6, <2>9, <2>10, <2>11, <2>12 DEF LoopInv
<1> QED BY <1>2, <1>3

(* The loop starts on bytes it has not looked at.                          *)
LEMMA BeginLoop ==
  ASSUME NEW bytes \in Seq(Byte), Begin(bytes)
  PROVE  /\ LoopInv'
         /\ buf' \in Seq(Byte) /\ i' \in 0 .. Len(buf') /\ start' \in 0 .. i'
         /\ offset' \in Nat /\ line_no' \in Nat /\ out' \in Seq(RecordType)
<1>1. /\ buf' = bytes /\ i' = 0 /\ start' = 0 /\ offset' = 0 /\ line_no' = 1
      /\ out' = <<>> /\ Len(bytes) \in Nat
  BY LenProperties DEF Begin
<1>2. out' \in Seq(RecordType) /\ Len(out') = 0
  BY <1>1
<1>3. AreWholeLines(out', buf', start')
  BY <1>1, <1>2 DEF AreWholeLines, Follows, Reached
<1> QED BY <1>1, <1>2, <1>3 DEF LoopInv

(* What a poll returns extends what the polls returned before it.          *)
LEMMA ReturnExtends ==
  ASSUME TypeOK, LoopInv, PieceInv, PolledInv, ReturnPoll
  PROVE  polled' \in Seq(RecordType) /\ cursor' \in 0 .. Len(text) /\ PolledInv'
<1>1. /\ Records = out /\ AreWholeLines(out, buf, Len(buf)) /\ pc = "poll"
      /\ out \in Seq(RecordType) /\ Len(buf) \in Nat
  BY PieceDone, LenProperties DEF ReturnPoll, TypeOK
<1>2. /\ cursor \in Nat /\ Len(text) \in Nat /\ cursor + Len(buf) <= Len(text)
      /\ \A j \in 1 .. Len(buf) : buf[j] = text[cursor + j]
  BY <1>1, LenProperties DEF PieceInv, TypeOK
<1>3. /\ polled' = polled \o [k \in DOMAIN out |-> Rebase(out[k])]
      /\ cursor' = cursor + Len(buf) /\ text' = text
  BY <1>1 DEF ReturnPoll
<1>4. polled' \in Seq(RecordType) /\ AreWholeLines(polled', text', cursor')
  BY <1>1, <1>2, <1>3, PolledGrows
<1> QED BY <1>1, <1>2, <1>3, <1>4 DEF PolledInv

(* A longer file has the same bytes in front.                              *)
LEMMA GrowKeepsBytes ==
  ASSUME TypeOK, NEW b \in Byte, Grow(b)
  PROVE  /\ text' \in Seq(Byte) /\ Len(text') = Len(text) + 1 /\ Len(text) \in Nat
         /\ Len(text') <= MaxLen
         /\ \A j \in 1 .. Len(text) : text'[j] = text[j]
<1>1. text' = Append(text, b) /\ text \in Seq(Byte) /\ Len(text) < MaxLen
  BY DEF Grow, TypeOK
<1>2. /\ text' \in Seq(Byte) /\ Len(text') = Len(text) + 1 /\ Len(text) \in Nat
      /\ \A j \in 1 .. Len(text) : text'[j] = text[j]
  BY <1>1, AppendProperties, LenProperties
<1> QED BY <1>1, <1>2, ReaderAssumption

(* Every step of the reader keeps its invariant.                           *)
LEMMA ReaderStep ==
  ASSUME ReaderInv, [Next]_vars
  PROVE  ReaderInv'
<1>1. TypeOK /\ LoopInv /\ PieceInv /\ PolledInv
  BY DEF ReaderInv
<1>2. ASSUME NEW b \in Byte, Grow(b) PROVE ReaderInv'
  <2>1. /\ text' \in Seq(Byte) /\ Len(text') = Len(text) + 1 /\ Len(text) \in Nat
        /\ Len(text') <= MaxLen
        /\ \A j \in 1 .. Len(text) : text'[j] = text[j]
    BY <1>1, <1>2, GrowKeepsBytes
  <2>2. /\ cursor' = cursor /\ polled' = polled /\ pc' = pc /\ buf' = buf /\ i' = i
        /\ start' = start /\ offset' = offset /\ line_no' = line_no /\ out' = out
    BY <1>2 DEF Grow, loopVars
  <2>3. TypeOK'
    BY <1>1, <2>1, <2>2 DEF TypeOK
  <2>4. LoopInv'
    BY <1>1, <2>2 DEF LoopInv
  <2>5. PieceInv'
    <3> SUFFICES ASSUME pc = "poll" PROVE PieceInv'
      BY <2>2 DEF PieceInv
    <3>1. /\ Len(buf) > 0 /\ buf[Len(buf)] = NL /\ cursor + Len(buf) <= Len(text)
          /\ \A j \in 1 .. Len(buf) : buf[j] = text[cursor + j]
          /\ cursor \in Nat /\ Len(buf) \in Nat
      BY <1>1, LenProperties DEF PieceInv, TypeOK
    <3>2. \A j \in 1 .. Len(buf) : cursor + j \in 1 .. Len(text)
      BY <2>1, <3>1
    <3> QED BY <2>1, <2>2, <3>1, <3>2 DEF PieceInv
  <2>6. PolledInv'
    <3>1. \A j \in 1 .. cursor : text'[j] = text[j]
      BY <1>1, <2>1 DEF TypeOK
    <3> QED BY <1>1, <2>2, <3>1, WholeLinesOfPrefix DEF PolledInv, TypeOK
  <2> QED BY <2>3, <2>4, <2>5, <2>6 DEF ReaderInv
<1>3. CASE ReadOnce
  <2>1. /\ text' = text /\ cursor' = cursor /\ polled' = polled /\ pc' = "once"
        /\ Begin(text) /\ text \in Seq(Byte)
    BY <1>1, <1>3 DEF ReadOnce, TypeOK
  <2>2. TypeOK' /\ LoopInv'
    BY <1>1, <2>1, BeginLoop DEF TypeOK
  <2>3. PieceInv' /\ PolledInv'
    BY <1>1, <2>1 DEF PieceInv, PolledInv
  <2> QED BY <2>2, <2>3 DEF ReaderInv
<1>4. CASE ReturnOnce
  <2>1. UNCHANGED <<text, cursor, polled, loopVars>> /\ pc' = "idle"
    BY <1>4 DEF ReturnOnce
  <2> QED BY <1>1, <2>1 DEF loopVars, ReaderInv, TypeOK, LoopInv, PieceInv, PolledInv
<1>5. CASE Poll
  <2>1. /\ text' = text /\ cursor' = cursor /\ polled' = polled /\ pc' = "poll"
        /\ Consumable(Unread) > 0 /\ Begin(Piece)
    BY <1>5 DEF Poll, Piece
  <2>2. /\ Piece \in Seq(Byte) /\ Len(Piece) > 0 /\ Piece[Len(Piece)] = NL
        /\ cursor + Len(Piece) <= Len(text)
        /\ \A j \in 1 .. Len(Piece) : Piece[j] = text[cursor + j]
    BY <1>1, <2>1, UnreadPiece
  <2>3. buf' = Piece
    BY <2>1 DEF Begin
  <2>4. TypeOK' /\ LoopInv'
    BY <1>1, <2>1, <2>2, BeginLoop DEF TypeOK
  <2>5. PieceInv' /\ PolledInv'
    BY <1>1, <2>1, <2>2, <2>3 DEF PieceInv, PolledInv
  <2> QED BY <2>4, <2>5 DEF ReaderInv
<1>6. CASE ReturnPoll
  <2>1. polled' \in Seq(RecordType) /\ cursor' \in 0 .. Len(text) /\ PolledInv'
    BY <1>1, <1>6, ReturnExtends
  <2>2. UNCHANGED <<text, loopVars>> /\ pc' = "idle"
    BY <1>6 DEF ReturnPoll
  <2> QED BY <1>1, <2>1, <2>2 DEF loopVars, ReaderInv, TypeOK, LoopInv, PieceInv
<1>7. CASE SplitByte
  <2>1. out' \in Seq(RecordType) /\ LoopInv'
    BY <1>1, <1>7, SplitStep
  <2>2. /\ UNCHANGED <<text, cursor, polled, pc, buf>>
        /\ i' = i + 1 /\ i < Len(buf)
        /\ \/ offset' = i + 1 /\ line_no' = line_no + 1 /\ start' = i + 1
           \/ offset' = offset /\ line_no' = line_no /\ start' = start
    BY <1>7 DEF SplitByte
  <2>3. Len(buf) \in Nat
    BY <1>1, LenProperties DEF TypeOK
  <2>4. TypeOK'
    BY <1>1, <2>1, <2>2, <2>3 DEF TypeOK
  <2>5. PieceInv' /\ PolledInv'
    BY <1>1, <2>2 DEF PieceInv, PolledInv
  <2> QED BY <2>1, <2>4, <2>5 DEF ReaderInv
<1>8. CASE UNCHANGED vars
  BY <1>1, <1>8 DEF vars, loopVars, ReaderInv, TypeOK, LoopInv, PieceInv, PolledInv
<1> QED BY <1>2, <1>3, <1>4, <1>5, <1>6, <1>7, <1>8 DEF Next

LEMMA ReaderInit ==
  ASSUME Init
  PROVE  ReaderInv
<1>1. /\ text \in Seq(Byte) /\ Len(text) = 0 /\ buf \in Seq(Byte) /\ Len(buf) = 0
      /\ polled \in Seq(RecordType) /\ Len(polled) = 0
      /\ out \in Seq(RecordType) /\ cursor = 0
  BY DEF Init
<1>2. TypeOK
  BY <1>1, ReaderAssumption DEF Init, TypeOK
<1>3. PolledInv
  BY <1>1 DEF Init, PolledInv, AreWholeLines, Follows, Reached
<1> QED BY <1>2, <1>3 DEF Init, ReaderInv, LoopInv, PieceInv

(* The invariant holds of every behaviour, and gives every position and    *)
(* record its type.                                                        *)
THEOREM ReaderInvHolds == Spec => []ReaderInv
<1>1. Init => ReaderInv
  BY ReaderInit
<1>2. ReaderInv /\ [Next]_vars => ReaderInv'
  BY ReaderStep
<1> QED BY <1>1, <1>2, PTL DEF Spec

(* Whatever the bytes, the loop of read_records_from_bytes returns exactly *)
(* their lines, with their offsets and line numbers.                       *)
THEOREM SplitHolds == Spec => []SplitMatchesReference
<1>1. ReaderInv => SplitMatchesReference
  BY DoneIsSplit DEF ReaderInv
<1> QED BY <1>1, ReaderInvHolds, PTL

(* However a transcript grows and is polled, the polls together return the *)
(* lines of the part up to the persisted offset, at their places in it.    *)
THEOREM PollsHold == Spec => []PollsMatchOneReading
<1>1. ReaderInv => PollsMatchOneReading
  BY WholeLinesAreLines DEF ReaderInv, TypeOK, PolledInv, PollsMatchOneReading
<1> QED BY <1>1, ReaderInvHolds, PTL

(* A one-shot reading of the part of the file that the polls have consumed *)
(* returns the records the polls have returned: as many, of the same bytes *)
(* at the same offsets.                                                    *)
ReplayAgrees ==
  LoopDone /\ buf = SubSeq(text, 1, cursor) =>
    /\ Len(Records) = Len(polled)
    /\ \A k \in 1 .. Len(polled) : Same(Records[k], polled[k])

(* However a transcript was polled, reading it again as far as the polls   *)
(* got gives the same records (tailer.rs:46-47, a replay from an offset).  *)
THEOREM ReplayHolds == Spec => []ReplayAgrees
<1>1. ReaderInv => ReplayAgrees
  <2> SUFFICES ASSUME ReaderInv, LoopDone, buf = SubSeq(text, 1, cursor)
               PROVE  /\ Len(Records) = Len(polled)
                      /\ \A k \in 1 .. Len(polled) : Same(Records[k], polled[k])
    BY DEF ReplayAgrees
  <2>1. /\ TypeOK /\ SplitMatchesReference /\ AreLines(polled, text, cursor)
        /\ text \in Seq(Byte) /\ Len(text) \in Nat /\ cursor \in Nat /\ cursor <= Len(text)
        /\ polled \in Seq(RecordType)
    BY DoneIsSplit, WholeLinesAreLines, LenProperties DEF ReaderInv, TypeOK, PolledInv
  <2>2. Len(buf) = cursor /\ \A j \in 1 .. cursor : buf[j] = text[j]
    <3>1. \A j \in 1 .. cursor : text[j] \in Byte
      BY <2>1, LenProperties
    <3>2. /\ Len(buf) = IF 1 <= cursor THEN cursor - 1 + 1 ELSE 0
          /\ \A j \in 1 .. cursor - 1 + 1 : buf[j] = text[1 + j - 1]
      BY <2>1, <3>1, SubSeqProperties
    <3> QED BY <2>1, <3>2
  <2>3. Records \in Seq(RecordType)
    BY <2>1, CurrentLineIs, AppendProperties DEF Records, TypeOK
  <2>4. AreLines(Records, buf, cursor)
    BY <2>1, <2>2 DEF SplitMatchesReference
  <2>5. AreLines(polled, buf, cursor)
    <3>1. AreWholeLines(polled, buf, cursor)
      BY <2>1, <2>2, WholeLinesOfPrefix DEF ReaderInv, PolledInv
    <3> QED BY <2>1, <3>1, WholeLinesAreLines
  <2> QED BY <2>1, <2>3, <2>4, <2>5, OneReadingOnly
<1> QED BY <1>1, ReaderInvHolds, PTL
=============================================================================
