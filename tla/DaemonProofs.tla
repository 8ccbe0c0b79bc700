---------------------------- MODULE DaemonProofs ----------------------------
(***************************************************************************)
(* Theorems about the tailer and the watch daemon around it, for every set *)
(* of files, every alphabet, every sink and every bound: what the tailer   *)
(* guarantees of the bytes it reads, and that it is a LineFeed; that the   *)
(* daemon drives it as the Tailer specification says, and that what        *)
(* reaches the sink is in order, once, and complete.                       *)
(***************************************************************************)
EXTENDS WatchDaemon, SequenceTheorems, TLAPS

-----------------------------------------------------------------------------
(* The tailer.                                                             *)

(* A piece of a transcript is a sequence of bytes again.                   *)
LEMMA PieceType ==
  ASSUME NEW s \in Seq(Byte), NEW m \in Nat \ {0}, NEW n \in 0 .. Len(s)
  PROVE  /\ SubSeq(s, m, n) \in Seq(Byte)
         /\ Len(SubSeq(s, m, n)) = IF m <= n THEN n - m + 1 ELSE 0
         /\ \A i \in 1 .. n - m + 1 : SubSeq(s, m, n)[i] = s[m + i - 1]
<1>1. Len(s) \in Nat /\ m \in Int /\ n \in Int
  BY LenProperties
<1>2. \A i \in m .. n : s[i] \in Byte
  BY <1>1, ElementOfSeq
<1> QED
  BY <1>1, <1>2, SubSeqProperties

(* What the open handle still gives is a sequence of bytes.                *)
LEMMA BytesFromType ==
  ASSUME TypeOK, NEW f \in Files
  PROVE  BytesFrom(f) \in Seq(Byte)
<1>1. ASSUME NEW s \in Seq(Byte) PROVE SubSeq(s, start + 1, Len(s)) \in Seq(Byte)
  <2>1. start + 1 \in Nat \ {0} /\ Len(s) \in 0 .. Len(s)
    BY LenProperties DEF TypeOK
  <2> QED
    BY <2>1, PieceType
<1>2. held \in Seq(Byte) /\ content[f] \in Seq(Byte)
  BY DEF TypeOK
<1> QED
  BY <1>1, <1>2 DEF BytesFrom

(* What a discarded transcript leaves behind.                              *)
LEMMA DiscardType ==
  ASSUME TypeOK, NEW f \in Files, Discard(f)
  PROVE  content' \in [Files -> Seq(Byte)] /\ base' \in [Files -> Seq(Byte)]
<1>1. <<>> \in Seq(Byte)
  BY EmptySeq
<1>2. content \in [Files -> Seq(Byte)] /\ base \in [Files -> Seq(Byte)]
      /\ taken[f] \in Seq(Byte)
  BY DEF TypeOK
<1> QED
  BY <1>1, <1>2, Zenon DEF Discard

LEMMA InitTypeOK == Init => TypeOK
<1>1. <<>> \in Seq(Byte) /\ <<>> \in Seq(Results)
  BY EmptySeq
<1> SUFFICES ASSUME Init PROVE TypeOK
  OBVIOUS
<1>2. exists \in [Files -> BOOLEAN] /\ unlinked \in BOOLEAN
  BY Zenon DEF Init
<1>3. /\ content \in [Files -> Seq(Byte)]
      /\ out       \in [Files -> Seq(Byte)]
      /\ taken     \in [Files -> Seq(Byte)]
      /\ base      \in [Files -> Seq(Byte)]
      /\ delivered \in [Files -> Seq(Byte)]
      /\ held \in Seq(Byte) /\ chan \in Seq(Results)
  BY <1>1, Zenon DEF Init
<1>4. gen \in [Files -> Nat] /\ cursor \in [Files -> Nat]
  BY DEF Init
<1> QED
  BY <1>2, <1>3, <1>4 DEF Init, TypeOK, Phases

(* Type correctness of the tailer.                                         *)
THEOREM TypeCorrect == Spec => []TypeOK
<1> USE TailerAssumption DEF TailerAssumption
<1>1. Init => TypeOK
  BY InitTypeOK
<1>2. TypeOK /\ [Next]_vars => TypeOK'
  <2> SUFFICES ASSUME TypeOK, [Next]_vars PROVE TypeOK'
    OBVIOUS
  <2> USE DEF TypeOK, Phases
  <2>1. ASSUME NEW f \in Files, NEW b \in Byte, WriteByte(f, b) PROVE TypeOK'
    <3>1. Append(content[f], b) \in Seq(Byte)
      OBVIOUS
    <3> QED
      BY <2>1, <3>1 DEF WriteByte, Noticed, drainVars, handleVars, boundVars
  <2>2. ASSUME NEW f \in Files, TruncateFile(f) PROVE TypeOK'
    <3>1. content' \in [Files -> Seq(Byte)] /\ base' \in [Files -> Seq(Byte)]
      BY <2>2, DiscardType DEF TruncateFile
    <3>2. gen' \in [Files -> Nat] /\ dirty' \in SUBSET Files
      BY <2>2 DEF TruncateFile, Discard, Noticed
    <3> QED
      BY <2>2, <3>1, <3>2 DEF TruncateFile, Discard, drainVars, handleVars, boundVars
  <2>3. ASSUME NEW f \in Files, RemoveFile(f) PROVE TypeOK'
    <3>1. content' \in [Files -> Seq(Byte)] /\ base' \in [Files -> Seq(Byte)]
      BY <2>3, DiscardType DEF RemoveFile
    <3>2. gen' \in [Files -> Nat]
      BY <2>3 DEF RemoveFile, Discard
    <3>3. exists' \in [Files -> BOOLEAN]
      BY <2>3, Zenon DEF RemoveFile
    <3>4. unlinked' \in BOOLEAN /\ held' \in Seq(Byte)
      BY <2>3 DEF RemoveFile, handleVars
    <3> QED
      BY <2>3, <3>1, <3>2, <3>3, <3>4 DEF RemoveFile, Discard, drainVars, boundVars
  <2>4. CASE Debounce
    <3>1. [ok |-> TRUE, paths |-> dirty] \in Results
      BY DEF Results
    <3>2. Append(chan, [ok |-> TRUE, paths |-> dirty]) \in Seq(Results)
      BY <3>1
    <3> QED
      BY <2>4, <3>2 DEF Debounce, fsVars, drainVars, handleVars, boundVars
  <2>5. CASE WatchError
    <3>1. [ok |-> FALSE, paths |-> {}] \in Results
      BY DEF Results
    <3>2. Append(chan, [ok |-> FALSE, paths |-> {}]) \in Seq(Results)
      BY <3>1
    <3> QED
      BY <2>5, <3>2 DEF WatchError, fsVars, drainVars, handleVars
  <2>6. CASE Startup
    BY <2>6 DEF Startup, fsVars, watchVars, handleVars, boundVars
  <2>7. CASE Recv
    <3>1. Tail(chan) \in Seq(Results)
      BY <2>7, HeadTailProperties DEF Recv
    <3> QED
      BY <2>7, <3>1 DEF Recv, fsVars, handleVars, boundVars
  <2>8. CASE Return
    <3>1. \A f \in Files : delivered[f] \o out[f] \in Seq(Byte)
      BY ConcatProperties
    <3>2. <<>> \in Seq(Byte)
      BY EmptySeq
    <3> QED
      BY <2>8, <3>1, <3>2 DEF Return, fsVars, watchVars, handleVars, boundVars
  <2>9. CASE Close \/ Crash
    <3>1. <<>> \in Seq(Byte) /\ <<>> \in Seq(Results)
      BY EmptySeq
    <3>2. /\ out' \in [Files -> Seq(Byte)] /\ chan' \in Seq(Results)
          /\ held' \in Seq(Byte)
      BY <2>9, <3>1, Zenon DEF Close, Crash, ProcessEnds
    <3>3. UNCHANGED <<fsVars, cursor, start, taken, base, delivered>>
      BY <2>9 DEF Close, Crash, ProcessEnds
    <3>4. /\ pc' = "down" /\ todo' = {} /\ dirty' = {} /\ unlinked' = FALSE
          /\ crashes' \in {crashes, crashes + 1} /\ errors' = errors /\ faults' = faults
      BY <2>9, Zenon DEF Close, Crash, ProcessEnds, boundVars
    <3>5. pc' \in Phases /\ todo' \in SUBSET Files /\ dirty' \in SUBSET Files
          /\ crashes' \in Nat /\ errors' \in Nat /\ faults' \in Nat
      BY <3>4
    <3>6. unlinked' \in BOOLEAN
      BY <3>4, Zenon
    <3> QED
      BY <3>2, <3>3, <3>5, <3>6 DEF fsVars
  <2>10. ASSUME NEW f \in Files, NEW off \in Nat, StatTo(f, off), crashes' \in Nat,
                errors' \in Nat, faults' \in Nat
         PROVE TypeOK'
    BY <2>10 DEF StatTo, fsVars, watchVars, handleVars
  <2>11. ASSUME NEW f \in Files, NEW off \in Nat, OpenAt(f, off), crashes' \in Nat,
                errors' \in Nat, faults' \in Nat
         PROVE TypeOK'
    <3>1. <<>> \in Seq(Byte)
      BY EmptySeq
    <3> QED
      BY <2>11, <3>1 DEF OpenAt, NextPath, fsVars, watchVars, handleVars
  <2>12. ASSUME NEW f \in Files, NEW advance \in BOOLEAN, ReadLines(f, advance),
                crashes' \in Nat, errors' \in Nat, faults' \in Nat
         PROVE TypeOK'
    <3>1. BytesFrom(f) \in Seq(Byte)
      BY BytesFromType
    <3>2. \A n \in 0 .. Len(BytesFrom(f)) : SubSeq(BytesFrom(f), 1, n) \in Seq(Byte)
      BY <3>1, PieceType
    <3>3. PICK n \in 0 .. Len(BytesFrom(f)) :
            /\ out'    = [out EXCEPT ![f] = @ \o SubSeq(BytesFrom(f), 1, n)]
            /\ taken'  = [taken EXCEPT ![f] = @ \o SubSeq(BytesFrom(f), 1, n)]
            /\ cursor' = [cursor EXCEPT ![f] = IF n = 0 \/ ~advance THEN @ ELSE start + n]
            /\ base'   = IF unlinked
                         THEN [base EXCEPT ![f] = @ \o SubSeq(BytesFrom(f), 1, n)]
                         ELSE base
      BY <2>12 DEF ReadLines
    <3>4. /\ out[f] \o SubSeq(BytesFrom(f), 1, n) \in Seq(Byte)
          /\ taken[f] \o SubSeq(BytesFrom(f), 1, n) \in Seq(Byte)
          /\ base[f] \o SubSeq(BytesFrom(f), 1, n) \in Seq(Byte)
      BY <3>2, ConcatProperties
    <3>5. start + n \in Nat
      BY <3>1, LenProperties
    <3>6. <<>> \in Seq(Byte)
      BY EmptySeq
    <3>7. pc' \in Phases /\ todo' \in SUBSET Files /\ unlinked' \in BOOLEAN
          /\ held' \in Seq(Byte)
      BY <2>12, <3>6 DEF ReadLines, NextPath
    <3>8. UNCHANGED <<exists, content, gen, dirty, chan, start, delivered>>
      BY <2>12 DEF ReadLines, fsVars, watchVars
    <3> QED
      BY <2>12, <3>3, <3>4, <3>5, <3>7, <3>8
  <2>13. ASSUME NEW f \in Files, Stat(f) PROVE TypeOK'
    <3>1. RotationReset(f) \in Nat
      BY DEF RotationReset
    <3> QED
      BY <2>13, <3>1, <2>10 DEF Stat, boundVars
  <2>14. ASSUME NEW f \in Files, Open(f) PROVE TypeOK'
    <3>1. ClampedStart(f) \in Nat
      BY LenProperties DEF ClampedStart
    <3> QED
      BY <2>14, <3>1, <2>11 DEF Open, boundVars
  <2>15. ASSUME NEW f \in Files, Read(f) PROVE TypeOK'
    BY <2>15, <2>12 DEF Read, boundVars
  <2>16. ASSUME NEW f \in Files, PollError(f) PROVE TypeOK'
    <3>1. <<>> \in Seq(Byte)
      BY EmptySeq
    <3>2. /\ held' \in Seq(Byte) /\ unlinked' \in BOOLEAN
          /\ pc' \in Phases /\ todo' \in SUBSET Files
      BY <2>16, <3>1 DEF PollError, NextPath
    <3>3. UNCHANGED <<fsVars, watchVars, cursor, start, out, taken, base, delivered,
                     crashes, faults>>
      BY <2>16 DEF PollError
    <3>4. errors' \in Nat
      BY <2>16 DEF PollError
    <3> QED
      BY <3>2, <3>3, <3>4 DEF fsVars, watchVars
  <2>17. ASSUME NEW f \in Files, StoreFault(f) PROVE TypeOK'
    <3>1. cursor[f] \in Nat /\ 0 \in Nat /\ FALSE \in BOOLEAN
      OBVIOUS
    <3>2. crashes' \in Nat /\ errors' \in Nat /\ faults' \in Nat
      BY <2>17 DEF StoreFault
    <3> QED
      BY <2>17, <3>1, <3>2, <2>10, <2>11, <2>12 DEF StoreFault
  <2>18. CASE UNCHANGED vars
    BY <2>18 DEF vars, fsVars, watchVars, drainVars, handleVars, boundVars
  <2> QED
    BY <2>1, <2>2, <2>3, <2>4, <2>5, <2>6, <2>7, <2>8, <2>9, <2>13, <2>14, <2>15,
       <2>16, <2>17, <2>18
    DEF Next, World, Drain
<1> QED
  BY <1>1, <1>2, PTL DEF Spec

-----------------------------------------------------------------------------
(* Between two calls of the tailer there is no batch.                      *)
NoBatchBetweenCalls == pc \in {"down", "idle"} => out = [f \in Files |-> <<>>]

LEMMA BatchOnlyInCalls == Spec => []NoBatchBetweenCalls
<1>1. Init => NoBatchBetweenCalls
  BY DEF Init, NoBatchBetweenCalls
<1>2. NoBatchBetweenCalls /\ [Next]_vars => NoBatchBetweenCalls'
  <2> SUFFICES ASSUME NoBatchBetweenCalls, [Next]_vars, pc' \in {"down", "idle"}
               PROVE  out' = [f \in Files |-> <<>>]
    BY DEF NoBatchBetweenCalls
  <2>1. CASE World \/ UNCHANGED vars
    BY <2>1 DEF NoBatchBetweenCalls, World, WriteByte, TruncateFile, RemoveFile, Discard,
                Debounce, WatchError, vars, drainVars
  <2>2. CASE Startup \/ Recv \/ Return
    BY <2>2 DEF NoBatchBetweenCalls, Startup, Recv, Return
  <2>3. CASE Close \/ Crash
    BY <2>3, Zenon DEF Close, Crash, ProcessEnds
  <2>4. CASE \E f \in Files : Drain(f)
    BY <2>4 DEF Drain, Stat, StatTo, Open, OpenAt, Read, ReadLines, PollError, StoreFault,
                NextPath
  <2> QED
    BY <2>1, <2>2, <2>3, <2>4 DEF Next
<1> QED
  BY <1>1, <1>2, PTL DEF Spec

(* Nothing that was taken is lost short of a crash.                        *)
THEOREM NothingIsLost == Spec => []NothingLostInFlight
<1>1. Init => NothingLostInFlight
  <2>1. <<>> \o <<>> = <<>>
    BY EmptySeq, ConcatEmptySeq
  <2> QED
    BY <2>1 DEF Init, NothingLostInFlight
<1>2. /\ TypeOK /\ NoBatchBetweenCalls /\ NothingLostInFlight /\ [Next]_vars
      => NothingLostInFlight'
  <2> SUFFICES ASSUME TypeOK, NoBatchBetweenCalls, NothingLostInFlight, [Next]_vars,
                      crashes' = 0
               PROVE  \A f \in Files : taken'[f] = delivered'[f] \o out'[f]
    BY DEF NothingLostInFlight
  <2> DEFINE Balanced == \A f \in Files : taken[f] = delivered[f] \o out[f]
  <2> USE TailerAssumption DEF TailerAssumption
  <2>1. ASSUME UNCHANGED <<taken, delivered, out, crashes>> PROVE Balanced'
    BY <2>1 DEF NothingLostInFlight
  <2>2. CASE World
    BY <2>1, <2>2
    DEF World, WriteByte, TruncateFile, RemoveFile, Discard, Debounce, WatchError,
        drainVars, boundVars
  <2>3. CASE Startup \/ Recv
    BY <2>1, <2>3 DEF Startup, Recv, boundVars
  <2>4. CASE Return
    <3>1. \A f \in Files : /\ delivered[f] \o out[f] \in Seq(Byte)
                           /\ taken[f] = delivered[f] \o out[f]
      BY <2>4, ConcatProperties DEF TypeOK, NothingLostInFlight, Return, boundVars
    <3>2. \A f \in Files : (delivered[f] \o out[f]) \o <<>> = delivered[f] \o out[f]
      BY <3>1, ConcatEmptySeq
    <3> QED
      BY <2>4, <3>1, <3>2 DEF Return
  <2>5. CASE Crash
    BY <2>5 DEF Crash, TypeOK
  <2>6. ASSUME NEW f \in Files, NEW off, StatTo(f, off) \/ OpenAt(f, off),
               UNCHANGED crashes
        PROVE  Balanced'
    BY <2>1, <2>6 DEF StatTo, OpenAt
  <2>7. ASSUME NEW f \in Files, NEW advance, ReadLines(f, advance), UNCHANGED crashes
        PROVE  Balanced'
    <3>1. PICK n \in 0 .. Len(BytesFrom(f)) :
            /\ out'   = [out EXCEPT ![f] = @ \o SubSeq(BytesFrom(f), 1, n)]
            /\ taken' = [taken EXCEPT ![f] = @ \o SubSeq(BytesFrom(f), 1, n)]
      BY <2>7 DEF ReadLines
    <3>2. SubSeq(BytesFrom(f), 1, n) \in Seq(Byte)
      BY BytesFromType, PieceType
    <3>3. delivered' = delivered
      BY <2>7 DEF ReadLines
    <3>4. \A g \in Files : taken[g] = delivered[g] \o out[g]
      BY <2>7 DEF NothingLostInFlight
    <3>5. (delivered[f] \o out[f]) \o SubSeq(BytesFrom(f), 1, n)
            = delivered[f] \o (out[f] \o SubSeq(BytesFrom(f), 1, n))
      <4>1. \A a, b, c \in Seq(Byte) : (a \o b) \o c = a \o (b \o c)
        BY ConcatAssociative
      <4>2. delivered[f] \in Seq(Byte) /\ out[f] \in Seq(Byte)
        BY DEF TypeOK
      <4> QED
        BY <3>2, <4>1, <4>2, Zenon
    <3> QED
      BY <3>1, <3>3, <3>4, <3>5 DEF TypeOK
  <2>8. ASSUME NEW f \in Files, Drain(f) PROVE Balanced'
    BY <2>1, <2>6, <2>7, <2>8
    DEF Drain, Stat, Open, Read, PollError, StoreFault, boundVars
  <2>9. CASE UNCHANGED vars
    BY <2>1, <2>9 DEF vars, drainVars, boundVars
  <2>10. CASE Close
    BY <2>1, <2>10, Zenon DEF Close, ProcessEnds, NoBatchBetweenCalls, boundVars
  <2> QED
    BY <2>2, <2>3, <2>4, <2>5, <2>8, <2>9, <2>10 DEF Next
<1> QED
  BY <1>1, <1>2, TypeCorrect, BatchOnlyInCalls, PTL DEF Spec

-----------------------------------------------------------------------------
(* The offset at line ends. What makes it inductive: while the bytes of a  *)
(* removed transcript are still being read, the offset about to be stored  *)
(* lies beyond what has been written in its place.                         *)
HandleOnlyWhenReading == unlinked => pc = "read"

HeldBeyond ==
  \A f \in Files : Reading(f) /\ unlinked =>
    \A n \in 1 .. Len(BytesFrom(f)) :
      IsConsumable(BytesFrom(f), n) => Len(content[f]) < start + n

LineInv == TypeOK /\ HandleOnlyWhenReading /\ HeldBeyond /\ OffsetAtLineEnd

(* Bytes taken through a handle that is not stale are bytes of the file.   *)
LEMMA ReadIsOfFile ==
  ASSUME TypeOK, ~unlinked, NEW f \in Files, NEW n \in 1 .. Len(BytesFrom(f))
  PROVE  /\ start + n \in Nat /\ start + n <= Len(content[f])
         /\ content[f][start + n] = BytesFrom(f)[n]
         /\ SubSeq(BytesFrom(f), 1, n) = SubSeq(content[f], start + 1, start + n)
<1> DEFINE c == content[f]
           b == BytesFrom(f)
<1>1. c \in Seq(Byte) /\ start \in Nat /\ Len(c) \in Nat
  BY LenProperties DEF TypeOK
<1>2. b = SubSeq(c, start + 1, Len(c))
  BY DEF BytesFrom
<1> HIDE DEF c, b
<1>3. /\ b \in Seq(Byte)
      /\ Len(b) = IF start + 1 <= Len(c) THEN Len(c) - (start + 1) + 1 ELSE 0
      /\ \A i \in 1 .. Len(c) - (start + 1) + 1 : b[i] = c[start + 1 + i - 1]
  BY <1>1, <1>2, PieceType
<1>4. n \in Nat \ {0} /\ n <= Len(c) - start /\ n \in 0 .. Len(b)
  BY <1>1, <1>3 DEF b
<1>5. \A i \in 1 .. n : b[i] = c[start + i]
  <2> SUFFICES ASSUME NEW i \in 1 .. n PROVE b[i] = c[start + i]
    OBVIOUS
  <2>1. i \in 1 .. Len(c) - (start + 1) + 1
    BY <1>1, <1>4
  <2>2. start + 1 + i - 1 = start + i
    BY <1>1, <1>4
  <2> QED
    BY <1>3, <2>1, <2>2
<1>6. /\ SubSeq(b, 1, n) \in Seq(Byte)
      /\ Len(SubSeq(b, 1, n)) = n
      /\ \A i \in 1 .. n : SubSeq(b, 1, n)[i] = b[i]
  <2>1. /\ SubSeq(b, 1, n) \in Seq(Byte)
        /\ Len(SubSeq(b, 1, n)) = IF 1 <= n THEN n - 1 + 1 ELSE 0
        /\ \A i \in 1 .. n - 1 + 1 : SubSeq(b, 1, n)[i] = b[1 + i - 1]
    BY <1>3, <1>4, PieceType
  <2> QED
    BY <2>1, <1>4
<1>7. /\ SubSeq(c, start + 1, start + n) \in Seq(Byte)
      /\ Len(SubSeq(c, start + 1, start + n)) = n
      /\ \A i \in 1 .. n : SubSeq(c, start + 1, start + n)[i] = c[start + i]
  <2>1. start + 1 \in Nat \ {0} /\ start + n \in 0 .. Len(c)
    BY <1>1, <1>4
  <2>2. /\ SubSeq(c, start + 1, start + n) \in Seq(Byte)
        /\ Len(SubSeq(c, start + 1, start + n))
             = IF start + 1 <= start + n THEN start + n - (start + 1) + 1 ELSE 0
        /\ \A i \in 1 .. start + n - (start + 1) + 1 :
             SubSeq(c, start + 1, start + n)[i] = c[start + 1 + i - 1]
    BY <1>1, <2>1, PieceType
  <2> QED
    BY <2>2, <1>1, <1>4
<1>8. SubSeq(b, 1, n) = SubSeq(c, start + 1, start + n)
  <2>1. \A i \in 1 .. n : SubSeq(b, 1, n)[i] = SubSeq(c, start + 1, start + n)[i]
    BY <1>5, <1>6, <1>7
  <2> QED
    BY <1>6, <1>7, <2>1, SeqEqual
<1> QED
  BY <1>1, <1>4, <1>5, <1>8 DEF b, c

(* A write keeps the prefix, and a polite one skips the old offsets.       *)
LEMMA WriteFacts ==
  ASSUME TypeOK, NEW f \in Files, NEW b \in Byte, WriteByte(f, b)
  PROVE  /\ Len(content'[f]) = Len(content[f]) + 1
         /\ \A i \in 1 .. Len(content[f]) : content'[f][i] = content[f][i]
         /\ \A g \in Files \ {f} : content'[g] = content[g]
         /\ UNCHANGED <<cursor, pc, todo, start, unlinked, held, taken, base>>
         /\ PoliteRewrite => Len(content[f]) + 1 \notin OldOffsets(f)
<1>1. content[f] \in Seq(Byte) /\ content' = [content EXCEPT ![f] = Append(@, b)]
  BY DEF TypeOK, WriteByte
<1>2. content'[f] = Append(content[f], b)
  BY <1>1 DEF TypeOK
<1>3. /\ Len(content'[f]) = Len(content[f]) + 1
      /\ \A i \in 1 .. Len(content[f]) : content'[f][i] = content[f][i]
  BY <1>1, <1>2
<1>4. \A g \in Files \ {f} : content'[g] = content[g]
  BY <1>1 DEF TypeOK
<1>5. /\ UNCHANGED <<cursor, pc, todo, start, unlinked, held, taken, base>>
      /\ PoliteRewrite => Len(content[f]) + 1 \notin OldOffsets(f)
  BY DEF WriteByte, drainVars, handleVars
<1> QED
  BY <1>3, <1>4, <1>5

(* What a discarded transcript looks like to the tailer.                   *)
LEMMA DiscardFacts ==
  ASSUME TypeOK, NEW f \in Files, TruncateFile(f) \/ RemoveFile(f)
  PROVE  /\ content'[f] = <<>> /\ base'[f] = taken[f]
         /\ \A g \in Files \ {f} : content'[g] = content[g] /\ base'[g] = base[g]
         /\ UNCHANGED <<cursor, pc, todo, start, taken>>
         /\ \/ UNCHANGED <<unlinked, held>>
            \/ Reading(f) /\ ~unlinked /\ unlinked' /\ held' = content[f]
<1>1. Discard(f)
  BY DEF TruncateFile, RemoveFile
<1>2. /\ content'[f] = <<>> /\ base'[f] = taken[f]
      /\ \A g \in Files \ {f} : content'[g] = content[g] /\ base'[g] = base[g]
  BY <1>1 DEF TypeOK, Discard
<1>3. UNCHANGED <<cursor, pc, todo, start, taken>>
  BY <1>1 DEF Discard, drainVars
<1>4. \/ UNCHANGED <<unlinked, held>>
      \/ Reading(f) /\ ~unlinked /\ unlinked' /\ held' = content[f]
  BY DEF TruncateFile, RemoveFile, handleVars
<1> QED
  BY <1>2, <1>3, <1>4

(* Only one path is at hand.                                               *)
LEMMA OneAtHand ==
  ASSUME NEW f \in Files, NEW g \in Files, IsNext(f), IsNext(g)
  PROVE  f = g
BY TailerAssumption DEF TailerAssumption, IsNext

(* Every other step leaves the files, the offsets and the bytes taken as   *)
(* they are, and the drain too unless it ends the reading of a file.       *)
QuietStep ==
  /\ UNCHANGED <<content, cursor, taken, base>>
  /\ \/ UNCHANGED <<pc, todo, start, unlinked, held>>
     \/ pc' # "read" /\ ~unlinked'

LEMMA QuietSteps ==
  ASSUME TypeOK, HandleOnlyWhenReading,
         \/ Debounce \/ WatchError \/ Startup \/ Recv \/ Return
         \/ Close \/ Crash
         \/ \E f \in Files : PollError(f)
         \/ UNCHANGED vars
  PROVE  QuietStep
<1>1. CASE Debounce \/ WatchError
  BY <1>1 DEF Debounce, WatchError, QuietStep, fsVars, drainVars, handleVars
<1>2. CASE Startup
  BY <1>2 DEF Startup, QuietStep, HandleOnlyWhenReading, fsVars, handleVars
<1>3. CASE Recv
  BY <1>3 DEF Recv, QuietStep, HandleOnlyWhenReading, fsVars, handleVars
<1>4. CASE Return
  BY <1>4 DEF Return, QuietStep, HandleOnlyWhenReading, fsVars, handleVars
<1>5. CASE Close \/ Crash
  BY <1>5, Zenon DEF Close, Crash, ProcessEnds, QuietStep, fsVars
<1>6. CASE \E f \in Files : PollError(f)
  BY <1>6 DEF PollError, NextPath, QuietStep, fsVars
<1>7. CASE UNCHANGED vars
  BY <1>7 DEF vars, fsVars, drainVars, handleVars, QuietStep
<1> QED
  BY <1>1, <1>2, <1>3, <1>4, <1>5, <1>6, <1>7

(* What a read does to the file at hand: nothing, or it takes n bytes up   *)
(* to the end of a line.                                                   *)
LEMMA ReadFacts ==
  ASSUME TypeOK, NEW f \in Files, NEW advance \in BOOLEAN, ReadLines(f, advance)
  PROVE  /\ Reading(f) /\ pc' # "read" /\ ~unlinked' /\ content' = content
         /\ \A g \in Files \ {f} : /\ cursor'[g] = cursor[g]
                                   /\ taken'[g] = taken[g] /\ base'[g] = base[g]
         /\ \E n \in 0 .. Len(BytesFrom(f)) :
              /\ IsConsumable(BytesFrom(f), n)
              /\ cursor'[f] = IF n = 0 \/ ~advance THEN cursor[f] ELSE start + n
              /\ taken'[f] = taken[f] \o SubSeq(BytesFrom(f), 1, n)
              /\ base'[f] = IF unlinked THEN base[f] \o SubSeq(BytesFrom(f), 1, n)
                            ELSE base[f]
<1>1. Reading(f) /\ pc' # "read" /\ ~unlinked' /\ content' = content
  BY DEF ReadLines, NextPath, fsVars
<1>2. PICK n \in 0 .. Len(BytesFrom(f)) :
        /\ IsConsumable(BytesFrom(f), n)
        /\ taken'  = [taken EXCEPT ![f] = @ \o SubSeq(BytesFrom(f), 1, n)]
        /\ cursor' = [cursor EXCEPT ![f] = IF n = 0 \/ ~advance THEN @ ELSE start + n]
        /\ base'   = IF unlinked
                     THEN [base EXCEPT ![f] = @ \o SubSeq(BytesFrom(f), 1, n)]
                     ELSE base
  BY DEF ReadLines
<1>3. cursor'[f] = IF n = 0 \/ ~advance THEN cursor[f] ELSE start + n
  BY <1>2 DEF TypeOK
<1>4. taken'[f] = taken[f] \o SubSeq(BytesFrom(f), 1, n)
  BY <1>2, Zenon DEF TypeOK
<1>5. base'[f] = IF unlinked THEN base[f] \o SubSeq(BytesFrom(f), 1, n) ELSE base[f]
  BY <1>2, Zenon DEF TypeOK
<1>6. \A g \in Files \ {f} : /\ cursor'[g] = cursor[g]
                             /\ taken'[g] = taken[g] /\ base'[g] = base[g]
  BY <1>2, Zenon DEF TypeOK
<1> QED
  BY <1>1, <1>2, <1>3, <1>4, <1>5, <1>6

LEMMA LineInvStep ==
  ASSUME PoliteRewrite, LineInv, [Next]_vars, TypeOK'
  PROVE  LineInv'
<1> USE DEF LineInv
<1>1. ASSUME NEW f \in Files, NEW b \in Byte, WriteByte(f, b) PROVE LineInv'
  <2>1. HandleOnlyWhenReading'
    BY <1>1, WriteFacts DEF HandleOnlyWhenReading
  <2>2. HeldBeyond'
    <3> SUFFICES ASSUME NEW g \in Files, Reading(g)', unlinked',
                        NEW n \in 1 .. Len(BytesFrom(g)'), IsConsumable(BytesFrom(g)', n)
                 PROVE  Len(content'[g]) < start' + n
      BY DEF HeldBeyond, IsConsumable
    <3>1. Reading(g) /\ unlinked /\ BytesFrom(g)' = BytesFrom(g) /\ start' = start
      BY <1>1, WriteFacts DEF Reading, IsNext, BytesFrom
    <3>2. n \in 1 .. Len(BytesFrom(g)) /\ IsConsumable(BytesFrom(g), n)
      BY <3>1
    <3>3. Len(content[g]) < start + n
      BY <3>1, <3>2 DEF HeldBeyond
    <3>4. CASE g = f
      <4>1. start + n \in OldOffsets(f)
        BY <3>1, <3>2, <3>4 DEF OldOffsets
      <4>2. Len(content[f]) + 1 # start + n /\ Len(content'[f]) = Len(content[f]) + 1
        BY <4>1, <1>1, WriteFacts
      <4>3. Len(content[f]) \in Nat /\ start \in Nat /\ n \in Nat
        BY LenProperties DEF TypeOK
      <4> QED
        BY <3>1, <3>3, <3>4, <4>2, <4>3
    <3>5. CASE g # f
      BY <3>1, <3>3, <3>5, <1>1, WriteFacts
    <3> QED
      BY <3>4, <3>5
  <2>3. OffsetAtLineEnd'
    <3> SUFFICES ASSUME NEW g \in Files
                 PROVE  Consumed(g)' = 0 \/ content'[g][Consumed(g)'] = NL
      BY DEF OffsetAtLineEnd
    <3>1. cursor[g] \in Nat /\ Len(content[g]) \in Nat /\ cursor' = cursor
      BY <1>1, WriteFacts, LenProperties DEF TypeOK
    <3>2. Consumed(g) = 0 \/ content[g][Consumed(g)] = NL
      BY DEF OffsetAtLineEnd
    <3>3. CASE g = f
      <4>1. Len(content[f]) + 1 # cursor[f] /\ Len(content'[f]) = Len(content[f]) + 1
        BY <1>1, WriteFacts DEF OldOffsets
      <4>2. \A i \in 1 .. Len(content[f]) : content'[f][i] = content[f][i]
        BY <1>1, WriteFacts
      <4>3. Consumed(f)' = Consumed(f) /\ Consumed(f) \in 0 .. Len(content[f])
        BY <3>1, <3>3, <4>1 DEF Consumed
      <4> QED
        BY <3>1, <3>2, <3>3, <4>2, <4>3
    <3>4. CASE g # f
      <4>1. content'[g] = content[g]
        BY <1>1, <3>4, WriteFacts
      <4> QED
        BY <3>1, <3>2, <4>1 DEF Consumed
    <3> QED
      BY <3>3, <3>4
  <2> QED
    BY <2>1, <2>2, <2>3
<1>2. ASSUME NEW f \in Files, TruncateFile(f) \/ RemoveFile(f) PROVE LineInv'
  <2>1. HandleOnlyWhenReading'
    BY <1>2, DiscardFacts DEF HandleOnlyWhenReading, Reading
  <2>2. HeldBeyond'
    <3> SUFFICES ASSUME NEW g \in Files, Reading(g)', unlinked',
                        NEW n \in 1 .. Len(BytesFrom(g)'), IsConsumable(BytesFrom(g)', n)
                 PROVE  Len(content'[g]) < start' + n
      BY DEF HeldBeyond, IsConsumable
    <3>0. start \in Nat /\ n \in Nat \ {0}
      BY DEF TypeOK
    <3>1. Reading(g) /\ start' = start /\ start \in Nat /\ n \in Nat \ {0}
      BY <3>0, <1>2, DiscardFacts DEF Reading, IsNext
    <3>2. CASE g = f
      <4>1. Len(content'[f]) = 0
        BY <1>2, DiscardFacts, EmptySeq
      <4> QED
        BY <3>1, <3>2, <4>1
    <3>3. CASE g # f
      <4>1. ~Reading(f)
        BY <3>1, <3>3, OneAtHand DEF Reading
      <4>2. UNCHANGED <<unlinked, held>> /\ content'[g] = content[g]
        BY <1>2, <3>3, <4>1, DiscardFacts
      <4>3. unlinked /\ BytesFrom(g)' = BytesFrom(g)
        BY <3>1, <4>2 DEF BytesFrom
      <4>4. n \in 1 .. Len(BytesFrom(g)) /\ IsConsumable(BytesFrom(g), n)
        BY <4>3
      <4> QED
        BY <3>1, <4>2, <4>3, <4>4 DEF HeldBeyond
    <3> QED
      BY <3>2, <3>3
  <2>3. OffsetAtLineEnd'
    <3> SUFFICES ASSUME NEW g \in Files
                 PROVE  Consumed(g)' = 0 \/ content'[g][Consumed(g)'] = NL
      BY DEF OffsetAtLineEnd
    <3>1. CASE g = f
      <4>1. Len(content'[f]) = 0 /\ cursor'[f] \in Nat
        BY <1>2, DiscardFacts, EmptySeq DEF TypeOK
      <4> QED
        BY <3>1, <4>1 DEF Consumed
    <3>2. CASE g # f
      BY <1>2, <3>2, DiscardFacts DEF OffsetAtLineEnd, Consumed
    <3> QED
      BY <3>1, <3>2
  <2> QED
    BY <2>1, <2>2, <2>3
<1>3. ASSUME NEW f \in Files, StatTo(f, 0) \/ StatTo(f, cursor[f]) PROVE LineInv'
  <2>1. pc = "drain" /\ pc' = "open" /\ unlinked' = unlinked /\ content' = content
    BY <1>3 DEF StatTo, handleVars, fsVars
  <2>2. \A g \in Files : cursor'[g] = 0 \/ cursor'[g] = cursor[g]
    BY <1>3 DEF StatTo, TypeOK
  <2>3. OffsetAtLineEnd'
    BY <2>1, <2>2, LenProperties DEF OffsetAtLineEnd, Consumed, TypeOK
  <2> QED
    BY <2>1, <2>3 DEF HandleOnlyWhenReading, HeldBeyond, Reading
<1>4. ASSUME NEW f \in Files, NEW off, OpenAt(f, off) PROVE LineInv'
  <2>1. pc = "open" /\ ~unlinked /\ ~unlinked'
    BY <1>4 DEF OpenAt, NextPath, handleVars, HandleOnlyWhenReading
  <2>2. UNCHANGED <<content, cursor>>
    BY <1>4 DEF OpenAt, fsVars
  <2>3. OffsetAtLineEnd'
    BY <2>2 DEF OffsetAtLineEnd, Consumed
  <2> QED
    BY <2>1, <2>3 DEF HandleOnlyWhenReading, HeldBeyond
<1>5. ASSUME NEW f \in Files, NEW advance \in BOOLEAN, ReadLines(f, advance) PROVE LineInv'
  <2>1. /\ Reading(f) /\ pc' # "read" /\ ~unlinked' /\ content' = content
        /\ \A g \in Files \ {f} : cursor'[g] = cursor[g]
    BY <1>5, ReadFacts
  <2>2. PICK n \in 0 .. Len(BytesFrom(f)) :
          /\ IsConsumable(BytesFrom(f), n)
          /\ cursor'[f] = IF n = 0 \/ ~advance THEN cursor[f] ELSE start + n
    BY <1>5, ReadFacts
  <2>3. OffsetAtLineEnd'
    <3> SUFFICES ASSUME NEW g \in Files
                 PROVE  Consumed(g)' = 0 \/ content'[g][Consumed(g)'] = NL
      BY DEF OffsetAtLineEnd
    <3>1. CASE cursor'[g] = cursor[g]
      BY <2>1, <3>1 DEF OffsetAtLineEnd, Consumed
    <3>2. CASE cursor'[g] # cursor[g]
      <4>1. g = f /\ n \in 1 .. Len(BytesFrom(f)) /\ cursor'[g] = start + n
        BY <2>1, <2>2, <3>2
      <4>2. BytesFrom(f)[n] = NL
        BY <2>2, <4>1 DEF IsConsumable
      <4>3. CASE unlinked
        <5>1. Len(content[f]) < start + n
          BY <2>1, <2>2, <4>1, <4>3 DEF HeldBeyond
        <5>2. Len(content[f]) \in Nat /\ start + n \in Nat
          BY <4>1, LenProperties DEF TypeOK
        <5> QED
          BY <2>1, <4>1, <5>1, <5>2 DEF Consumed
      <4>4. CASE ~unlinked
        <5>1. start + n <= Len(content[f]) /\ content[f][start + n] = NL
          BY <4>1, <4>2, <4>4, ReadIsOfFile
        <5> QED
          BY <2>1, <4>1, <5>1 DEF Consumed
      <4> QED
        BY <4>3, <4>4
    <3> QED
      BY <3>1, <3>2
  <2> QED
    BY <2>1, <2>3 DEF HandleOnlyWhenReading, HeldBeyond
<1>6. ASSUME QuietStep PROVE LineInv'
  <2>1. OffsetAtLineEnd'
    BY <1>6 DEF QuietStep, OffsetAtLineEnd, Consumed
  <2>2. CASE UNCHANGED <<pc, todo, start, unlinked, held>>
    <3>1. \A g \in Files : /\ Reading(g)' = Reading(g) /\ BytesFrom(g)' = BytesFrom(g)
                           /\ content'[g] = content[g]
      BY <1>6, <2>2 DEF QuietStep, Reading, IsNext, BytesFrom
    <3>2. HeldBeyond'
      BY <2>2, <3>1 DEF HeldBeyond, IsConsumable
    <3> QED
      BY <2>1, <2>2, <3>2 DEF HandleOnlyWhenReading
  <2>3. CASE pc' # "read" /\ ~unlinked'
    BY <2>1, <2>3 DEF HandleOnlyWhenReading, HeldBeyond
  <2> QED
    BY <1>6, <2>2, <2>3 DEF QuietStep
<1>7. ASSUME NEW f \in Files, Stat(f) \/ Open(f) \/ Read(f) \/ StoreFault(f) PROVE LineInv'
  <2>1. CASE Stat(f)
    BY <1>3, <2>1 DEF Stat, RotationReset
  <2> QED
    BY <1>3, <1>4, <1>5, <1>7, <2>1 DEF Open, Read, StoreFault
<1> QED
  BY <1>1, <1>2, <1>6, <1>7, QuietSteps DEF Next, World, Drain

LEMMA InitLineInv == Init => LineInv
<1> SUFFICES ASSUME Init PROVE LineInv
  OBVIOUS
<1>1. TypeOK
  BY InitTypeOK
<1>2. \A f \in Files : cursor[f] = 0 /\ Len(content[f]) = 0
  BY EmptySeq DEF Init
<1>3. OffsetAtLineEnd
  BY <1>2 DEF OffsetAtLineEnd, Consumed
<1> QED
  BY <1>1, <1>3, Zenon DEF LineInv, Init, HandleOnlyWhenReading, HeldBeyond

(* With tools that rewrite politely, the stored offset is always the end   *)
(* of a line, whatever fails or crashes and even if the offset store does. *)
THEOREM OffsetsAreLineEnds ==
  ASSUME PoliteRewrite PROVE Spec => []OffsetAtLineEnd
<1>1. Init => LineInv
  BY InitLineInv
<1>2. TypeOK /\ TypeOK' /\ LineInv /\ [Next]_vars => LineInv'
  BY LineInvStep
<1>3. LineInv => OffsetAtLineEnd
  BY DEF LineInv
<1> QED
  BY <1>1, <1>2, <1>3, TypeCorrect, PTL DEF Spec

-----------------------------------------------------------------------------
(* The offset store at work: no get or set has failed, faults = 0. A read  *)
(* then starts where the offset says.                                      *)
StartIsCursor == \A f \in Files : Reading(f) => start = cursor[f]

StartInv == TypeOK /\ HandleOnlyWhenReading /\ StartIsCursor

LEMMA NoStoreFault ==
  ASSUME TypeOK, faults' = 0, NEW f \in Files
  PROVE  ~StoreFault(f)
<1>1. faults \in Nat
  BY DEF TypeOK
<1>2. StoreFault(f) => faults' = faults + 1
  BY Zenon DEF StoreFault
<1> QED
  BY <1>1, <1>2

(* A store that has not failed by now has never failed.                    *)
LEMMA FaultsGrow ==
  ASSUME TypeOK, [Next]_vars, faults' = 0
  PROVE  faults = 0
<1>1. ASSUME NEW f \in Files, Stat(f) \/ Open(f) \/ Read(f) \/ PollError(f)
      PROVE  faults' = faults
  BY <1>1, Zenon DEF Stat, Open, Read, PollError, boundVars
<1>2. ASSUME NEW f \in Files, NEW b \in Byte, WriteByte(f, b) PROVE faults' = faults
  BY <1>2, Zenon DEF WriteByte, boundVars
<1>3. ASSUME NEW f \in Files, TruncateFile(f) \/ RemoveFile(f) PROVE faults' = faults
  BY <1>3, Zenon DEF TruncateFile, RemoveFile, Discard, boundVars
<1>4. ASSUME Debounce \/ WatchError \/ Startup \/ Recv \/ Return \/ Close \/ Crash
      PROVE  faults' = faults
  BY <1>4, Zenon DEF Debounce, WatchError, Startup, Recv, Return, Close, Crash, ProcessEnds, boundVars
<1>5. CASE UNCHANGED vars
  BY <1>5 DEF vars, boundVars
<1> QED
  BY <1>1, <1>2, <1>3, <1>4, <1>5, NoStoreFault DEF Next, World, Drain

LEMMA StartInvStep ==
  ASSUME faults' = 0, StartInv, [Next]_vars, TypeOK'
  PROVE  StartInv'
<1> USE DEF StartInv
<1>1. ASSUME NEW f \in Files, NEW b \in Byte, WriteByte(f, b) PROVE StartInv'
  BY <1>1, WriteFacts DEF HandleOnlyWhenReading, StartIsCursor, Reading, IsNext
<1>2. ASSUME NEW f \in Files, TruncateFile(f) \/ RemoveFile(f) PROVE StartInv'
  <2>1. UNCHANGED <<cursor, pc, todo, start>> /\ (unlinked' => unlinked \/ Reading(f))
    BY <1>2, DiscardFacts
  <2> QED
    BY <2>1 DEF HandleOnlyWhenReading, StartIsCursor, Reading, IsNext
<1>3. ASSUME NEW f \in Files, Stat(f) PROVE StartInv'
  BY <1>3 DEF Stat, StatTo, handleVars, HandleOnlyWhenReading, StartIsCursor, Reading
<1>4. ASSUME NEW f \in Files, Open(f) PROVE StartInv'
  <2>1. OpenAt(f, ClampedStart(f)) /\ pc = "open" /\ IsNext(f) /\ cursor' = cursor
    BY <1>4 DEF Open, OpenAt
  <2>2. ~unlinked'
    BY <2>1 DEF OpenAt, NextPath, handleVars, HandleOnlyWhenReading
  <2>3. ASSUME NEW g \in Files, Reading(g)' PROVE start' = cursor[g]
    <3>1. todo' = todo /\ start' = ClampedStart(f) /\ ClampedStart(f) < Len(content[f])
      <4>1. pc' = "read"
        BY <2>3 DEF Reading
      <4>2. ~(ClampedStart(f) >= Len(content[f])) /\ todo' = todo /\ start' = ClampedStart(f)
        BY <2>1, <4>1 DEF OpenAt, NextPath
      <4>3. ClampedStart(f) \in Nat /\ Len(content[f]) \in Nat
        BY LenProperties DEF TypeOK, ClampedStart
      <4> QED
        BY <4>2, <4>3
    <3>2. IsNext(g)
      BY <2>3, <3>1 DEF Reading, IsNext
    <3>3. g = f
      BY <2>1, <3>2, OneAtHand
    <3>4. cursor[f] \in Nat /\ Len(content[f]) \in Nat
      BY LenProperties DEF TypeOK
    <3> QED
      BY <3>1, <3>3, <3>4 DEF ClampedStart
  <2> QED
    BY <2>1, <2>2, <2>3 DEF HandleOnlyWhenReading, StartIsCursor
<1>5. ASSUME NEW f \in Files, Read(f) PROVE StartInv'
  BY <1>5, ReadFacts DEF Read, HandleOnlyWhenReading, StartIsCursor, Reading
<1>6. ASSUME QuietStep PROVE StartInv'
  BY <1>6 DEF QuietStep, HandleOnlyWhenReading, StartIsCursor, Reading, IsNext
<1> QED
  BY <1>1, <1>2, <1>3, <1>4, <1>5, <1>6, QuietSteps, NoStoreFault DEF Next, World, Drain

LEMMA InitStartInv == Init => StartInv
BY InitTypeOK, Zenon
DEF Init, StartInv, HandleOnlyWhenReading, StartIsCursor, Reading, IsNext

(* The persisted offset moves forward, or back to zero when the file is    *)
(* shorter than it: nothing else the tailer, its tools or its watcher do   *)
(* moves it back.                                                          *)
THEOREM OffsetsMoveForward == Spec => OffsetMovesForward
<1> DEFINE Forward ==
      \A f \in Files :
        faults' = 0 /\ cursor'[f] < cursor[f] =>
          cursor'[f] = 0 /\ cursor[f] > Len(content[f])
<1>1. TypeOK /\ TypeOK' /\ (faults = 0 => StartInv) /\ [Next]_vars
        => (faults = 0 => StartInv)'
  BY StartInvStep, FaultsGrow
<1>2. TypeOK /\ (faults = 0 => StartInv) /\ [Next]_vars => [Forward]_vars
  <2> SUFFICES ASSUME StartInv, [Next]_vars, faults' = 0 PROVE Forward
    BY FaultsGrow
  <2> USE DEF StartInv
  <2>0. \A f \in Files : cursor[f] \in Nat
    BY DEF TypeOK
  <2>1. ASSUME UNCHANGED cursor PROVE Forward
    BY <2>0, <2>1
  <2>2. ASSUME NEW f \in Files, Stat(f) PROVE Forward
    BY <2>0, <2>2 DEF Stat, StatTo, RotationReset, TypeOK
  <2>3. ASSUME NEW f \in Files, Read(f) PROVE Forward
    <3>1. Reading(f) /\ \A g \in Files \ {f} : cursor'[g] = cursor[g]
      BY <2>3, ReadFacts DEF Read
    <3>2. PICK n \in 0 .. Len(BytesFrom(f)) :
            cursor'[f] = IF n = 0 \/ ~TRUE THEN cursor[f] ELSE start + n
      BY <2>3, ReadFacts DEF Read
    <3>3. start = cursor[f]
      BY <3>1 DEF StartIsCursor
    <3> QED
      BY <2>0, <3>1, <3>2, <3>3
  <2>4. ASSUME NEW f \in Files, Open(f) PROVE Forward
    BY <2>1, <2>4 DEF Open, OpenAt
  <2>5. CASE \E f \in Files : (\E b \in Byte : WriteByte(f, b)) \/ TruncateFile(f)
                              \/ RemoveFile(f)
    BY <2>1, <2>5, WriteFacts, DiscardFacts
  <2>6. CASE QuietStep
    BY <2>1, <2>6 DEF QuietStep
  <2> QED
    BY <2>2, <2>3, <2>4, <2>5, <2>6, QuietSteps, NoStoreFault DEF Next, World, Drain
<1> QED
  BY <1>1, <1>2, InitStartInv, TypeCorrect, PTL DEF Spec, OffsetMovesForward

-----------------------------------------------------------------------------
(* Every byte once. While a removed transcript is being read, nothing of   *)
(* what replaced it counts as consumed.                                    *)
HeldMeansFresh == \A f \in Files : Reading(f) /\ unlinked => Consumed(f) = 0

EachByteTaken ==
  \A f \in Files : taken[f] = base[f] \o SubSeq(content[f], 1, Consumed(f))

TakenInv == LineInv /\ StartInv /\ HeldMeansFresh /\ EachByteTaken

LEMMA ConsumedType ==
  ASSUME TypeOK, NEW f \in Files
  PROVE  /\ Consumed(f) \in 0 .. Len(content[f])
         /\ SubSeq(content[f], 1, Consumed(f)) \in Seq(Byte)
<1>1. content[f] \in Seq(Byte) /\ cursor[f] \in Nat /\ Len(content[f]) \in Nat
  BY LenProperties DEF TypeOK
<1>2. Consumed(f) \in 0 .. Len(content[f])
  BY <1>1 DEF Consumed
<1> QED
  BY <1>1, <1>2, PieceType

(* A polite write changes nothing that was consumed.                       *)
LEMMA WriteKeepsConsumed ==
  ASSUME PoliteRewrite, TypeOK, TypeOK', NEW f \in Files, NEW b \in Byte,
         WriteByte(f, b), NEW g \in Files
  PROVE  /\ Consumed(g)' = Consumed(g)
         /\ SubSeq(content'[g], 1, Consumed(g)) = SubSeq(content[g], 1, Consumed(g))
<1>1. CASE g # f
  <2>1. content'[g] = content[g] /\ cursor' = cursor
    BY <1>1, WriteFacts
  <2> QED
    BY <2>1 DEF Consumed
<1>2. CASE g = f
  <2> DEFINE k == Consumed(f)
  <2>1. /\ Len(content[f]) \in Nat /\ cursor[f] \in Nat /\ cursor' = cursor
        /\ Len(content[f]) + 1 # cursor[f] /\ Len(content'[f]) = Len(content[f]) + 1
    BY WriteFacts, LenProperties DEF TypeOK, OldOffsets
  <2>2. Consumed(f)' = k
    BY <2>1 DEF Consumed
  <2>3. k \in 0 .. Len(content[f]) /\ k \in 0 .. Len(content'[f]) /\ k \in Nat
    BY <2>1, ConsumedType
  <2>4. content[f] \in Seq(Byte) /\ content'[f] \in Seq(Byte)
    BY DEF TypeOK
  <2>5. \A i \in 1 .. k : content'[f][i] = content[f][i]
    BY <2>1, <2>3, WriteFacts
  <2> HIDE DEF k
  <2>6. ASSUME NEW s \in Seq(Byte), k \in 0 .. Len(s)
        PROVE  /\ SubSeq(s, 1, k) \in Seq(Byte) /\ Len(SubSeq(s, 1, k)) = k
               /\ \A i \in 1 .. k : SubSeq(s, 1, k)[i] = s[i]
    <3>1. /\ SubSeq(s, 1, k) \in Seq(Byte)
          /\ Len(SubSeq(s, 1, k)) = IF 1 <= k THEN k - 1 + 1 ELSE 0
          /\ \A i \in 1 .. k - 1 + 1 : SubSeq(s, 1, k)[i] = s[1 + i - 1]
      BY <2>6, PieceType
    <3> QED
      BY <3>1, <2>3
  <2>7. \A i \in 1 .. k : SubSeq(content'[f], 1, k)[i] = SubSeq(content[f], 1, k)[i]
    BY <2>3, <2>4, <2>5, <2>6
  <2>8. SubSeq(content'[f], 1, k) = SubSeq(content[f], 1, k)
    BY <2>3, <2>4, <2>6, <2>7, SeqEqual
  <2> QED
    BY <1>2, <2>2, <2>8 DEF k
<1> QED
  BY <1>1, <1>2

LEMMA TakenInvStep ==
  ASSUME PoliteRewrite, faults' = 0, TakenInv, [Next]_vars, TypeOK'
  PROVE  HeldMeansFresh' /\ EachByteTaken'
<1> USE DEF TakenInv, LineInv, StartInv
<1> DEFINE Fine == HeldMeansFresh' /\ EachByteTaken'
<1>1. ASSUME NEW f \in Files, NEW b \in Byte, WriteByte(f, b) PROVE Fine
  <2>1. UNCHANGED <<pc, todo, unlinked, taken, base>>
    BY <1>1, WriteFacts
  <2>2. \A g \in Files : /\ Consumed(g)' = Consumed(g)
                         /\ SubSeq(content'[g], 1, Consumed(g))
                              = SubSeq(content[g], 1, Consumed(g))
    BY <1>1, WriteKeepsConsumed
  <2> QED
    BY <2>1, <2>2 DEF HeldMeansFresh, EachByteTaken, Reading, IsNext
<1>2. ASSUME NEW f \in Files, TruncateFile(f) \/ RemoveFile(f) PROVE Fine
  <2>1. /\ content'[f] = <<>> /\ base'[f] = taken[f]
        /\ UNCHANGED <<cursor, pc, todo, start, taken>>
    BY <1>2, DiscardFacts
  <2>2. Consumed(f)' = 0
    BY <2>1, EmptySeq DEF Consumed, TypeOK
  <2>3. taken'[f] = base'[f] \o SubSeq(content'[f], 1, Consumed(f)')
    <3>1. SubSeq(content'[f], 1, Consumed(f)') = <<>>
      BY <2>2, SubSeqEmpty
    <3>2. taken[f] \in Seq(Byte)
      BY DEF TypeOK
    <3>3. taken[f] \o <<>> = taken[f]
      BY <3>2, ConcatEmptySeq
    <3> QED
      BY <2>1, <3>1, <3>3
  <2>4. \A g \in Files \ {f} : /\ content'[g] = content[g] /\ base'[g] = base[g]
                               /\ Consumed(g)' = Consumed(g)
    BY <1>2, DiscardFacts DEF Consumed
  <2>5. EachByteTaken'
    BY <2>1, <2>3, <2>4 DEF EachByteTaken
  <2>6. HeldMeansFresh'
    <3> SUFFICES ASSUME NEW g \in Files, Reading(g)', unlinked', g # f
                 PROVE  Consumed(g)' = 0
      BY <2>2 DEF HeldMeansFresh
    <3>1. Reading(g) /\ ~Reading(f)
      BY <2>1, OneAtHand DEF Reading, IsNext
    <3>2. unlinked
      BY <1>2, <3>1, DiscardFacts
    <3> QED
      BY <2>4, <3>1, <3>2 DEF HeldMeansFresh
  <2> QED
    BY <2>5, <2>6
<1>3. ASSUME NEW f \in Files, Stat(f) PROVE Fine
  <2>1. /\ cursor' = [cursor EXCEPT ![f] = RotationReset(f)] /\ pc' = "open"
        /\ UNCHANGED <<content, taken, base>>
    BY <1>3 DEF Stat, StatTo, fsVars
  <2>2. \A g \in Files : Consumed(g)' = Consumed(g)
    <3> SUFFICES ASSUME NEW g \in Files PROVE Consumed(g)' = Consumed(g)
      OBVIOUS
    <3>1. cursor[g] \in Nat /\ Len(content[g]) \in Nat /\ content' = content
      BY <2>1, LenProperties DEF TypeOK
    <3>2. \/ cursor'[g] = cursor[g]
          \/ cursor'[g] = 0 /\ cursor[g] > Len(content[g])
      BY <2>1 DEF RotationReset, TypeOK
    <3> QED
      BY <3>1, <3>2 DEF Consumed
  <2> QED
    BY <2>1, <2>2 DEF HeldMeansFresh, EachByteTaken, Reading
<1>4. ASSUME NEW f \in Files, Open(f) PROVE Fine
  <2>1. ~unlinked' /\ UNCHANGED <<content, cursor, taken, base>>
    BY <1>4 DEF Open, OpenAt, NextPath, handleVars, fsVars, HandleOnlyWhenReading
  <2> QED
    BY <2>1 DEF HeldMeansFresh, EachByteTaken, Consumed
<1>5. ASSUME NEW f \in Files, Read(f) PROVE Fine
  <2>1. /\ Reading(f) /\ ~unlinked' /\ content' = content
        /\ \A g \in Files \ {f} : /\ cursor'[g] = cursor[g]
                                  /\ taken'[g] = taken[g] /\ base'[g] = base[g]
    BY <1>5, ReadFacts DEF Read
  <2>2. PICK n \in 0 .. Len(BytesFrom(f)) :
          /\ IsConsumable(BytesFrom(f), n)
          /\ cursor'[f] = IF n = 0 \/ ~TRUE THEN cursor[f] ELSE start + n
          /\ taken'[f] = taken[f] \o SubSeq(BytesFrom(f), 1, n)
          /\ base'[f] = IF unlinked THEN base[f] \o SubSeq(BytesFrom(f), 1, n)
                        ELSE base[f]
    BY <1>5, ReadFacts DEF Read
  <2> DEFINE piece == SubSeq(BytesFrom(f), 1, n)
             old == SubSeq(content[f], 1, Consumed(f))
  <2>3. /\ piece \in Seq(Byte) /\ old \in Seq(Byte) /\ base[f] \in Seq(Byte)
        /\ taken[f] \in Seq(Byte)
        /\ start \in Nat /\ Len(content[f]) \in Nat /\ start = cursor[f]
    <3>1. piece \in Seq(Byte)
      BY BytesFromType, PieceType
    <3>2. old \in Seq(Byte)
      BY ConsumedType
    <3> QED
      BY <2>1, <3>1, <3>2, LenProperties DEF TypeOK, StartIsCursor
  <2>4. taken[f] = base[f] \o old
    BY DEF EachByteTaken
  <2>5. taken'[f] = base'[f] \o SubSeq(content'[f], 1, Consumed(f)')
    <3>1. CASE n = 0
      <4>1. piece = <<>>
        BY <3>1, SubSeqEmpty
      <4>2. taken'[f] = taken[f] /\ base'[f] = base[f] /\ cursor'[f] = cursor[f]
        BY <2>2, <2>3, <3>1, <4>1, ConcatEmptySeq
      <4>3. Consumed(f)' = Consumed(f)
        BY <2>1, <4>2 DEF Consumed
      <4> QED
        BY <2>1, <2>4, <4>2, <4>3
    <3>2. CASE n # 0 /\ unlinked
      <4>1. n \in 1 .. Len(BytesFrom(f)) /\ cursor'[f] = start + n
        BY <2>2, <3>2
      <4>2. Len(content[f]) < start + n
        BY <2>1, <2>2, <3>2, <4>1 DEF HeldBeyond
      <4>3. Consumed(f)' = 0 /\ Consumed(f) = 0
        <5>1. start + n \in Nat
          BY <2>3, <4>1
        <5> QED
          BY <2>1, <2>3, <3>2, <4>1, <4>2, <5>1 DEF Consumed, HeldMeansFresh
      <4>4. old = <<>> /\ SubSeq(content'[f], 1, Consumed(f)') = <<>>
        BY <4>3, SubSeqEmpty
      <4>5. taken[f] = base[f]
        BY <2>3, <2>4, <4>4, ConcatEmptySeq
      <4>6. base'[f] = base[f] \o piece /\ taken'[f] = base[f] \o piece
        BY <2>2, <3>2, <4>5
      <4>7. (base[f] \o piece) \o <<>> = base[f] \o piece
        BY <2>3, ConcatProperties, ConcatEmptySeq
      <4> QED
        BY <4>4, <4>6, <4>7
    <3>3. CASE n # 0 /\ ~unlinked
      <4>1. n \in 1 .. Len(BytesFrom(f)) /\ cursor'[f] = start + n /\ base'[f] = base[f]
        BY <2>2, <3>3
      <4>2. /\ start + n \in Nat /\ start + n <= Len(content[f])
            /\ piece = SubSeq(content[f], start + 1, start + n)
        BY <3>3, <4>1, ReadIsOfFile
      <4>3. Consumed(f) = start /\ Consumed(f)' = start + n
        <5> HIDE DEF piece, old
        <5>0. n \in Nat /\ start \in Nat /\ Len(content[f]) \in Nat
          BY <2>3
        <5>1. start <= Len(content[f])
          BY <4>2, <5>0
        <5>2. Consumed(f) = start
          BY <2>3, <5>1 DEF Consumed
        <5>3. cursor'[f] <= Len(content'[f])
          BY <2>1, <4>1, <4>2
        <5> QED
          BY <4>1, <5>2, <5>3 DEF Consumed
      <4>4. old \o piece = SubSeq(content[f], 1, start + n)
        <5>1. content[f] \in Seq(Byte) /\ 1 \in 1 .. Len(content[f]) + 1
              /\ start \in 1 - 1 .. Len(content[f])
              /\ start + n \in start .. Len(content[f])
          <6>1. content[f] \in Seq(Byte)
            BY DEF TypeOK
          <6>2. n \in Nat /\ start <= start + n /\ start <= Len(content[f])
            BY <2>3, <4>1, <4>2
          <6>3. 1 \in 1 .. Len(content[f]) + 1 /\ start \in 1 - 1 .. Len(content[f])
            BY <2>3, <6>2
          <6>4. start + n \in start .. Len(content[f])
            BY <2>3, <4>2, <6>2
          <6> QED
            BY <6>1, <6>3, <6>4
        <5>2. SubSeq(content[f], 1, start) \o SubSeq(content[f], start + 1, start + n)
                = SubSeq(content[f], 1, start + n)
          BY <5>1, ConcatAdjacentSubSeq
        <5> QED
          BY <4>2, <4>3, <5>2
      <4>5. \A a, b, c \in Seq(Byte) : (a \o b) \o c = a \o (b \o c)
        BY ConcatAssociative
      <4>6. (base[f] \o old) \o piece = base[f] \o (old \o piece)
        BY <2>3, <4>5, Zenon
      <4>7. taken'[f] = (base[f] \o old) \o piece
        BY <2>2, <2>4
      <4> QED
        BY <2>1, <4>1, <4>3, <4>4, <4>6, <4>7
    <3> QED
      BY <3>1, <3>2, <3>3
  <2>6. EachByteTaken'
    <3>1. \A g \in Files \ {f} : Consumed(g)' = Consumed(g)
      BY <2>1 DEF Consumed
    <3> QED
      BY <2>1, <2>5, <3>1 DEF EachByteTaken
  <2>7. HeldMeansFresh'
    BY <2>1 DEF HeldMeansFresh
  <2> QED
    BY <2>6, <2>7
<1>6. ASSUME QuietStep PROVE Fine
  <2>1. UNCHANGED <<content, cursor, taken, base>>
    BY <1>6 DEF QuietStep
  <2>2. \A g \in Files : Consumed(g)' = Consumed(g)
    BY <2>1 DEF Consumed
  <2>3. \A g \in Files : Reading(g)' /\ unlinked' => Reading(g) /\ unlinked
    BY <1>6 DEF QuietStep, Reading, IsNext
  <2>4. HeldMeansFresh'
    BY <2>2, <2>3 DEF HeldMeansFresh
  <2>5. EachByteTaken'
    BY <2>1, <2>2, Zenon DEF EachByteTaken
  <2> QED
    BY <2>4, <2>5
<1> QED
  BY <1>1, <1>2, <1>3, <1>4, <1>5, <1>6, QuietSteps, NoStoreFault DEF Next, World, Drain

LEMMA TakenInvariant ==
  ASSUME PoliteRewrite PROVE Spec => [](faults = 0 => TakenInv)
<1>1. Init => TakenInv
  <2> SUFFICES ASSUME Init PROVE TakenInv
    OBVIOUS
  <2>1. HeldMeansFresh
    BY Zenon DEF Init, HeldMeansFresh, Reading
  <2>2. \A f \in Files : taken[f] = base[f] \o SubSeq(content[f], 1, Consumed(f))
    <3> TAKE f \in Files
    <3>1. taken[f] = <<>> /\ base[f] = <<>> /\ Consumed(f) = 0
      BY EmptySeq DEF Init, Consumed
    <3>2. SubSeq(content[f], 1, Consumed(f)) = <<>>
      BY <3>1, SubSeqEmpty
    <3>3. <<>> \o <<>> = <<>>
      BY EmptySeq, ConcatEmptySeq
    <3> QED
      BY <3>1, <3>2, <3>3
  <2> QED
    BY <2>1, <2>2, InitLineInv, InitStartInv DEF TakenInv, EachByteTaken
<1>2. TypeOK /\ TypeOK' /\ (faults = 0 => TakenInv) /\ [Next]_vars
        => (faults = 0 => TakenInv)'
  <2> SUFFICES ASSUME TypeOK, TypeOK', TakenInv, [Next]_vars, faults' = 0
               PROVE  TakenInv'
    BY FaultsGrow
  <2>1. LineInv'
    BY LineInvStep DEF TakenInv
  <2>2. StartInv'
    BY StartInvStep DEF TakenInv
  <2> QED
    BY <2>1, <2>2, TakenInvStep DEF TakenInv
<1> QED
  BY <1>1, <1>2, TypeCorrect, PTL DEF Spec

(* With tools that rewrite politely, and until a call of the offset store  *)
(* fails, every byte of every generation of every transcript is taken once *)
(* and in order, across crashes, failed reads, truncation and removal      *)
(* under an open handle.                                                   *)
THEOREM EveryByteOnce ==
  ASSUME PoliteRewrite PROVE Spec => []TakenExactlyOnce
<1>1. (faults = 0 => TakenInv) => TakenExactlyOnce
  BY DEF TakenInv, EachByteTaken, TakenExactlyOnce
<1> QED
  BY <1>1, TakenInvariant, PTL
-----------------------------------------------------------------------------
(* What the tailer promises its caller: nothing waits unread while it is   *)
(* idle, and what it hands over is what LineFeed says.                     *)

(* f will be drained: its change is on its way through the debouncer.      *)
Queued(f) == f \in dirty \/ \E i \in 1 .. Len(chan) : f \in chan[i].paths

InHand(f) == pc \in {"open", "read"} /\ IsNext(f)

CaughtUp(f) ==
  \A n \in 1 .. Len(content[f]) :
    content[f][n] = NL => Len(taken[f]) >= Len(base[f]) + n

(* What makes IdleMeansCaughtUp inductive: a transcript with unread lines  *)
(* is queued or still to be drained by this call, and one that shrank or   *)
(* was replaced after its rotation check has been queued again.            *)
QueueOk == errors = 0 => \A i \in 1 .. Len(chan) : chan[i].ok

GoneIsEmpty == \A f \in Files : ~exists[f] => content[f] = <<>>

TodoOnlyInCall == pc \in {"down", "idle"} => todo = {}

ShrunkIsQueued ==
  errors = 0 =>
    \A f \in Files :
      InHand(f) /\ exists[f] /\ (cursor[f] > Len(content[f]) \/ unlinked) => Queued(f)

UnreadIsPending ==
  errors = 0 /\ pc # "down" =>
    \A f \in Files : CaughtUp(f) \/ Queued(f) \/ f \in todo

QueueInv == QueueOk /\ GoneIsEmpty /\ TodoOnlyInCall

UnreadInv == QueueInv /\ ShrunkIsQueued /\ UnreadIsPending

LEMMA InitUnreadInv == Init => UnreadInv
<1> SUFFICES ASSUME Init PROVE UnreadInv
  OBVIOUS
<1>1. QueueOk
  BY EmptySeq DEF Init, QueueOk
<1> QED
  BY <1>1, Zenon
  DEF Init, UnreadInv, QueueInv, GoneIsEmpty, TodoOnlyInCall, ShrunkIsQueued,
      UnreadIsPending, InHand

(* A queued path stays queued until the loop receives a result.            *)
LEMMA DebounceKeepsQueued ==
  ASSUME TypeOK, Debounce, NEW f \in Files, Queued(f)
  PROVE  Queued(f)'
<1> DEFINE r == [ok |-> TRUE, paths |-> dirty]
<1>1. chan' = Append(chan, r) /\ chan \in Seq(Results)
  BY DEF Debounce, TypeOK
<1>2. r \in Results
  BY DEF Results, TypeOK
<1>3. /\ Len(chan') = Len(chan) + 1 /\ Len(chan) \in Nat
      /\ chan'[Len(chan) + 1] = r
      /\ \A i \in 1 .. Len(chan) : chan'[i] = chan[i]
  BY <1>1, <1>2
<1>4. CASE f \in dirty
  <2>1. f \in chan'[Len(chan) + 1].paths
    BY <1>3, <1>4
  <2> QED
    BY <1>3, <2>1 DEF Queued
<1>5. CASE \E i \in 1 .. Len(chan) : f \in chan[i].paths
  <2>1. PICK i \in 1 .. Len(chan) : f \in chan[i].paths
    BY <1>5
  <2>2. i \in 1 .. Len(chan') /\ f \in chan'[i].paths
    BY <1>3, <2>1
  <2> QED
    BY <2>2 DEF Queued
<1> QED
  BY <1>4, <1>5 DEF Queued

(* The books the loop keeps: results are good until something fails, a     *)
(* missing file is empty, and paths are pending only inside a call.        *)
LEMMA BookStep ==
  ASSUME TypeOK, QueueInv, [Next]_vars
  PROVE  QueueInv'
<1> USE DEF QueueInv
<1>1. ASSUME errors' # 0 \/ (chan' = chan /\ errors' = errors) PROVE QueueOk'
  BY <1>1 DEF QueueOk
<1>2. ASSUME UNCHANGED <<exists, content>> PROVE GoneIsEmpty'
  BY <1>2 DEF GoneIsEmpty
<1>3. ASSUME pc' \notin {"down", "idle"} \/ todo' = {} \/ UNCHANGED <<pc, todo>>
      PROVE  TodoOnlyInCall'
  BY <1>3 DEF TodoOnlyInCall
<1>4. ASSUME NEW f \in Files, NEW b \in Byte, WriteByte(f, b) PROVE QueueInv'
  <2>1. GoneIsEmpty'
    BY <1>4, Zenon DEF WriteByte, GoneIsEmpty, TypeOK
  <2> QED
    BY <2>1, <1>1, <1>3, <1>4 DEF WriteByte, drainVars, boundVars
<1>5. ASSUME NEW f \in Files, TruncateFile(f) \/ RemoveFile(f) PROVE QueueInv'
  <2>1. content' = [content EXCEPT ![f] = <<>>] /\ UNCHANGED <<chan, pc, todo, errors>>
    BY <1>5 DEF TruncateFile, RemoveFile, Discard, drainVars, boundVars
  <2>2. \A g \in Files : ~exists'[g] => g = f \/ ~exists[g]
    BY <1>5, Zenon DEF TruncateFile, RemoveFile, TypeOK
  <2>3. GoneIsEmpty'
    BY <2>1, <2>2, Zenon DEF GoneIsEmpty, TypeOK
  <2> QED
    BY <2>1, <2>3, <1>1, <1>3
<1>6. CASE Debounce
  <2>1. QueueOk'
    <3> SUFFICES ASSUME errors = 0, NEW i \in 1 .. Len(chan') PROVE chan'[i].ok
      BY <1>6 DEF Debounce, boundVars, QueueOk
    <3> DEFINE r == [ok |-> TRUE, paths |-> dirty]
    <3>1. r \in Results /\ r.ok
      BY DEF Results, TypeOK
    <3>2. chan' = Append(chan, r) /\ chan \in Seq(Results)
      BY <1>6 DEF Debounce, TypeOK
    <3> HIDE DEF r
    <3>3. \/ i \in 1 .. Len(chan) /\ chan'[i] = chan[i]
          \/ chan'[i] = r
      BY <3>1, <3>2
    <3> QED
      BY <3>1, <3>3 DEF QueueOk
  <2> QED
    BY <2>1, <1>2, <1>3, <1>6 DEF Debounce, fsVars, drainVars
<1>7. CASE WatchError
  <2>1. errors' # 0
    BY <1>7 DEF WatchError, TypeOK
  <2>2. QueueOk'
    BY <2>1, <1>1
  <2>3. GoneIsEmpty' /\ TodoOnlyInCall'
    BY <1>2, <1>3, <1>7 DEF WatchError, fsVars, drainVars
  <2> QED
    BY <2>2, <2>3
<1>8. CASE Startup
  BY <1>1, <1>2, <1>3, <1>8 DEF Startup, fsVars, watchVars, boundVars
<1>9. CASE Recv
  <2>1. QueueOk'
    <3> SUFFICES ASSUME errors = 0, NEW i \in 1 .. Len(chan') PROVE chan'[i].ok
      BY <1>9 DEF Recv, boundVars, QueueOk
    <3>1. chan' = Tail(chan) /\ chan \in Seq(Results) /\ chan # <<>>
      BY <1>9 DEF Recv, TypeOK
    <3>2. chan'[i] = chan[i + 1] /\ i + 1 \in 1 .. Len(chan)
      BY <3>1
    <3> QED
      BY <3>2 DEF QueueOk
  <2>2. TodoOnlyInCall'
    BY <1>3, <1>9 DEF Recv
  <2> QED
    BY <2>1, <2>2, <1>2, <1>9 DEF Recv, fsVars
<1>10. CASE Return
  BY <1>1, <1>2, <1>3, <1>10 DEF Return, fsVars, watchVars, boundVars
<1>11. CASE Close \/ Crash
  <2>1. chan' = <<>> /\ todo' = {} /\ UNCHANGED <<exists, content>>
    BY <1>11, Zenon DEF Close, Crash, ProcessEnds, fsVars
  <2>2. QueueOk'
    BY <2>1, EmptySeq DEF QueueOk
  <2> QED
    BY <2>1, <2>2, <1>2, <1>3
<1>12. ASSUME NEW f \in Files, Drain(f) PROVE QueueInv'
  <2>1. UNCHANGED <<exists, content, chan>>
    BY <1>12
    DEF Drain, Stat, StatTo, Open, OpenAt, Read, ReadLines, PollError, StoreFault, NextPath,
        fsVars, watchVars
  <2>2. pc' \notin {"down", "idle"}
    BY <1>12
    DEF Drain, Stat, StatTo, Open, OpenAt, Read, ReadLines, PollError, StoreFault, NextPath
  <2>3. errors' = errors \/ errors' = errors + 1
    BY <1>12 DEF Drain, Stat, Open, Read, PollError, StoreFault, boundVars
  <2>4. errors' = errors \/ errors' # 0
    BY <2>3 DEF TypeOK
  <2>5. QueueOk'
    BY <2>1, <2>4, <1>1
  <2>6. GoneIsEmpty' /\ TodoOnlyInCall'
    BY <2>1, <2>2, <1>2, <1>3
  <2> QED
    BY <2>5, <2>6
<1>13. CASE UNCHANGED vars
  BY <1>1, <1>2, <1>3, <1>13 DEF vars, fsVars, watchVars, drainVars, boundVars
<1> QED
  BY <1>4, <1>5, <1>6, <1>7, <1>8, <1>9, <1>10, <1>11, <1>12, <1>13 DEF Next, World

-----------------------------------------------------------------------------
(* When what was taken (t) is what was taken before (b) and the text (c)   *)
(* up to k, every line that ends at or before k has been taken.            *)
LEMMA TakenUpTo ==
  ASSUME NEW c \in Seq(Byte), NEW b \in Seq(Byte), NEW t, NEW k \in 0 .. Len(c),
         t = b \o SubSeq(c, 1, k),
         \A n \in 1 .. Len(c) : c[n] = NL => n <= k
  PROVE  \A n \in 1 .. Len(c) : c[n] = NL => Len(t) >= Len(b) + n
<1>1. Len(c) \in Nat /\ Len(b) \in Nat
  BY LenProperties
<1>2. 1 \in Nat \ {0} /\ k \in Nat
  BY <1>1
<1>3. /\ SubSeq(c, 1, k) \in Seq(Byte)
      /\ Len(SubSeq(c, 1, k)) = IF 1 <= k THEN k - 1 + 1 ELSE 0
  BY <1>2, PieceType
<1>4. Len(SubSeq(c, 1, k)) = k
  BY <1>2, <1>3
<1>5. Len(t) = Len(b) + k
  <2>1. \A p \in Seq(Byte) : Len(b \o p) = Len(b) + Len(p)
    BY ConcatProperties
  <2> QED
    BY <1>3, <1>4, <2>1
<1> QED
  BY <1>1, <1>2, <1>5

(* Opening a file that has nothing past the offset skips nothing.          *)
LEMMA OpenSkipsNothing ==
  ASSUME TypeOK, EachByteTaken, UnreadInv, errors = 0, NEW f \in Files,
         Open(f), pc' # "read"
  PROVE  CaughtUp(f) \/ Queued(f)
<1>1. pc = "open" /\ IsNext(f) /\ (~exists[f] \/ ClampedStart(f) >= Len(content[f]))
  BY DEF Open, OpenAt
<1>2. cursor[f] \in Nat /\ Len(content[f]) \in Nat
  BY LenProperties DEF TypeOK
<1>3. CASE ~exists[f]
  <2>1. Len(content[f]) = 0
    BY <1>3, EmptySeq DEF UnreadInv, QueueInv, GoneIsEmpty
  <2> QED
    BY <2>1 DEF CaughtUp
<1>4. CASE exists[f] /\ cursor[f] > Len(content[f])
  BY <1>1, <1>4 DEF UnreadInv, ShrunkIsQueued, InHand
<1>5. CASE exists[f] /\ cursor[f] <= Len(content[f])
  <2>1. cursor[f] = Len(content[f]) /\ Consumed(f) = Len(content[f])
    BY <1>1, <1>2, <1>5 DEF ClampedStart, Consumed
  <2>2. content[f] \in Seq(Byte) /\ base[f] \in Seq(Byte)
    BY DEF TypeOK
  <2>3. taken[f] = base[f] \o SubSeq(content[f], 1, Len(content[f]))
    BY <2>1 DEF EachByteTaken
  <2>4. /\ Len(content[f]) \in 0 .. Len(content[f])
        /\ \A n \in 1 .. Len(content[f]) : content[f][n] = NL => n <= Len(content[f])
    BY <1>2
  <2>5. \A n \in 1 .. Len(content[f]) :
          content[f][n] = NL => Len(taken[f]) >= Len(base[f]) + n
    BY <2>2, <2>3, <2>4, TakenUpTo
  <2> QED
    BY <2>5 DEF CaughtUp
<1> QED
  BY <1>1, <1>2, <1>3, <1>4, <1>5

(* Reading a file up to its last newline skips nothing either.             *)
LEMMA ReadSkipsNothing ==
  ASSUME TypeOK, TypeOK', StartInv, EachByteTaken', UnreadInv, errors = 0,
         NEW f \in Files, Read(f)
  PROVE  CaughtUp(f)' \/ Queued(f)
<1>1. Reading(f) /\ content' = content
  BY ReadFacts DEF Read
<1>2. PICK n \in 0 .. Len(BytesFrom(f)) :
        /\ IsConsumable(BytesFrom(f), n)
        /\ cursor'[f] = IF n = 0 \/ ~TRUE THEN cursor[f] ELSE start + n
  BY ReadFacts DEF Read
<1>3. cursor[f] \in Nat /\ Len(content[f]) \in Nat /\ start = cursor[f]
  BY <1>1, LenProperties DEF TypeOK, StartInv, StartIsCursor
<1>4. CASE ~exists[f]
  <2>1. Len(content'[f]) = 0
    BY <1>1, <1>4, EmptySeq DEF UnreadInv, QueueInv, GoneIsEmpty
  <2> QED
    BY <2>1 DEF CaughtUp
<1>5. CASE exists[f] /\ (cursor[f] > Len(content[f]) \/ unlinked)
  BY <1>1, <1>5 DEF UnreadInv, ShrunkIsQueued, InHand, Reading
<1>6. CASE ~unlinked /\ cursor[f] <= Len(content[f])
  <2>0. content[f] \in Seq(Byte)
    BY DEF TypeOK
  <2>1. start + 1 \in Nat \ {0} /\ Len(content[f]) \in 0 .. Len(content[f])
    BY <1>3
  <2>2. BytesFrom(f) = SubSeq(content[f], start + 1, Len(content[f]))
    BY <1>6 DEF BytesFrom
  <2>3. /\ Len(BytesFrom(f)) = IF start + 1 <= Len(content[f])
                               THEN Len(content[f]) - (start + 1) + 1 ELSE 0
        /\ \A i \in 1 .. Len(content[f]) - (start + 1) + 1 :
             BytesFrom(f)[i] = content[f][start + 1 + i - 1]
    BY <2>0, <2>1, <2>2, PieceType
  <2>4. Len(BytesFrom(f)) = Len(content[f]) - start /\ n \in 0 .. Len(content[f]) - start
    BY <1>2, <1>3, <1>6, <2>3
  <2>5. Consumed(f)' = start + n
    BY <1>1, <1>2, <1>3, <1>6, <2>4 DEF Consumed
  <2>6. ASSUME NEW m \in 1 .. Len(content[f]), content[f][m] = NL PROVE m <= start + n
    <3> SUFFICES ASSUME m > start + n PROVE FALSE
      BY <1>3, <2>4
    <3>1. m - start \in n + 1 .. Len(BytesFrom(f))
          /\ m - start \in 1 .. Len(content[f]) - (start + 1) + 1
          /\ start + 1 + (m - start) - 1 = m
      BY <1>3, <2>4
    <3>2. BytesFrom(f)[m - start] = content[f][m]
      BY <2>3, <3>1
    <3> QED
      BY <1>2, <2>6, <3>1, <3>2 DEF IsConsumable
  <2>7. /\ content'[f] \in Seq(Byte) /\ base'[f] \in Seq(Byte)
        /\ start + n \in 0 .. Len(content'[f])
    <3>1. content'[f] \in Seq(Byte) /\ base'[f] \in Seq(Byte)
      BY DEF TypeOK
    <3>2. start + n \in 0 .. Len(content'[f])
      BY <1>1, <1>3, <1>6, <2>4
    <3> QED
      BY <3>1, <3>2
  <2>8. taken'[f] = base'[f] \o SubSeq(content'[f], 1, start + n)
    BY <2>5 DEF EachByteTaken
  <2>9. \A m \in 1 .. Len(content'[f]) : content'[f][m] = NL => m <= start + n
    BY <1>1, <2>6
  <2>10. \A m \in 1 .. Len(content'[f]) :
           content'[f][m] = NL => Len(taken'[f]) >= Len(base'[f]) + m
    BY <2>7, <2>8, <2>9, TakenUpTo
  <2> QED
    BY <2>10 DEF CaughtUp
<1> QED
  BY <1>3, <1>4, <1>5, <1>6

-----------------------------------------------------------------------------
(* Failures are never forgotten.                                           *)
LEMMA ErrorsGrow ==
  ASSUME TypeOK, [Next]_vars, errors' = 0
  PROVE  errors = 0 /\ ~WatchError /\ \A f \in Files : ~PollError(f)
<1>1. errors' = errors \/ errors' = errors + 1
  <2>1. CASE \E f \in Files : Drain(f)
    BY <2>1 DEF Drain, Stat, Open, Read, PollError, StoreFault, boundVars
  <2>2. CASE World
    BY <2>2 DEF World, WriteByte, TruncateFile, RemoveFile, Discard, Debounce, WatchError,
                boundVars
  <2>3. CASE Startup \/ Recv \/ Return \/ Close \/ Crash
    BY <2>3, Zenon DEF Startup, Recv, Return, Close, Crash, boundVars
  <2>4. CASE UNCHANGED vars
    BY <2>4 DEF vars, boundVars
  <2> QED
    BY <2>1, <2>2, <2>3, <2>4 DEF Next
<1>2. errors \in Nat
  BY DEF TypeOK
<1>3. (WatchError \/ \E f \in Files : PollError(f)) => errors' = errors + 1
  BY DEF WatchError, PollError
<1> QED
  BY <1>1, <1>2, <1>3

(* Steps after which the same paths are pending, with the same text.       *)
SamePending ==
  /\ UNCHANGED <<exists, content, cursor, taken, base, pc, todo, unlinked>>
  /\ \A f \in Files : Queued(f) => Queued(f)'

LEMMA SamePendingStep ==
  ASSUME UnreadInv, SamePending, errors = 0
  PROVE  ShrunkIsQueued' /\ UnreadIsPending'
<1>1. \A f \in Files : CaughtUp(f)' = CaughtUp(f) /\ InHand(f)' = InHand(f)
  BY DEF SamePending, CaughtUp, InHand, IsNext
<1>2. ShrunkIsQueued'
  BY <1>1, Zenon DEF SamePending, UnreadInv, ShrunkIsQueued
<1>3. UnreadIsPending'
  BY <1>1 DEF SamePending, UnreadInv, UnreadIsPending
<1> QED
  BY <1>2, <1>3

(* A tool's step: the transcript it touches is queued or left empty.       *)
LEMMA ToolStep ==
  ASSUME TypeOK, TypeOK', UnreadInv, errors = 0, NEW f \in Files,
         (\E b \in Byte : WriteByte(f, b)) \/ TruncateFile(f) \/ RemoveFile(f)
  PROVE  ShrunkIsQueued' /\ UnreadIsPending'
<1>1. /\ UNCHANGED <<pc, todo, cursor, taken, chan>>
      /\ dirty \subseteq dirty'
      /\ \A g \in Files \ {f} : /\ content'[g] = content[g] /\ base'[g] = base[g]
                                /\ exists'[g] = exists[g]
  <2>1. CASE \E b \in Byte : WriteByte(f, b)
    BY <2>1 DEF WriteByte, Noticed, drainVars, TypeOK
  <2>2. CASE TruncateFile(f) \/ RemoveFile(f)
    BY <2>2 DEF TruncateFile, RemoveFile, Discard, Noticed, drainVars, TypeOK
  <2> QED
    BY <2>1, <2>2
<1>2. \A g \in Files : Queued(g) => Queued(g)'
  BY <1>1 DEF Queued
<1>3. \A g \in Files : InHand(g)' = InHand(g)
  BY <1>1 DEF InHand, IsNext
<1>4. pc # "down" => Queued(f)' \/ (content'[f] = <<>> /\ ~exists'[f])
  <2>1. CASE (\E b \in Byte : WriteByte(f, b)) \/ TruncateFile(f)
    BY <2>1 DEF WriteByte, TruncateFile, Noticed, Queued
  <2>2. CASE RemoveFile(f)
    <3>1. content'[f] = <<>>
      BY <2>2, DiscardFacts
    <3>2. ~exists'[f]
      BY <2>2, Zenon DEF RemoveFile, TypeOK
    <3> QED
      BY <3>1, <3>2
  <2> QED
    BY <2>1, <2>2
<1>5. ShrunkIsQueued'
  <2> SUFFICES ASSUME NEW g \in Files, InHand(g)', exists'[g],
                      cursor'[g] > Len(content'[g]) \/ unlinked'
               PROVE  Queued(g)'
    BY DEF ShrunkIsQueued
  <2>1. InHand(g) /\ pc # "down"
    BY <1>3 DEF InHand
  <2>2. CASE g = f
    BY <1>4, <2>1, <2>2
  <2>3. CASE g # f
    <3>1. ~Reading(f)
      BY <2>1, <2>3, OneAtHand DEF InHand, Reading
    <3>2. unlinked' = unlinked
      BY <3>1, WriteFacts, DiscardFacts
    <3> QED
      BY <1>1, <1>2, <2>1, <2>3, <3>2 DEF UnreadInv, ShrunkIsQueued
  <2> QED
    BY <2>2, <2>3
<1>6. UnreadIsPending'
  <2> SUFFICES ASSUME pc # "down", NEW g \in Files
               PROVE  CaughtUp(g)' \/ Queued(g)' \/ g \in todo'
    BY <1>1 DEF UnreadIsPending
  <2>1. CASE g = f
    <3>1. ASSUME content'[f] = <<>> PROVE CaughtUp(f)'
      BY <3>1, EmptySeq DEF CaughtUp
    <3> QED
      BY <1>4, <2>1, <3>1
  <2>2. CASE g # f
    <3>1. CaughtUp(g)' = CaughtUp(g)
      BY <1>1, <2>2 DEF CaughtUp
    <3> QED
      BY <1>1, <1>2, <3>1 DEF UnreadInv, UnreadIsPending
  <2> QED
    BY <2>1, <2>2
<1> QED
  BY <1>5, <1>6

(* The loop takes a result: what was queued in it is now to be drained.    *)
LEMMA RecvStep ==
  ASSUME TypeOK, UnreadInv, errors = 0, Recv
  PROVE  ShrunkIsQueued' /\ UnreadIsPending'
<1>1. /\ pc = "idle" /\ chan # <<>> /\ chan' = Tail(chan) /\ chan \in Seq(Results)
      /\ UNCHANGED <<content, taken, base, dirty>>
  BY DEF Recv, fsVars, TypeOK
<1>2. /\ Len(chan) \in Nat \ {0} /\ Head(chan) = chan[1]
      /\ Len(chan') = Len(chan) - 1
      /\ \A i \in 1 .. Len(chan') : chan'[i] = chan[i + 1]
  BY <1>1, EmptySeq, HeadTailProperties
<1>3. Head(chan).ok
  BY <1>2 DEF UnreadInv, QueueInv, QueueOk
<1>4. pc' = "drain" /\ todo' = Head(chan).paths \cap Files /\ todo = {}
  BY <1>1, <1>3 DEF Recv, UnreadInv, QueueInv, TodoOnlyInCall
<1>5. ShrunkIsQueued'
  BY <1>4 DEF ShrunkIsQueued, InHand
<1>6. ASSUME NEW f \in Files, Queued(f) PROVE Queued(f)' \/ f \in todo'
  <2>1. CASE f \in dirty
    BY <1>1, <2>1 DEF Queued
  <2>2. CASE \E i \in 1 .. Len(chan) : f \in chan[i].paths
    <3>1. PICK i \in 1 .. Len(chan) : f \in chan[i].paths
      BY <2>2
    <3>2. CASE i = 1
      BY <1>2, <1>4, <3>1, <3>2
    <3>3. CASE i # 1
      <4>1. i - 1 \in 1 .. Len(chan') /\ chan'[i - 1] = chan[i]
        BY <1>2, <3>1, <3>3
      <4> QED
        BY <3>1, <4>1 DEF Queued
    <3> QED
      BY <3>2, <3>3
  <2> QED
    BY <1>6, <2>1, <2>2 DEF Queued
<1>7. \A f \in Files : CaughtUp(f)' = CaughtUp(f)
  BY <1>1 DEF CaughtUp
<1>8. UnreadIsPending'
  BY <1>1, <1>4, <1>6, <1>7 DEF UnreadInv, UnreadIsPending
<1> QED
  BY <1>5, <1>8

(* Draining a path: its rotation check settles a stale offset, and it is   *)
(* let go only when it is caught up or queued again.                       *)
LEMMA DrainUnread ==
  ASSUME TypeOK, TypeOK', TakenInv, EachByteTaken', UnreadInv, errors = 0,
         NEW f \in Files, Stat(f) \/ Open(f) \/ Read(f)
  PROVE  ShrunkIsQueued' /\ UnreadIsPending'
<1>1. \A g \in Files : Queued(g)' = Queued(g)
  BY DEF Queued, Stat, StatTo, Open, OpenAt, Read, ReadLines, watchVars
<1>2. pc # "down"
  BY DEF Stat, StatTo, Open, OpenAt, Read, ReadLines, Reading
<1>3. CASE Stat(f)
  <2>1. /\ pc = "drain" /\ pc' = "open" /\ IsNext(f)
        /\ cursor' = [cursor EXCEPT ![f] = RotationReset(f)]
        /\ UNCHANGED <<exists, content, todo, unlinked, taken, base>>
    BY <1>3 DEF Stat, StatTo, fsVars, handleVars
  <2>2. ~unlinked'
    BY <2>1 DEF TakenInv, LineInv, HandleOnlyWhenReading
  <2>3. ASSUME NEW g \in Files, InHand(g)', exists'[g] PROVE cursor'[g] <= Len(content'[g])
    <3>1. g = f
      <4>1. IsNext(g)
        BY <2>1, <2>3 DEF InHand, IsNext
      <4> QED
        BY <2>1, <4>1, OneAtHand
    <3>2. cursor[f] \in Nat /\ Len(content[f]) \in Nat
      BY LenProperties DEF TypeOK
    <3>3. exists[f] /\ cursor'[f] = RotationReset(f)
      BY <2>1, <2>3, <3>1 DEF TypeOK
    <3>4. RotationReset(f) <= Len(content[f])
      BY <3>2, <3>3 DEF RotationReset
    <3> QED
      BY <2>1, <3>1, <3>3, <3>4
  <2>4. \A g \in Files : cursor'[g] \in Nat /\ Len(content'[g]) \in Nat
    BY <2>1, LenProperties DEF TypeOK
  <2>5. ShrunkIsQueued'
    BY <2>2, <2>3, <2>4 DEF ShrunkIsQueued
  <2>6. UnreadIsPending'
    <3>1. \A g \in Files : CaughtUp(g)' = CaughtUp(g)
      BY <2>1 DEF CaughtUp
    <3> QED
      BY <1>1, <1>2, <2>1, <3>1 DEF UnreadInv, UnreadIsPending
  <2> QED
    BY <2>5, <2>6
<1>4. CASE Open(f)
  <2>1. /\ pc = "open" /\ UNCHANGED <<exists, content, cursor, taken, base>>
        /\ \/ pc' = "read" /\ UNCHANGED <<todo, unlinked>>
           \/ pc' = "drain" /\ todo' = todo \ {f}
    BY <1>4 DEF Open, OpenAt, NextPath, fsVars, handleVars
  <2>2. ShrunkIsQueued'
    <3>1. CASE pc' = "read"
      <4>1. \A g \in Files : InHand(g)' = InHand(g)
        BY <2>1, <3>1 DEF InHand, IsNext
      <4> QED
        BY <1>1, <2>1, <3>1, <4>1 DEF UnreadInv, ShrunkIsQueued
    <3>2. CASE pc' = "drain"
      BY <3>2 DEF ShrunkIsQueued, InHand
    <3> QED
      BY <2>1, <3>1, <3>2
  <2>3. \A g \in Files : CaughtUp(g)' = CaughtUp(g)
    BY <2>1 DEF CaughtUp
  <2>4. \A g \in Files : g \in todo => g \in todo' \/ CaughtUp(g) \/ Queued(g)
    BY <1>4, <2>1, OpenSkipsNothing DEF TakenInv
  <2>5. UnreadIsPending'
    BY <1>1, <1>2, <2>3, <2>4 DEF UnreadInv, UnreadIsPending
  <2> QED
    BY <2>2, <2>5
<1>5. CASE Read(f)
  <2>1. /\ pc' = "drain" /\ todo' = todo \ {f} /\ content' = content
        /\ \A g \in Files \ {f} : taken'[g] = taken[g] /\ base'[g] = base[g]
    BY <1>5, ReadFacts DEF Read, ReadLines, NextPath
  <2>2. ShrunkIsQueued'
    BY <2>1 DEF ShrunkIsQueued, InHand
  <2>3. \A g \in Files \ {f} : CaughtUp(g)' = CaughtUp(g)
    BY <2>1 DEF CaughtUp
  <2>4. CaughtUp(f)' \/ Queued(f)
    BY <1>5, ReadSkipsNothing DEF TakenInv
  <2>5. UnreadIsPending'
    BY <1>1, <1>2, <2>1, <2>3, <2>4 DEF UnreadInv, UnreadIsPending
  <2> QED
    BY <2>2, <2>5
<1> QED
  BY <1>3, <1>4, <1>5

LEMMA UnreadStep ==
  ASSUME faults' = 0, TypeOK, TypeOK', TakenInv, TakenInv', UnreadInv, [Next]_vars
  PROVE  UnreadInv'
<1>1. QueueInv'
  BY BookStep DEF UnreadInv
<1>2. ASSUME errors' # 0 PROVE ShrunkIsQueued' /\ UnreadIsPending'
  BY <1>2 DEF ShrunkIsQueued, UnreadIsPending
<1>3. ASSUME errors' = 0 PROVE ShrunkIsQueued' /\ UnreadIsPending'
  <2>1. errors = 0 /\ ~WatchError /\ \A f \in Files : ~PollError(f)
    BY <1>3, ErrorsGrow
  <2>2. CASE \E f \in Files : \/ \E b \in Byte : WriteByte(f, b)
                              \/ TruncateFile(f) \/ RemoveFile(f)
    BY <2>1, <2>2, ToolStep
  <2>3. CASE Debounce
    <3>1. SamePending
      BY <2>3, DebounceKeepsQueued
      DEF Debounce, SamePending, fsVars, drainVars, handleVars
    <3> QED
      BY <2>1, <3>1, SamePendingStep
  <2>4. CASE Startup
    BY <2>4 DEF Startup, ShrunkIsQueued, UnreadIsPending, InHand
  <2>5. CASE Recv
    BY <2>1, <2>5, RecvStep
  <2>6. CASE Return
    <3>1. /\ pc = "drain" /\ pc' = "idle"
          /\ UNCHANGED <<content, taken, base, dirty, chan, todo>>
      BY <2>6 DEF Return, fsVars, watchVars
    <3>2. ShrunkIsQueued'
      BY <3>1 DEF ShrunkIsQueued, InHand
    <3>3. UnreadIsPending'
      BY <2>1, <3>1 DEF UnreadInv, UnreadIsPending, CaughtUp, Queued
    <3> QED
      BY <3>2, <3>3
  <2>7. CASE Close \/ Crash
    <3>1. pc' = "down"
      BY <2>7, Zenon DEF Close, Crash, ProcessEnds
    <3> QED
      BY <3>1 DEF ShrunkIsQueued, UnreadIsPending, InHand
  <2>8. CASE \E f \in Files : Drain(f)
    BY <2>1, <2>8, DrainUnread, NoStoreFault DEF Drain, TakenInv
  <2>9. CASE UNCHANGED vars
    <3>1. SamePending
      BY <2>9
      DEF vars, fsVars, watchVars, drainVars, handleVars, SamePending, Queued
    <3> QED
      BY <2>1, <3>1, SamePendingStep
  <2> QED
    BY <2>1, <2>2, <2>3, <2>4, <2>5, <2>6, <2>7, <2>8, <2>9 DEF Next, World
<1> QED
  BY <1>1, <1>2, <1>3 DEF UnreadInv

(* With tools that rewrite politely, and no failed store call, open, read  *)
(* or watch so far, a tailer that is idle with no event pending has taken  *)
(* every complete line of every transcript.                                *)
THEOREM IdleIsCaughtUp ==
  ASSUME PoliteRewrite PROVE Spec => []IdleMeansCaughtUp
<1> DEFINE Taken  == faults = 0 => TakenInv
           Unread == faults = 0 => UnreadInv
<1>1. TypeOK /\ TypeOK' /\ [Next]_vars /\ Taken /\ Taken' /\ Unread => Unread'
  <2> SUFFICES ASSUME TypeOK, TypeOK', [Next]_vars, faults' = 0, Taken, Taken', Unread
               PROVE  UnreadInv'
    OBVIOUS
  <2>1. faults = 0
    BY FaultsGrow
  <2>2. TakenInv /\ TakenInv' /\ UnreadInv
    BY <2>1
  <2> QED
    BY <2>2, UnreadStep
<1>2. Unread => IdleMeansCaughtUp
  <2> SUFFICES ASSUME UnreadInv, pc = "idle", dirty = {}, chan = <<>>, errors = 0,
                      NEW f \in Files
               PROVE  CaughtUp(f)
    BY DEF IdleMeansCaughtUp, CaughtUp
  <2>1. ~Queued(f)
    BY EmptySeq DEF Queued
  <2>2. f \notin todo
    BY DEF UnreadInv, QueueInv, TodoOnlyInCall
  <2> QED
    BY <2>1, <2>2 DEF UnreadInv, UnreadIsPending
<1> QED
  BY <1>1, <1>2, InitUnreadInv, TypeCorrect, TakenInvariant, PTL DEF Spec
-----------------------------------------------------------------------------
(* The tailer as a line feed: short of rotations, crashes and failures of  *)
(* the offset store, what was handed over and what is in the batch is the  *)
(* text up to the offset, and the offset ends a line.                      *)
FedUpTo(f) ==
  /\ cursor[f] <= Len(content[f])
  /\ cursor[f] > 0 => content[f][cursor[f]] = NL
  /\ delivered[f] \o out[f] = SubSeq(content[f], 1, cursor[f])

FeedInv ==
  /\ crashes = 0 /\ faults = 0 /\ ~unlinked
  /\ \A f \in Files : gen[f] = 0 /\ FedUpTo(f)

LEMMA SamePrefix ==
  ASSUME NEW s \in Seq(Byte), NEW t \in Seq(Byte), NEW k \in Nat, k <= Len(s), k <= Len(t),
         \A i \in 1 .. k : s[i] = t[i]
  PROVE  SubSeq(s, 1, k) = SubSeq(t, 1, k)
<1>1. ASSUME NEW u \in Seq(Byte), k <= Len(u)
      PROVE  /\ SubSeq(u, 1, k) \in Seq(Byte) /\ Len(SubSeq(u, 1, k)) = k
             /\ \A i \in 1 .. k : SubSeq(u, 1, k)[i] = u[i]
  <2>1. 1 \in Nat \ {0} /\ k \in 0 .. Len(u)
    BY <1>1, LenProperties
  <2>2. /\ SubSeq(u, 1, k) \in Seq(Byte)
        /\ Len(SubSeq(u, 1, k)) = IF 1 <= k THEN k - 1 + 1 ELSE 0
        /\ \A i \in 1 .. k - 1 + 1 : SubSeq(u, 1, k)[i] = u[1 + i - 1]
    BY <2>1, PieceType
  <2> QED
    BY <2>2
<1>2. \A i \in 1 .. k : SubSeq(s, 1, k)[i] = SubSeq(t, 1, k)[i]
  BY <1>1
<1> QED
  BY <1>1, <1>2, SeqEqual

(* A read takes the lines that follow the offset.                          *)
LEMMA ReadFeeds ==
  ASSUME TypeOK, StartIsCursor, FeedInv, NEW f \in Files, ReadLines(f, TRUE)
  PROVE  FedUpTo(f)'
<1>1. /\ FedUpTo(f) /\ ~unlinked /\ Reading(f) /\ start = cursor[f] /\ content' = content
      /\ delivered' = delivered
  BY DEF FeedInv, ReadLines, StartIsCursor, fsVars
<1>2. /\ content[f] \in Seq(Byte) /\ Len(content[f]) \in Nat /\ start \in Nat
      /\ out[f] \in Seq(Byte) /\ delivered[f] \in Seq(Byte)
      /\ BytesFrom(f) \in Seq(Byte) /\ Len(BytesFrom(f)) \in Nat
  BY BytesFromType, LenProperties DEF TypeOK
<1>3. PICK n \in 0 .. Len(BytesFrom(f)) :
        /\ IsConsumable(BytesFrom(f), n)
        /\ out' = [out EXCEPT ![f] = @ \o SubSeq(BytesFrom(f), 1, n)]
        /\ cursor' = [cursor EXCEPT ![f] = IF n = 0 \/ ~TRUE THEN @ ELSE start + n]
  BY DEF ReadLines
<1> DEFINE piece == SubSeq(BytesFrom(f), 1, n)
<1>4. /\ out'[f] = out[f] \o piece
      /\ cursor'[f] = IF n = 0 THEN cursor[f] ELSE start + n
  <2>1. out'[f] = out[f] \o piece
    BY <1>3, Zenon DEF TypeOK
  <2> QED
    BY <1>3, <2>1 DEF TypeOK
<1>5. piece \in Seq(Byte)
  BY <1>2, PieceType
<1>6. CASE n = 0
  <2>1. piece = <<>>
    BY <1>6, SubSeqEmpty
  <2>2. out'[f] = out[f] /\ cursor'[f] = cursor[f]
    BY <1>2, <1>4, <1>6, <2>1, ConcatEmptySeq
  <2> QED
    BY <1>1, <2>2 DEF FedUpTo
<1>7. CASE n # 0
  <2>1. n \in 1 .. Len(BytesFrom(f)) /\ n \in Nat
    BY <1>2, <1>3, <1>7
  <2>2. /\ start + n \in Nat /\ start + n <= Len(content[f])
        /\ content[f][start + n] = BytesFrom(f)[n]
        /\ piece = SubSeq(content[f], start + 1, start + n)
    BY <1>1, <2>1, ReadIsOfFile
  <2>3. content[f][start + n] = NL
    BY <1>3, <2>1, <2>2 DEF IsConsumable
  <2>4. SubSeq(content[f], 1, start) \o piece = SubSeq(content[f], 1, start + n)
    <3>1. 1 \in 1 .. Len(content[f]) + 1 /\ start \in 1 - 1 .. Len(content[f])
          /\ start + n \in start .. Len(content[f])
      <4> DEFINE len == Len(content[f])
      <4>1. len \in Nat /\ start \in Nat /\ n \in Nat
        BY <1>2, <2>1 DEF TypeOK
      <4>2. start + n <= len
        BY <2>2
      <4> HIDE DEF len
      <4>3. 1 \in 1 .. len + 1 /\ start \in 1 - 1 .. len /\ start + n \in start .. len
        BY <4>1, <4>2
      <4> QED BY <4>3 DEF len
    <3>2. SubSeq(content[f], 1, start) \o SubSeq(content[f], start + 1, start + n)
            = SubSeq(content[f], 1, start + n)
      BY <1>2, <3>1, ConcatAdjacentSubSeq
    <3> QED
      BY <2>2, <3>2
  <2>5. delivered'[f] \o out'[f] = (delivered[f] \o out[f]) \o piece
    <3>1. (delivered[f] \o out[f]) \o piece = delivered[f] \o (out[f] \o piece)
      <4> DEFINE d == delivered[f]
                 o == out[f]
      <4>1. d \in Seq(Byte) /\ o \in Seq(Byte)
        BY <1>2
      <4> HIDE DEF piece, d, o
      <4>2. (d \o o) \o piece = d \o (o \o piece)
        BY <4>1, <1>5, ConcatAssociative
      <4> QED
        BY <4>2 DEF d, o
    <3> QED
      BY <1>1, <1>4, <3>1
  <2>6. cursor'[f] = start + n
    BY <1>4, <1>7
  <2>7. delivered'[f] \o out'[f] = SubSeq(content[f], 1, cursor'[f])
    BY <1>1, <2>4, <2>5, <2>6 DEF FedUpTo
  <2> QED
    BY <1>1, <2>2, <2>3, <2>6, <2>7 DEF FedUpTo
<1> QED
  BY <1>6, <1>7

(* Returning from a call hands over one batch of the line feed.            *)
LEMMA ReturnFeeds ==
  ASSUME TypeOK, FeedInv, Return
  PROVE  Feed!Feed /\ FeedInv'
<1>1. /\ delivered' = [f \in Files |-> delivered[f] \o out[f]]
      /\ out' = [f \in Files |-> <<>>]
      /\ UNCHANGED <<content, gen, cursor, unlinked, crashes, faults>>
  BY Zenon DEF Return, fsVars, handleVars, boundVars
<1>2. ASSUME NEW f \in Files
      PROVE  /\ Len(delivered[f]) <= cursor[f] /\ cursor[f] \in Nat
             /\ cursor[f] \in 0 .. Len(content[f])
             /\ delivered'[f] = SubSeq(content[f], 1, cursor[f])
             /\ delivered'[f] \o out'[f] = SubSeq(content[f], 1, cursor[f])
  <2>1. /\ content[f] \in Seq(Byte) /\ out[f] \in Seq(Byte) /\ delivered[f] \in Seq(Byte)
        /\ Len(content[f]) \in Nat /\ Len(out[f]) \in Nat /\ Len(delivered[f]) \in Nat
        /\ cursor[f] \in Nat /\ cursor[f] \in 0 .. Len(content[f])
    BY LenProperties DEF TypeOK, FeedInv, FedUpTo
  <2> DEFINE t == SubSeq(content[f], 1, cursor[f])
  <2>2. t \in Seq(Byte) /\ Len(t) = cursor[f]
    <3>1. 1 \in Nat \ {0}
      OBVIOUS
    <3>2. t \in Seq(Byte) /\ Len(t) = IF 1 <= cursor[f] THEN cursor[f] - 1 + 1 ELSE 0
      BY <2>1, <3>1, PieceType
    <3> QED
      BY <2>1, <3>2
  <2>3. delivered[f] \o out[f] = t
    BY DEF FeedInv, FedUpTo
  <2> HIDE DEF t
  <2>4. Len(delivered[f]) + Len(out[f]) = cursor[f]
    BY <2>1, <2>2, <2>3, ConcatProperties
  <2>5. delivered'[f] = t /\ out'[f] = <<>>
    BY <1>1, <2>3
  <2>6. t \o <<>> = t
    BY <2>2, ConcatEmptySeq
  <2>7. Len(delivered[f]) <= cursor[f]
    <3> DEFINE m == Len(delivered[f])
               n == Len(out[f])
               c == cursor[f]
    <3>1. m \in Nat /\ n \in Nat /\ c \in Nat /\ m + n = c
      BY <2>1, <2>4
    <3> HIDE DEF m, n, c
    <3>2. m <= c
      BY <3>1
    <3> QED
      BY <3>2 DEF m, n, c
  <2>8. delivered'[f] \o out'[f] = t
    BY <2>5, <2>6
  <2>9. t = SubSeq(content[f], 1, cursor[f])
    BY DEF t
  <2> QED
    BY <2>1, <2>5, <2>7, <2>8, <2>9
<1>3. FeedInv'
  BY <1>1, <1>2 DEF FeedInv, FedUpTo
<1>4. cursor \in [Files -> UNION {0 .. Len(content[f]) : f \in Files}]
  <2>1. cursor = [f \in Files |-> cursor[f]]
    BY DEF TypeOK
  <2>2. ASSUME NEW f \in Files PROVE cursor[f] \in UNION {0 .. Len(content[g]) : g \in Files}
    BY <1>2, Zenon
  <2> QED
    BY <2>1, <2>2, Zenon
<1>5. \A f \in Files : /\ Len(delivered[f]) <= cursor[f] /\ cursor[f] <= Len(content[f])
                       /\ Feed!LineEnd(content[f], cursor[f])
  BY <1>2 DEF FeedInv, FedUpTo, Feed!LineEnd
<1>6. delivered' = [f \in Files |-> Feed!Prefix(content[f], cursor[f])]
  BY <1>1, <1>2 DEF Feed!Prefix
<1> QED
  BY <1>1, <1>3, <1>4, <1>5, <1>6 DEF Feed!Feed

LEMMA WriteFeeds ==
  ASSUME TypeOK, TypeOK', FeedInv, NEW f \in Files, NEW b \in Byte, WriteByte(f, b)
  PROVE  Feed!Write(f, b) /\ FeedInv'
<1>1. /\ content' = [content EXCEPT ![f] = Append(@, b)]
      /\ UNCHANGED <<gen, cursor, out, delivered, unlinked, crashes, faults>>
  BY Zenon DEF WriteByte, drainVars, handleVars, boundVars
<1>2. ASSUME NEW g \in Files PROVE FedUpTo(g)'
  <2>1. FedUpTo(g)
    BY DEF FeedInv
  <2>2. CASE g # f
    <3>1. content'[g] = content[g]
      BY <1>1, <2>2 DEF TypeOK
    <3> QED
      BY <1>1, <2>1, <3>1 DEF FedUpTo
  <2>3. CASE g = f
    <3> DEFINE k == cursor[f]
    <3>1. /\ content[f] \in Seq(Byte) /\ content'[f] \in Seq(Byte)
          /\ k \in Nat /\ k <= Len(content[f]) /\ Len(content[f]) \in Nat
          /\ Len(content'[f]) = Len(content[f]) + 1
          /\ \A i \in 1 .. Len(content[f]) : content'[f][i] = content[f][i]
      BY <2>1, <2>3, WriteFacts, LenProperties DEF TypeOK, FedUpTo
    <3> HIDE DEF k
    <3>2. k <= Len(content'[f]) /\ \A i \in 1 .. k : content[f][i] = content'[f][i]
      BY <3>1
    <3>3. SubSeq(content[f], 1, k) = SubSeq(content'[f], 1, k)
      BY <3>1, <3>2, SamePrefix
    <3>4. k > 0 => content'[f][k] = content[f][k]
      BY <3>1
    <3>5. cursor'[f] = k /\ delivered'[f] \o out'[f] = SubSeq(content'[f], 1, k)
      BY <1>1, <2>1, <2>3, <3>3 DEF FedUpTo, k
    <3> QED
      BY <2>1, <2>3, <3>2, <3>4, <3>5 DEF FedUpTo, k
  <2> QED
    BY <2>2, <2>3
<1>3. FeedInv'
  BY <1>1, <1>2 DEF FeedInv
<1> QED
  BY <1>1, <1>3 DEF Feed!Write

(* Every other step is invisible to the caller.                            *)
LEMMA FeedStep ==
  ASSUME MaxGen = 0, MaxCrashes = 0, MaxStoreFaults = 0,
         TypeOK, TypeOK', NoBatchBetweenCalls, StartIsCursor, FeedInv, [Next]_vars
  PROVE  FeedInv' /\ [Feed!Next]_<<content, delivered>>
<1> DEFINE Goal == FeedInv' /\ [Feed!Next]_<<content, delivered>>
<1>1. ASSUME UNCHANGED <<content, gen, cursor, out, delivered, crashes, faults>>, ~unlinked'
      PROVE  Goal
  BY <1>1 DEF FeedInv, FedUpTo
<1>2. ASSUME NEW f \in Files, NEW b \in Byte, WriteByte(f, b) PROVE Goal
  BY <1>2, WriteFeeds DEF Feed!Next
<1>3. ASSUME NEW f \in Files PROVE ~TruncateFile(f) /\ ~RemoveFile(f)
  <2>1. gen[f] = 0
    BY DEF FeedInv
  <2> QED
    BY <2>1 DEF TruncateFile, RemoveFile, Discard
<1>4. ASSUME NEW f \in Files PROVE ~StoreFault(f)
  BY DEF StoreFault, FeedInv
<1>5. ~Crash
  BY DEF Crash, FeedInv
<1>6. CASE Debounce \/ WatchError \/ Startup \/ Recv \/ UNCHANGED vars
  <2>1. UNCHANGED <<content, gen, cursor, out, delivered, crashes, faults, unlinked>>
    BY <1>6 DEF Debounce, WatchError, Startup, Recv, vars, fsVars, drainVars, handleVars,
                boundVars
  <2> QED
    BY <1>1, <2>1 DEF FeedInv
<1>7. CASE Return
  BY <1>7, ReturnFeeds DEF Feed!Next
<1>8. CASE Close
  <2>1. UNCHANGED <<content, gen, cursor, out, delivered, crashes, faults>> /\ ~unlinked'
    BY <1>8, Zenon DEF Close, ProcessEnds, NoBatchBetweenCalls, fsVars, boundVars
  <2> QED
    BY <1>1, <2>1
<1>9. ASSUME NEW f \in Files, Stat(f) PROVE Goal
  <2>1. /\ cursor' = [cursor EXCEPT ![f] = RotationReset(f)]
        /\ UNCHANGED <<content, gen, out, delivered, crashes, faults, unlinked>>
    BY <1>9, Zenon DEF Stat, StatTo, fsVars, handleVars, boundVars
  <2>2. RotationReset(f) = cursor[f]
    <3>1. cursor[f] \in Nat /\ Len(content[f]) \in Nat
      BY LenProperties DEF TypeOK
    <3>2. cursor[f] <= Len(content[f])
      BY DEF FeedInv, FedUpTo
    <3>3. ~(cursor[f] > Len(content[f]))
      BY <3>1, <3>2
    <3> QED
      BY <3>3 DEF RotationReset
  <2>3. cursor' = cursor
    BY <2>1, <2>2 DEF TypeOK
  <2> QED
    BY <1>1, <2>1, <2>3 DEF FeedInv
<1>10. ASSUME NEW f \in Files, Open(f) \/ PollError(f) PROVE Goal
  <2>1. UNCHANGED <<content, gen, cursor, out, delivered, crashes, faults>> /\ ~unlinked'
    BY <1>10 DEF Open, OpenAt, PollError, NextPath, FeedInv, fsVars, handleVars, boundVars
  <2> QED
    BY <1>1, <2>1
<1>11. ASSUME NEW f \in Files, Read(f) PROVE Goal
  <2>1. ReadLines(f, TRUE)
    BY <1>11 DEF Read
  <2>2. UNCHANGED <<content, gen, delivered, crashes, faults>> /\ ~unlinked'
    BY <1>11, Zenon DEF Read, ReadLines, NextPath, fsVars, boundVars
  <2>3. ASSUME NEW g \in Files \ {f} PROVE FedUpTo(g)'
    <3>1. PICK n \in 0 .. Len(BytesFrom(f)) :
            /\ out' = [out EXCEPT ![f] = @ \o SubSeq(BytesFrom(f), 1, n)]
            /\ cursor' = [cursor EXCEPT ![f] = IF n = 0 \/ ~TRUE THEN @ ELSE start + n]
      BY <2>1 DEF ReadLines
    <3>2. out'[g] = out[g] /\ cursor'[g] = cursor[g]
      BY <3>1, Zenon DEF TypeOK
    <3> QED
      BY <2>2, <3>2 DEF FeedInv, FedUpTo
  <2> QED
    BY <2>1, <2>2, <2>3, ReadFeeds DEF FeedInv
<1> QED
  BY <1>2, <1>3, <1>4, <1>5, <1>6, <1>7, <1>8, <1>9, <1>10, <1>11 DEF Next, World, Drain

LEMMA InitFeeds == Init => FeedInv /\ Feed!Init
<1> SUFFICES ASSUME Init PROVE FeedInv /\ Feed!Init
  OBVIOUS
<1>1. /\ crashes = 0 /\ faults = 0 /\ ~unlinked
      /\ content = [f \in Files |-> <<>>] /\ delivered = [f \in Files |-> <<>>]
      /\ out = [f \in Files |-> <<>>]
      /\ \A f \in Files : gen[f] = 0 /\ cursor[f] = 0
  BY DEF Init
<1>2. ASSUME NEW f \in Files PROVE FedUpTo(f)
  <2>1. delivered[f] = <<>> /\ out[f] = <<>> /\ content[f] = <<>> /\ cursor[f] = 0
    BY <1>1
  <2>2. <<>> \o <<>> = <<>> /\ SubSeq(content[f], 1, 0) = <<>> /\ Len(<<>>) = 0
    BY EmptySeq, ConcatEmptySeq, SubSeqEmpty
  <2> QED
    BY <2>1, <2>2 DEF FedUpTo
<1> QED
  BY <1>1, <1>2 DEF FeedInv, Feed!Init

(* Short of rotations, crashes and a failing offset store, the tailer does *)
(* what LineFeed says: each call hands over, of every file, exactly the    *)
(* text from where the last one stopped up to the end of a complete line,  *)
(* whatever the tools write in between and whichever reads and watch       *)
(* events fail.                                                            *)
THEOREM TailerFeedsLines ==
  ASSUME MaxGen = 0, MaxCrashes = 0, MaxStoreFaults = 0
  PROVE  Spec => Feed!Safety
<1>1. Init => FeedInv /\ Feed!Init
  BY InitFeeds
<1>2. TypeOK /\ TypeOK' /\ NoBatchBetweenCalls /\ (faults = 0 => StartInv) /\ FeedInv
      /\ [Next]_vars => FeedInv' /\ [Feed!Next]_<<content, delivered>>
  BY FeedStep DEF StartInv, FeedInv
<1>3. TypeOK /\ TypeOK' /\ (faults = 0 => StartInv) /\ [Next]_vars
        => (faults = 0 => StartInv)'
  BY StartInvStep, FaultsGrow
<1> QED
  BY <1>1, <1>2, <1>3, InitStartInv, TypeCorrect, BatchOnlyInCalls, PTL
  DEF Spec, Feed!Safety, Feed!feedVars
-----------------------------------------------------------------------------
(* The daemon.                                                             *)

Node == [file : Files, offset : Nat]

(* The daemon is in the loop exactly while its tailer is up, waits and     *)
(* emits only between two calls of the tailer, and holds nodes of a batch  *)
(* only while it emits that batch.                                         *)
CtrlInv ==
  /\ turn \in {"off", "tail", "wait", "emit"}
  /\ turn = "off" <=> pc = "down"
  /\ turn \in {"wait", "emit"} => pc = "idle"
  /\ turn # "emit" => pending = {} /\ buffer = <<>>
  /\ sink = "sqlite" => buffer = <<>>

LEMMA InitCtrlInv == DaemonInit => CtrlInv
BY DEF DaemonInit, Init, CtrlInv

(* What a drain of one file leaves alone and where it leads.               *)
LEMMA DrainPhase ==
  ASSUME NEW f \in Files, Drain(f)
  PROVE  pc \in {"drain", "open", "read"} /\ pc' \in {"drain", "open", "read"}
BY DEF Drain, Stat, StatTo, Open, OpenAt, Read, ReadLines, PollError, StoreFault, NextPath,
       Reading

LEMMA WorldPhase == ASSUME World PROVE pc' = pc
BY DEF World, WriteByte, TruncateFile, RemoveFile, Discard, Debounce, WatchError, drainVars

LEMMA ConcatEmpty == ASSUME NEW S, NEW s \in Seq(S) PROVE s \o <<>> = s
BY ConcatEmptySeq

LEMMA CtrlInvStep == CtrlInv /\ [DaemonNext]_allVars => CtrlInv'
<1> SUFFICES ASSUME CtrlInv, [DaemonNext]_allVars PROVE CtrlInv'
  OBVIOUS
<1>1. CASE DaemonStart
  BY <1>1 DEF DaemonStart, Startup, CtrlInv
<1>2. CASE DrainStep \/ WorldStep
  <2>1. UNCHANGED <<sink, turn, pending, buffer>>
    BY <1>2 DEF DrainStep, WorldStep, daemonVars
  <2>2. \/ pc' = pc
        \/ turn = "tail" /\ pc' # "down"
    BY <1>2, DrainPhase, WorldPhase DEF DrainStep, WorldStep
  <2> QED
    BY <2>1, <2>2 DEF CtrlInv
<1>3. CASE WaitForBatch \/ PollTimeout \/ CtrlC
  BY <1>3 DEF WaitForBatch, PollTimeout, CtrlC, vars, drainVars, CtrlInv
<1>4. CASE PollBatch
  BY <1>4 DEF PollBatch, Recv, CtrlInv
<1>5. CASE TakeBatch
  BY <1>5 DEF TakeBatch, Return, CtrlInv
<1>6. CASE EmitNode
  BY <1>6 DEF EmitNode, vars, drainVars, CtrlInv
<1>7. CASE Spill \/ FlushSink
  BY <1>7 DEF Spill, FlushSink, WriteOut, vars, drainVars, CtrlInv
<1>8. CASE SinkError \/ CleanExit \/ DaemonCrash
  BY <1>8 DEF SinkError, CleanExit, DaemonCrash, DaemonEnds, Close, Crash, ProcessEnds,
              WriteOut, CtrlInv
<1>9. CASE UNCHANGED allVars
  BY <1>9 DEF allVars, daemonVars, vars, drainVars, CtrlInv
<1> QED
  BY <1>1, <1>2, <1>3, <1>4, <1>5, <1>6, <1>7, <1>8, <1>9 DEF DaemonNext

LEMMA DaemonControl == DaemonSpec => []CtrlInv
BY InitCtrlInv, CtrlInvStep, PTL DEF DaemonSpec

(* Every step of the daemon is a step of its tailer or leaves it alone.    *)
LEMMA DaemonStepIsTailers == CtrlInv /\ [DaemonNext]_allVars => [Next]_vars
<1> SUFFICES ASSUME CtrlInv, [DaemonNext]_allVars PROVE [Next]_vars
  OBVIOUS
<1>1. CASE DaemonStart
  BY <1>1, Zenon DEF DaemonStart, Next
<1>2. CASE DrainStep \/ WorldStep
  BY <1>2, Zenon DEF DrainStep, WorldStep, Next
<1>3. CASE WaitForBatch \/ PollTimeout \/ CtrlC \/ EmitNode \/ Spill \/ FlushSink
  BY <1>3, Zenon DEF WaitForBatch, PollTimeout, CtrlC, EmitNode, Spill, FlushSink
<1>4. CASE PollBatch \/ TakeBatch
  BY <1>4, Zenon DEF PollBatch, TakeBatch, Next
<1>5. CASE SinkError \/ CleanExit \/ DaemonCrash
  BY <1>5, Zenon DEF SinkError, CleanExit, DaemonCrash, Next
<1>6. CASE UNCHANGED allVars
  BY <1>6, Zenon DEF allVars
<1> QED
  BY <1>1, <1>2, <1>3, <1>4, <1>5, <1>6 DEF DaemonNext

(* The daemon's loop uses its tailer as LiveTailer allows: whatever is     *)
(* proved of the Tailer holds of the tailer inside the daemon.             *)
THEOREM DaemonImplementsTailer == DaemonSpec => Spec
<1>1. DaemonInit => Init
  BY DEF DaemonInit
<1> QED
  BY <1>1, DaemonControl, DaemonStepIsTailers, PTL DEF DaemonSpec, Spec
-----------------------------------------------------------------------------
(* The batch. A path still to be drained in this call has nothing in the   *)
(* batch yet, a file read through a stale handle has rotated, and what the *)
(* batch, the loop and the sink hold are nodes.                            *)
NotYetRead == \A f \in todo : out[f] = <<>>

HeldIsRotated == \A f \in Files : Reading(f) /\ unlinked => gen[f] > 0

NodesType ==
  /\ from \in [Files -> Nat]
  /\ pending \subseteq Node /\ buffer \in Seq(Node) /\ stored \in Seq(Node)

ReadInv ==
  /\ TypeOK /\ HandleOnlyWhenReading /\ NoBatchBetweenCalls
  /\ NotYetRead /\ HeldIsRotated

(* What a read does to the batch.                                          *)
LEMMA ReadBatch ==
  ASSUME TypeOK, NEW f \in Files, NEW advance \in BOOLEAN, ReadLines(f, advance)
  PROVE  /\ IsNext(f) /\ todo' = todo \ {f}
         /\ \A g \in Files \ {f} : out'[g] = out[g] /\ cursor'[g] = cursor[g]
         /\ \E n \in 0 .. Len(BytesFrom(f)) :
              /\ out'[f] = out[f] \o SubSeq(BytesFrom(f), 1, n)
              /\ cursor'[f] = IF n = 0 \/ ~advance THEN cursor[f] ELSE start + n
<1>1. IsNext(f) /\ todo' = todo \ {f}
  BY DEF ReadLines, Reading, NextPath
<1>2. PICK n \in 0 .. Len(BytesFrom(f)) :
        /\ out'    = [out EXCEPT ![f] = @ \o SubSeq(BytesFrom(f), 1, n)]
        /\ cursor' = [cursor EXCEPT ![f] = IF n = 0 \/ ~advance THEN @ ELSE start + n]
  BY DEF ReadLines
<1>3. cursor'[f] = IF n = 0 \/ ~advance THEN cursor[f] ELSE start + n
  BY <1>2 DEF TypeOK
<1>4. /\ out'[f] = out[f] \o SubSeq(BytesFrom(f), 1, n)
      /\ \A g \in Files \ {f} : out'[g] = out[g] /\ cursor'[g] = cursor[g]
  BY <1>2, Zenon DEF TypeOK
<1> QED
  BY <1>1, <1>2, <1>3, <1>4

LEMMA ReadInvStep ==
  ASSUME ReadInv, [Next]_vars
  PROVE  HandleOnlyWhenReading' /\ NotYetRead' /\ HeldIsRotated'
<1> USE DEF ReadInv
<1>1. ASSUME NEW f \in Files, NEW b \in Byte, WriteByte(f, b)
      PROVE  HandleOnlyWhenReading' /\ NotYetRead' /\ HeldIsRotated'
  <2>1. UNCHANGED <<pc, todo, out, unlinked, gen>>
    BY <1>1, Zenon DEF WriteByte, drainVars, handleVars
  <2> QED
    BY <2>1 DEF HandleOnlyWhenReading, NotYetRead, HeldIsRotated, Reading, IsNext
<1>2. ASSUME NEW f \in Files, TruncateFile(f) \/ RemoveFile(f)
      PROVE  HandleOnlyWhenReading' /\ NotYetRead' /\ HeldIsRotated'
  <2>1. /\ UNCHANGED <<pc, todo, out>>
        /\ gen' = [gen EXCEPT ![f] = @ + 1]
    BY <1>2, Zenon DEF TruncateFile, RemoveFile, Discard, drainVars
  <2>2. \/ UNCHANGED unlinked
        \/ Reading(f) /\ unlinked'
    BY <1>2, DiscardFacts
  <2>3. \A g \in Files : Reading(g)' = Reading(g)
    BY <2>1 DEF Reading, IsNext
  <2>4. HandleOnlyWhenReading' /\ NotYetRead'
    BY <2>1, <2>2 DEF HandleOnlyWhenReading, NotYetRead, Reading
  <2>5. gen \in [Files -> Nat] /\ gen'[f] > 0
    BY <2>1 DEF TypeOK
  <2>6. ASSUME NEW g \in Files, Reading(g), unlinked' PROVE gen'[g] > 0
    <3>1. CASE g = f
      BY <2>5, <3>1
    <3>2. CASE g # f
      <4>1. ~Reading(f)
        BY <2>6, <3>2, OneAtHand DEF Reading
      <4> QED
        BY <2>1, <2>2, <2>5, <2>6, <3>2, <4>1 DEF HeldIsRotated
    <3> QED
      BY <3>1, <3>2
  <2> QED
    BY <2>3, <2>4, <2>6 DEF HeldIsRotated
<1>3. ASSUME UNCHANGED <<pc, todo, out, unlinked, gen>>
      PROVE  HandleOnlyWhenReading' /\ NotYetRead' /\ HeldIsRotated'
  BY <1>3 DEF HandleOnlyWhenReading, NotYetRead, HeldIsRotated, Reading, IsNext
<1>4. CASE Debounce \/ WatchError \/ UNCHANGED vars
  BY <1>3, <1>4, Zenon DEF Debounce, WatchError, vars, fsVars, drainVars, handleVars
<1>5. ASSUME ~unlinked', NotYetRead'
      PROVE  HandleOnlyWhenReading' /\ NotYetRead' /\ HeldIsRotated'
  BY <1>5 DEF HandleOnlyWhenReading, HeldIsRotated
<1>6. CASE Startup \/ Recv
  <2>1. /\ pc \in {"down", "idle"} /\ UNCHANGED <<out, unlinked>>
        /\ todo' \subseteq Files \/ todo' = todo
    BY <1>6 DEF Startup, Recv, handleVars
  <2>2. ~unlinked' /\ out' = [f \in Files |-> <<>>] /\ todo' \subseteq Files
    BY <2>1, Zenon DEF HandleOnlyWhenReading, NoBatchBetweenCalls, TypeOK
  <2>3. NotYetRead'
    BY <2>2, Zenon DEF NotYetRead
  <2> QED
    BY <1>5, <2>2, <2>3
<1>7. CASE Return \/ Close \/ Crash
  <2>1. CASE Return
    BY <1>5, <2>1 DEF Return, handleVars, HandleOnlyWhenReading, NotYetRead
  <2>2. CASE Close \/ Crash
    <3>1. todo' = {} /\ ~unlinked'
      BY <2>2, Zenon DEF Close, Crash, ProcessEnds
    <3> QED
      BY <1>5, <3>1 DEF NotYetRead
  <2> QED
    BY <1>7, <2>1, <2>2
<1>8. ASSUME NEW f \in Files, \/ \E off : StatTo(f, off) \/ OpenAt(f, off)
                               \/ PollError(f)
      PROVE  HandleOnlyWhenReading' /\ NotYetRead' /\ HeldIsRotated'
  <2>1. /\ out' = out /\ todo' \subseteq todo
        /\ pc = "read" \/ ~unlinked
        /\ ~unlinked'
    BY <1>8 DEF StatTo, OpenAt, PollError, NextPath, handleVars, HandleOnlyWhenReading
  <2> QED
    BY <1>5, <2>1 DEF NotYetRead
<1>9. ASSUME NEW f \in Files, NEW advance \in BOOLEAN, ReadLines(f, advance)
      PROVE  HandleOnlyWhenReading' /\ NotYetRead' /\ HeldIsRotated'
  <2>1. /\ ~unlinked' /\ todo' = todo \ {f}
        /\ \A g \in Files \ {f} : out'[g] = out[g]
    BY <1>9, ReadBatch, ReadFacts
  <2>2. NotYetRead'
    BY <2>1 DEF NotYetRead, TypeOK
  <2> QED
    BY <1>5, <2>1, <2>2
<1>10. ASSUME NEW f \in Files, Drain(f)
       PROVE  HandleOnlyWhenReading' /\ NotYetRead' /\ HeldIsRotated'
  BY <1>8, <1>9, <1>10 DEF Drain, Stat, Open, Read, StoreFault
<1> QED
  BY <1>1, <1>2, <1>4, <1>6, <1>7, <1>10 DEF Next, World

-----------------------------------------------------------------------------
(* What the sink has seen. The first k of new are some of old, in the same *)
(* order.                                                                  *)
Thinned(new, old, k) ==
  \E h \in [1 .. k -> 1 .. Len(old)] :
    /\ \A i, j \in 1 .. k : i < j => h[i] < h[j]
    /\ \A i \in 1 .. k : new[i] = old[h[i]]

Ordered(s, f) ==
  \A i, j \in DOMAIN s :
    i < j /\ s[i].file = f /\ s[j].file = f => s[i].offset < s[j].offset

LEMMA ThinnedOrder ==
  ASSUME NEW old \in Seq(Node), NEW new, NEW k \in Nat, Thinned(new, old, k)
  PROVE  /\ \A i \in 1 .. k : \E j \in 1 .. Len(old) : new[i] = old[j]
         /\ \A f : Ordered(old, f) =>
              \A i, j \in 1 .. k :
                i < j /\ new[i].file = f /\ new[j].file = f => new[i].offset < new[j].offset
<1>1. PICK h \in [1 .. k -> 1 .. Len(old)] :
        /\ \A i, j \in 1 .. k : i < j => h[i] < h[j]
        /\ \A i \in 1 .. k : new[i] = old[h[i]]
  BY DEF Thinned
<1>2. DOMAIN old = 1 .. Len(old)
  BY LenProperties
<1> QED
  BY <1>1, <1>2 DEF Ordered

(* The same for the nodes of one file.                                     *)
LEMMA ThinnedOrderOf ==
  ASSUME NEW old \in Seq(Node), NEW new, NEW k \in Nat, NEW f,
         Thinned(new, old, k), Ordered(old, f)
  PROVE  \A i, j \in 1 .. k :
           i < j /\ new[i].file = f /\ new[j].file = f => new[i].offset < new[j].offset
BY ThinnedOrder

LEMMA PrefixIsThinned ==
  ASSUME NEW S, NEW old \in Seq(S), NEW new, NEW k \in 0 .. Len(old),
         \A i \in 1 .. k : new[i] = old[i]
  PROVE  Thinned(new, old, k)
<1> DEFINE h == [i \in 1 .. k |-> i]
<1>1. Len(old) \in Nat
  BY LenProperties
<1>2. h \in [1 .. k -> 1 .. Len(old)]
  BY <1>1
<1>3. \A i, j \in 1 .. k : i < j => h[i] < h[j]
  OBVIOUS
<1>4. \A i \in 1 .. k : new[i] = old[h[i]]
  OBVIOUS
<1> QED
  BY <1>2, <1>3, <1>4, Zenon DEF Thinned

(* A piece of any sequence.                                                *)
LEMMA Piece ==
  ASSUME NEW S, NEW s \in Seq(S), NEW m \in Nat \ {0}, NEW n \in 0 .. Len(s)
  PROVE  /\ SubSeq(s, m, n) \in Seq(S)
         /\ Len(SubSeq(s, m, n)) = IF m <= n THEN n - m + 1 ELSE 0
         /\ \A i \in 1 .. n - m + 1 : SubSeq(s, m, n)[i] = s[m + i - 1]
<1>1. Len(s) \in Nat /\ m \in Int /\ n \in Int
  BY LenProperties
<1>2. \A i \in m .. n : s[i] \in S
  BY <1>1, ElementOfSeq
<1> QED
  BY <1>1, <1>2, SubSeqProperties

(* Deleting one row keeps the others and their order.                      *)
LEMMA RemoveAtFacts ==
  ASSUME NEW S, NEW s \in Seq(S), NEW p \in 1 .. Len(s)
  PROVE  /\ RemoveAt(s, p) \in Seq(S) /\ Len(RemoveAt(s, p)) = Len(s) - 1
         /\ \A i \in 1 .. Len(s) - 1 :
              RemoveAt(s, p)[i] = IF i < p THEN s[i] ELSE s[i + 1]
<1>1. Len(s) \in Nat /\ p \in Nat /\ p >= 1 /\ p <= Len(s)
  BY LenProperties
<1> DEFINE a == SubSeq(s, 1, p - 1)
           b == SubSeq(s, p + 1, Len(s))
<1>2. /\ a \in Seq(S) /\ Len(a) = p - 1
      /\ \A i \in 1 .. p - 1 : a[i] = s[i]
  <2>1. 1 \in Nat \ {0} /\ p - 1 \in 0 .. Len(s)
    BY <1>1
  <2>2. /\ a \in Seq(S)
        /\ Len(a) = IF 1 <= p - 1 THEN p - 1 - 1 + 1 ELSE 0
        /\ \A i \in 1 .. p - 1 - 1 + 1 : a[i] = s[1 + i - 1]
    BY <2>1, Piece
  <2> QED
    BY <1>1, <2>2
<1>3. /\ b \in Seq(S) /\ Len(b) = Len(s) - p
      /\ \A i \in 1 .. Len(s) - p : b[i] = s[p + i]
  <2>1. p + 1 \in Nat \ {0} /\ Len(s) \in 0 .. Len(s)
    BY <1>1
  <2>2. /\ b \in Seq(S)
        /\ Len(b) = IF p + 1 <= Len(s) THEN Len(s) - (p + 1) + 1 ELSE 0
        /\ \A i \in 1 .. Len(s) - (p + 1) + 1 : b[i] = s[p + 1 + i - 1]
    BY <2>1, Piece
  <2> QED
    BY <1>1, <2>2
<1>4. RemoveAt(s, p) = a \o b
  BY DEF RemoveAt
<1> HIDE DEF a, b
<1>5. /\ a \o b \in Seq(S) /\ Len(a \o b) = Len(a) + Len(b)
      /\ \A i \in 1 .. Len(a) + Len(b) :
           (a \o b)[i] = IF i <= Len(a) THEN a[i] ELSE b[i - Len(a)]
  BY <1>2, <1>3, ConcatProperties
<1>6. ASSUME NEW i \in 1 .. Len(s) - 1
      PROVE  RemoveAt(s, p)[i] = IF i < p THEN s[i] ELSE s[i + 1]
  <2>1. CASE i < p
    BY <1>1, <1>2, <1>3, <1>4, <1>5, <2>1
  <2>2. CASE ~(i < p)
    <3>1. i - Len(a) \in 1 .. Len(s) - p /\ p + (i - Len(a)) = i + 1
      BY <1>1, <1>2, <2>2
    <3>2. (a \o b)[i] = b[i - Len(a)]
      BY <1>1, <1>2, <1>3, <1>5, <2>2
    <3> QED
      BY <1>3, <1>4, <2>2, <3>1, <3>2
  <2> QED
    BY <2>1, <2>2
<1> QED
  BY <1>1, <1>2, <1>3, <1>4, <1>5, <1>6

LEMMA UpsertFacts ==
  ASSUME NEW rows \in Seq(Node), NEW n \in Node
  PROVE  /\ Upsert(rows, n) \in Seq(Node)
         /\ \E k \in Nat :
              /\ Len(Upsert(rows, n)) = k + 1 /\ Upsert(rows, n)[k + 1] = n
              /\ Thinned(Upsert(rows, n), rows, k)
         /\ \A i \in 1 .. Len(rows) :
              \E j \in 1 .. Len(Upsert(rows, n)) : Upsert(rows, n)[j] = rows[i]
<1>1. DOMAIN rows = 1 .. Len(rows) /\ Len(rows) \in Nat
  BY LenProperties
<1>2. CASE \E i \in DOMAIN rows : rows[i] = n
  <2> DEFINE p == CHOOSE i \in DOMAIN rows : rows[i] = n
             r == RemoveAt(rows, p)
  <2>1. p \in 1 .. Len(rows) /\ rows[p] = n
    BY <1>1, <1>2
  <2>2. Upsert(rows, n) = Append(r, n)
    BY <1>2 DEF Upsert
  <2> HIDE DEF p
  <2>3. /\ r \in Seq(Node) /\ Len(r) = Len(rows) - 1
        /\ \A i \in 1 .. Len(rows) - 1 : r[i] = IF i < p THEN rows[i] ELSE rows[i + 1]
    BY <2>1, RemoveAtFacts
  <2> HIDE DEF r
  <2> DEFINE k == Len(rows) - 1
             u == Append(r, n)
  <2>4. k \in Nat /\ u \in Seq(Node) /\ Len(u) = k + 1 /\ u[k + 1] = n
        /\ \A i \in 1 .. k : u[i] = r[i]
    <3>1. Len(r) = k /\ k \in Nat
      BY <1>1, <2>1, <2>3
    <3>2. u \in Seq(Node) /\ Len(u) = Len(r) + 1
          /\ \A i \in 1 .. Len(r) : u[i] = r[i]
          /\ u[Len(r) + 1] = n
      BY <2>3, AppendProperties
    <3>3. Len(u) = k + 1 /\ u[k + 1] = n
      BY <3>1, <3>2
    <3>4. \A i \in 1 .. k : u[i] = r[i]
      BY <3>1, <3>2
    <3> QED
      BY <3>1, <3>2, <3>3, <3>4
  <2>5. Thinned(u, rows, k)
    <3> DEFINE h == [i \in 1 .. k |-> IF i < p THEN i ELSE i + 1]
    <3>1. h \in [1 .. k -> 1 .. Len(rows)]
      BY <1>1, <2>1
    <3>2. \A i, j \in 1 .. k : i < j => h[i] < h[j]
      BY <1>1, <2>1
    <3>3. \A i \in 1 .. k : u[i] = rows[h[i]]
      BY <2>1, <2>3, <2>4
    <3> QED
      BY <3>1, <3>2, <3>3, Zenon DEF Thinned
  <2>6. ASSUME NEW i \in 1 .. Len(rows) PROVE \E j \in 1 .. Len(u) : u[j] = rows[i]
    <3>1. CASE i < p
      <4>1. i \in 1 .. k /\ u[i] = rows[i]
        BY <1>1, <2>1, <2>3, <2>4, <3>1
      <4> QED
        BY <2>4, <4>1
    <3>2. CASE i = p
      BY <2>1, <2>4, <3>2
    <3>3. CASE i > p
      <4>1. i - 1 \in 1 .. k /\ ~(i - 1 < p) /\ i - 1 + 1 = i
        BY <1>1, <2>1, <3>3
      <4>2. u[i - 1] = rows[i]
        BY <2>3, <2>4, <4>1
      <4> QED
        BY <2>4, <4>1, <4>2
    <3> QED
      BY <1>1, <2>1, <3>1, <3>2, <3>3
  <2> QED
    BY <2>2, <2>4, <2>5, <2>6
<1>3. CASE ~\E i \in DOMAIN rows : rows[i] = n
  <2> DEFINE u == Append(rows, n)
  <2>1. Upsert(rows, n) = u
    BY <1>3 DEF Upsert
  <2>2. /\ u \in Seq(Node) /\ Len(u) = Len(rows) + 1 /\ u[Len(rows) + 1] = n
        /\ \A i \in 1 .. Len(rows) : u[i] = rows[i]
    BY <1>1, AppendProperties
  <2>3. Thinned(u, rows, Len(rows))
    <3>1. Len(rows) \in 0 .. Len(rows)
      BY <1>1
    <3> HIDE DEF u
    <3> QED
      BY <2>2, <3>1, PrefixIsThinned
  <2>4. \A i \in 1 .. Len(rows) : \E j \in 1 .. Len(u) : u[j] = rows[i]
    BY <1>1, <2>2
  <2> HIDE DEF u
  <2> QED
    BY <1>1, <2>1, <2>2, <2>3, <2>4
<1> QED
  BY <1>2, <1>3

-----------------------------------------------------------------------------
(* What the daemon holds are nodes, whatever fails.                        *)
BookInv == ReadInv /\ CtrlInv /\ NodesType

LEMMA SeenType ==
  ASSUME NodesType
  PROVE  /\ Seen \in Seq(Node) /\ Len(Seen) \in Nat /\ DOMAIN Seen = 1 .. Len(Seen)
         /\ buffer = <<>> => Seen = stored
<1>1. Seen \in Seq(Node)
  BY ConcatProperties DEF NodesType, Seen
<1>2. buffer = <<>> => Seen = stored
  BY ConcatEmptySeq DEF NodesType, Seen
<1> QED
  BY <1>1, <1>2, LenProperties

LEMMA StartsType ==
  ASSUME NEW t \in Seq(Byte), NEW s \in Starts(t)
  PROVE  s \in Nat /\ s < Len(t) /\ (s = 0 \/ t[s] = NL)
<1>1. Len(t) \in Nat
  BY LenProperties
<1> QED
  BY <1>1 DEF Starts

LEMMA NodesOfBatch ==
  ASSUME TypeOK, from \in [Files -> Nat]
  PROVE  /\ NodesOf(out) \subseteq Node
         /\ \A n \in NodesOf(out) :
              \E s \in Starts(out[n.file]) : n.offset = from[n.file] + s
         /\ \A f \in Files : \A s \in Starts(out[f]) :
              [file |-> f, offset |-> from[f] + s] \in NodesOf(out)
<1>1. ASSUME NEW f \in Files, NEW s \in Starts(out[f]) PROVE s \in Nat
  BY <1>1, StartsType DEF TypeOK
<1>2. ASSUME NEW n \in NodesOf(out)
      PROVE  n \in Node /\ \E s \in Starts(out[n.file]) : n.offset = from[n.file] + s
  <2>1. PICK f \in Files : n \in NodesOfFile(out, f)
    BY DEF NodesOf
  <2>2. PICK s \in Starts(out[f]) : n = [file |-> f, offset |-> from[f] + s]
    BY <2>1 DEF NodesOfFile
  <2> QED
    BY <1>1, <2>2 DEF Node
<1>3. \A f \in Files : \A s \in Starts(out[f]) :
        [file |-> f, offset |-> from[f] + s] \in NodesOf(out)
  <2> TAKE f \in Files
  <2> TAKE s \in Starts(out[f])
  <2>1. [file |-> f, offset |-> from[f] + s] \in NodesOfFile(out, f)
    BY DEF NodesOfFile
  <2> QED
    BY <2>1, Zenon DEF NodesOf
<1> QED
  BY <1>2, <1>3

LEMMA NodesTypeStep ==
  ASSUME BookInv, [DaemonNext]_allVars
  PROVE  NodesType'
<1> USE DEF BookInv
<1>0. <<>> \in Seq(Node) /\ [f \in Files |-> 0] \in [Files -> Nat] /\ {} \subseteq Node
  BY EmptySeq
<1>1. CASE DaemonStart
  BY <1>0, <1>1 DEF DaemonStart, NodesType
<1>2. CASE DrainStep
  <2>1. from' \in [Files -> Nat]
    BY <1>2 DEF DrainStep, NodesType, ReadInv, TypeOK
  <2> QED
    BY <1>2, <2>1 DEF DrainStep, NodesType
<1>3. CASE WorldStep \/ WaitForBatch \/ PollTimeout \/ CtrlC \/ PollBatch \/ UNCHANGED allVars
  BY <1>3 DEF WorldStep, WaitForBatch, PollTimeout, CtrlC, PollBatch, allVars, daemonVars,
              NodesType
<1>4. CASE TakeBatch
  <2>1. NodesOf(out) \subseteq Node
    BY NodesOfBatch DEF NodesType, ReadInv
  <2>2. pending' = NodesOf(out) /\ UNCHANGED <<buffer, stored>>
        /\ from' = [f \in Files |-> 0]
    BY <1>4, Zenon DEF TakeBatch
  <2> QED
    BY <1>0, <2>1, <2>2 DEF NodesType
<1>5. CASE EmitNode
  <2>1. PICK n \in pending :
          /\ pending' = pending \ {n}
          /\ IF sink = "sqlite"
             THEN stored' = Upsert(stored, n) /\ UNCHANGED buffer
             ELSE buffer' = Append(buffer, n) /\ UNCHANGED stored
    BY <1>5 DEF EmitNode
  <2>2. n \in Node /\ Upsert(stored, n) \in Seq(Node) /\ Append(buffer, n) \in Seq(Node)
    BY UpsertFacts, AppendProperties DEF NodesType
  <2> QED
    BY <1>5, <2>1, <2>2 DEF EmitNode, NodesType
<1>6. stored \o buffer \in Seq(Node)
  BY ConcatProperties DEF NodesType
<1>7. CASE Spill \/ FlushSink
  BY <1>0, <1>6, <1>7 DEF Spill, FlushSink, WriteOut, NodesType
<1>8. CASE CleanExit \/ DaemonCrash
  BY <1>0, <1>6, <1>8, Zenon DEF CleanExit, DaemonCrash, DaemonEnds, WriteOut, NodesType
<1>9. CASE SinkError
  <2>1. PICK n \in 0 .. Len(buffer) : stored' = stored \o SubSeq(buffer, 1, n)
    BY <1>9 DEF SinkError
  <2>2. SubSeq(buffer, 1, n) \in Seq(Node)
    BY Piece DEF NodesType
  <2>3. stored' \in Seq(Node)
    BY <2>1, <2>2, ConcatProperties DEF NodesType
  <2> QED
    BY <1>0, <1>9, <2>3, Zenon DEF SinkError, DaemonEnds, NodesType
<1> QED
  BY <1>1, <1>2, <1>3, <1>4, <1>5, <1>7, <1>8, <1>9 DEF DaemonNext

LEMMA DaemonBook == DaemonSpec => []BookInv
<1>1. DaemonInit => ReadInv /\ CtrlInv /\ NodesType
  <2> SUFFICES ASSUME DaemonInit PROVE ReadInv /\ NodesType
    BY InitCtrlInv
  <2>1. Init /\ TypeOK
    BY InitTypeOK DEF DaemonInit
  <2>2. ReadInv
    BY <2>1, Zenon DEF Init, ReadInv, HandleOnlyWhenReading, NoBatchBetweenCalls,
                       NotYetRead, HeldIsRotated, Reading, IsNext
  <2>3. NodesType
    BY EmptySeq DEF DaemonInit, NodesType
  <2> QED
    BY <2>2, <2>3
<1>2. BookInv /\ TypeOK' /\ NoBatchBetweenCalls' /\ [DaemonNext]_allVars => BookInv'
  BY ReadInvStep, NodesTypeStep, CtrlInvStep, DaemonStepIsTailers DEF BookInv, ReadInv
<1> QED
  BY <1>1, <1>2, DaemonImplementsTailer, TypeCorrect, BatchOnlyInCalls, PTL
  DEF DaemonSpec, BookInv

-----------------------------------------------------------------------------
(* One step, seen from the sink: it takes one pending node, or it keeps    *)
(* what it has seen, in order, and loses some of it only when it fails,    *)
(* the process dies or a file is created anew.                             *)
NothingDropped == \A i \in 1 .. Len(Seen) : \E j \in 1 .. Len(Seen') : Seen'[j] = Seen[i]

SinkTakes(n) ==
  \E k \in Nat : Len(Seen') = k + 1 /\ Seen'[k + 1] = n /\ Thinned(Seen', Seen, k)

Emits(n) ==
  /\ turn = "emit" /\ pending' = pending \ {n}
  /\ \A m \in pending \ {n} : Before(n, m)
  /\ UNCHANGED <<vars, sink, turn, from>>

LEMMA SinkEmits ==
  ASSUME BookInv, EmitNode
  PROVE  \E n \in pending : Emits(n) /\ SinkTakes(n) /\ NothingDropped
<1>1. PICK n \in pending :
        /\ \A m \in pending \ {n} : Before(n, m)
        /\ pending' = pending \ {n}
        /\ IF sink = "sqlite"
           THEN stored' = Upsert(stored, n) /\ UNCHANGED buffer
           ELSE buffer' = Append(buffer, n) /\ UNCHANGED stored
  BY DEF EmitNode
<1>2. n \in Node /\ stored \in Seq(Node) /\ buffer \in Seq(Node)
  BY DEF BookInv, NodesType
<1>3. Seen \in Seq(Node) /\ Len(Seen) \in Nat
  BY SeenType DEF BookInv
<1>4. ASSUME sink = "sqlite" PROVE SinkTakes(n) /\ NothingDropped
  <2>1. Seen = stored /\ Seen' = Upsert(stored, n)
    <3>1. buffer = <<>> /\ buffer' = <<>> /\ stored' = Upsert(stored, n)
      BY <1>1, <1>4 DEF BookInv, CtrlInv
    <3>2. Upsert(stored, n) \in Seq(Node)
      BY <1>2, UpsertFacts
    <3> QED
      BY <1>2, <3>1, <3>2, ConcatEmptySeq DEF Seen
  <2> QED
    BY <1>2, <2>1, UpsertFacts DEF SinkTakes, NothingDropped
<1>5. ASSUME sink # "sqlite" PROVE SinkTakes(n) /\ NothingDropped
  <2>1. Seen' = Append(Seen, n)
    <3>1. Seen' = stored \o Append(buffer, n)
      BY <1>1, <1>5 DEF Seen
    <3>2. Append(buffer, n) = buffer \o <<n>> /\ Append(Seen, n) = Seen \o <<n>>
      BY <1>2, <1>3, AppendIsConcat
    <3>3. stored \o (buffer \o <<n>>) = (stored \o buffer) \o <<n>>
      BY <1>2, ConcatAssociative
    <3> QED
      BY <3>1, <3>2, <3>3 DEF Seen
  <2>2. /\ Len(Seen') = Len(Seen) + 1 /\ Seen'[Len(Seen) + 1] = n
        /\ \A i \in 1 .. Len(Seen) : Seen'[i] = Seen[i]
    BY <1>2, <1>3, <2>1, AppendProperties
  <2>3. Len(Seen) \in 0 .. Len(Seen)
    BY <1>3
  <2>4. Thinned(Seen', Seen, Len(Seen))
    BY <1>3, <2>2, <2>3, PrefixIsThinned
  <2>5. \A i \in 1 .. Len(Seen) : i \in 1 .. Len(Seen')
    BY <1>3, <2>2
  <2> QED
    BY <1>3, <2>2, <2>4, <2>5 DEF SinkTakes, NothingDropped
<1>6. Emits(n)
  BY <1>1 DEF EmitNode, Emits
<1> QED
  BY <1>4, <1>5, <1>6

LEMMA PrefixKept ==
  ASSUME NodesType, NEW k \in 0 .. Len(Seen), Len(Seen') = k,
         \A i \in 1 .. k : Seen'[i] = Seen[i]
  PROVE  /\ Thinned(Seen', Seen, Len(Seen'))
         /\ k = Len(Seen) => NothingDropped
BY SeenType, PrefixIsThinned DEF NothingDropped

SinkLosesSome ==
  SinkError \/ DaemonCrash \/ (DaemonStart /\ sink = "file")

LEMMA SinkKeeps ==
  ASSUME BookInv, [DaemonNext]_allVars, ~EmitNode
  PROVE  /\ Thinned(Seen', Seen, Len(Seen')) /\ Len(Seen') \in Nat
         /\ SinkLosesSome \/ NothingDropped
<1>1. NodesType /\ NodesType' /\ CtrlInv
  BY NodesTypeStep DEF BookInv
<1>2. Seen \in Seq(Node) /\ Len(Seen) \in Nat /\ Len(Seen') \in Nat
  BY <1>1, SeenType
<1>3. ASSUME Seen' = Seen
      PROVE  Thinned(Seen', Seen, Len(Seen')) /\ NothingDropped
  <2>1. Len(Seen) \in 0 .. Len(Seen)
    BY <1>2
  <2> QED
    BY <1>1, <1>3, <2>1, PrefixKept
<1>4. CASE UNCHANGED <<stored, buffer>>
  <2>1. Seen' = Seen
    BY <1>4 DEF Seen
  <2> QED
    BY <1>2, <1>3, <2>1
<1>5. CASE WriteOut
  <2>1. Seen' = Seen
    BY <1>1, <1>2, <1>5, ConcatEmptySeq DEF WriteOut, Seen
  <2> QED
    BY <1>2, <1>3, <2>1
<1>6. CASE DaemonStart
  <2>1. buffer = <<>> /\ UNCHANGED buffer
        /\ stored' = IF sink = "file" THEN <<>> ELSE stored
    BY <1>1, <1>6, Zenon DEF DaemonStart, CtrlInv
  <2>2. CASE sink = "file"
    <3>1. Seen' = <<>> \o <<>>
      BY <2>1, <2>2 DEF Seen
    <3>2. Len(Seen') = 0 /\ 0 \in 0 .. Len(Seen)
      BY <1>2, <3>1
    <3> QED
      BY <1>1, <1>2, <1>6, <2>2, <3>2, PrefixKept DEF SinkLosesSome
  <2> QED
    BY <1>4, <2>1, <2>2
<1>7. ASSUME SinkError \/ DaemonCrash
      PROVE  \E k \in 0 .. Len(buffer) :
               stored' = stored \o SubSeq(buffer, 1, k) /\ buffer' = <<>>
  <2>1. CASE SinkError
    BY <2>1 DEF SinkError
  <2>2. CASE DaemonCrash
    <3>1. stored' = stored /\ buffer' = <<>>
      BY <2>2, Zenon DEF DaemonCrash
    <3>2. SubSeq(buffer, 1, 0) = <<>> /\ stored \o <<>> = stored /\ 0 \in 0 .. Len(buffer)
      <4>1. Len(buffer) \in Nat /\ 1 \in Nat \ {0} /\ 0 \in 0 .. Len(buffer)
        BY <1>1, LenProperties DEF NodesType
      <4>2. SubSeq(buffer, 1, 0) \in Seq(Node) /\ Len(SubSeq(buffer, 1, 0)) = 0
        BY <1>1, <4>1, Piece DEF NodesType
      <4> QED
        BY <1>1, <4>1, <4>2, EmptySeq, ConcatEmptySeq DEF NodesType
    <3> QED
      BY <3>1, <3>2
  <2> QED
    BY <1>7, <2>1, <2>2
<1>8. CASE SinkError \/ DaemonCrash
  <2>1. PICK k \in 0 .. Len(buffer) :
          stored' = stored \o SubSeq(buffer, 1, k) /\ buffer' = <<>>
    BY <1>7, <1>8
  <2> DEFINE b == SubSeq(buffer, 1, k)
  <2>2. /\ stored \in Seq(Node) /\ buffer \in Seq(Node)
        /\ Len(stored) \in Nat /\ Len(buffer) \in Nat /\ k \in Nat /\ k <= Len(buffer)
    BY <1>1, LenProperties DEF NodesType
  <2>3. b \in Seq(Node) /\ Len(b) = k /\ \A i \in 1 .. k : b[i] = buffer[i]
    <3>1. 1 \in Nat \ {0}
      OBVIOUS
    <3>2. /\ b \in Seq(Node) /\ Len(b) = IF 1 <= k THEN k - 1 + 1 ELSE 0
          /\ \A i \in 1 .. k - 1 + 1 : b[i] = buffer[1 + i - 1]
      BY <2>1, <2>2, <3>1, Piece
    <3> QED
      BY <2>2, <3>2
  <2> HIDE DEF b
  <2>4. Seen' = stored \o b
    <3>1. stored \o b \in Seq(Node)
      BY <2>2, <2>3, ConcatProperties
    <3> QED
      BY <2>1, <3>1, ConcatEmptySeq DEF Seen, b
  <2>5. /\ Len(stored \o b) = Len(stored) + k
        /\ \A i \in 1 .. Len(stored) + k :
             (stored \o b)[i] = IF i <= Len(stored) THEN stored[i] ELSE b[i - Len(stored)]
    BY <2>2, <2>3, ConcatProperties
  <2>6. /\ Len(Seen) = Len(stored) + Len(buffer)
        /\ \A i \in 1 .. Len(stored) + Len(buffer) :
             Seen[i] = IF i <= Len(stored) THEN stored[i] ELSE buffer[i - Len(stored)]
    BY <2>2, ConcatProperties DEF Seen
  <2>7. ASSUME NEW i \in 1 .. Len(stored) + k PROVE Seen'[i] = Seen[i]
    <3>1. i \in 1 .. Len(stored) + Len(buffer)
      BY <2>2
    <3>2. ~(i <= Len(stored)) => i - Len(stored) \in 1 .. k
      BY <2>2
    <3> QED
      BY <2>3, <2>4, <2>5, <2>6, <3>1, <3>2
  <2>8. Len(stored) + k \in 0 .. Len(Seen) /\ Len(Seen') = Len(stored) + k
    BY <2>2, <2>4, <2>5, <2>6
  <2>9. Thinned(Seen', Seen, Len(Seen'))
    BY <1>1, <2>7, <2>8, PrefixKept
  <2> QED
    BY <1>2, <1>8, <2>9 DEF SinkLosesSome
<1>9. CASE DrainStep \/ WorldStep \/ WaitForBatch \/ PollBatch \/ PollTimeout \/ TakeBatch
           \/ CtrlC \/ UNCHANGED allVars
  BY <1>4, <1>9 DEF DrainStep, WorldStep, WaitForBatch, PollBatch, PollTimeout, TakeBatch,
                    CtrlC, allVars, daemonVars
<1>10. CASE Spill \/ FlushSink \/ CleanExit
  BY <1>5, <1>10 DEF Spill, FlushSink, CleanExit
<1> QED
  BY <1>6, <1>8, <1>9, <1>10 DEF DaemonNext

-----------------------------------------------------------------------------
(* One step, seen from one transcript that has not rotated, while the      *)
(* offset store works: its text grows, and its offset and what the batch   *)
(* holds of it stay, until a read takes the lines from the offset on.      *)
BatchOfFile(f) ==
  /\ cursor[f] <= Len(content[f])
  /\ out[f] # <<>> => from[f] + Len(out[f]) = cursor[f]
  /\ \A i \in 1 .. Len(out[f]) : out[f][i] = content[f][from[f] + i]

BatchInv == \A f \in Files : Unrotated(f) => BatchOfFile(f)

TextGrows(f) ==
  /\ Len(content[f]) <= Len(content'[f])
  /\ \A i \in 1 .. Len(content[f]) : content'[f][i] = content[f][i]

Keeps(f) ==
  /\ cursor'[f] = cursor[f]
  /\ out'[f] = <<>> \/ (out'[f] = out[f] /\ from'[f] = from[f])

Takes(f) ==
  /\ turn = "tail" /\ out[f] = <<>> /\ out'[f] # <<>>
  /\ from'[f] = cursor[f] /\ cursor'[f] = cursor[f] + Len(out'[f])
  /\ cursor'[f] <= Len(content[f])
  /\ \A i \in 1 .. Len(out'[f]) : out'[f][i] = content[f][cursor[f] + i]

LEMMA ReadTakes ==
  ASSUME ReadInv, NEW f \in Files, ReadLines(f, TRUE), gen[f] = 0, start = cursor[f]
  PROVE  /\ out[f] = <<>>
         /\ \/ cursor'[f] = cursor[f] /\ out'[f] = <<>>
            \/ /\ out'[f] # <<>> /\ cursor'[f] = cursor[f] + Len(out'[f])
               /\ cursor'[f] <= Len(content[f])
               /\ \A i \in 1 .. Len(out'[f]) : out'[f][i] = content[f][cursor[f] + i]
<1> USE DEF ReadInv
<1>1. Reading(f) /\ ~unlinked /\ out[f] = <<>>
  <2>1. Reading(f) /\ f \in todo
    BY DEF ReadLines, Reading, IsNext
  <2> QED
    BY <2>1 DEF HeldIsRotated, NotYetRead
<1> DEFINE b == BytesFrom(f)
<1>2. b \in Seq(Byte) /\ Len(b) \in Nat /\ cursor[f] \in Nat
  BY BytesFromType, LenProperties DEF TypeOK
<1>3. PICK n \in 0 .. Len(b) :
        /\ out'[f] = out[f] \o SubSeq(b, 1, n)
        /\ cursor'[f] = IF n = 0 \/ ~TRUE THEN cursor[f] ELSE start + n
  BY ReadBatch
<1>4. SubSeq(b, 1, n) \in Seq(Byte) /\ Len(SubSeq(b, 1, n)) = n
      /\ \A i \in 1 .. n : SubSeq(b, 1, n)[i] = b[i]
  <2>1. 1 \in Nat \ {0} /\ n \in Nat
    BY <1>2, <1>3
  <2>2. /\ SubSeq(b, 1, n) \in Seq(Byte)
        /\ Len(SubSeq(b, 1, n)) = IF 1 <= n THEN n - 1 + 1 ELSE 0
        /\ \A i \in 1 .. n - 1 + 1 : SubSeq(b, 1, n)[i] = b[1 + i - 1]
    BY <1>2, <1>3, <2>1, PieceType
  <2> QED
    BY <2>1, <2>2
<1>5. out'[f] = SubSeq(b, 1, n)
  BY <1>1, <1>3, <1>4, ConcatEmptySeq
<1>6. CASE n = 0
  BY <1>1, <1>3, <1>4, <1>5, <1>6, EmptySeq
<1>7. CASE n # 0
  <2>1. ASSUME NEW i \in 1 .. n
        PROVE  start + i <= Len(content[f]) /\ content[f][start + i] = b[i]
    <3>1. i \in 1 .. Len(b)
      BY <1>2, <1>3
    <3> QED
      BY <1>1, <3>1, ReadIsOfFile
  <2>2. n \in 1 .. n /\ Len(out'[f]) = n /\ n \in Nat
    BY <1>2, <1>3, <1>4, <1>5, <1>7
  <2>3. out'[f] # <<>>
    BY <1>7, <2>2
  <2>4. cursor'[f] = cursor[f] + n /\ cursor'[f] <= Len(content[f])
    BY <1>3, <1>7, <2>1, <2>2
  <2>5. \A i \in 1 .. n : out'[f][i] = content[f][cursor[f] + i]
    BY <1>4, <1>5, <2>1
  <2> HIDE DEF b
  <2> QED
    BY <1>1, <2>2, <2>3, <2>4, <2>5
<1> QED
  BY <1>6, <1>7

LEMMA DrainOfFile ==
  ASSUME BookInv, StartInv, BatchInv, faults' = 0, DrainStep, NEW f \in Files, gen[f] = 0
  PROVE  \/ Keeps(f) /\ out'[f] = out[f] /\ from'[f] = from[f]
         \/ Takes(f)
<1> USE DEF BookInv, ReadInv
<1>1. PICK g \in Files : Drain(g) /\ turn = "tail"
  BY DEF DrainStep
<1>2. /\ from'[f] = IF out'[f] = out[f] THEN from[f] ELSE start
      /\ BatchOfFile(f) /\ cursor[f] \in Nat /\ Len(content[f]) \in Nat
  BY LenProperties DEF DrainStep, TypeOK, BatchInv, Unrotated
<1>3. CASE Stat(g)
  <2>1. out' = out /\ cursor' = [cursor EXCEPT ![g] = RotationReset(g)]
    BY <1>3, Zenon DEF Stat, StatTo
  <2>2. cursor'[f] = cursor[f]
    BY <1>2, <2>1 DEF RotationReset, BatchOfFile, TypeOK
  <2> QED
    BY <1>2, <2>1, <2>2 DEF Keeps
<1>4. CASE Open(g) \/ PollError(g)
  <2>1. out' = out /\ cursor' = cursor
    BY <1>4, Zenon DEF Open, OpenAt, PollError
  <2> QED
    BY <1>2, <2>1 DEF Keeps
<1>5. CASE Read(g)
  <2>1. ReadLines(g, TRUE)
    BY <1>5 DEF Read
  <2>2. CASE g # f
    <3>1. out'[f] = out[f] /\ cursor'[f] = cursor[f]
      BY <2>1, <2>2, ReadBatch
    <3> QED
      BY <1>2, <3>1 DEF Keeps
  <2>3. CASE g = f
    <3>1. start = cursor[f]
      BY <2>1, <2>3 DEF ReadLines, StartInv, StartIsCursor
    <3>2. /\ out[f] = <<>>
          /\ \/ cursor'[f] = cursor[f] /\ out'[f] = <<>>
             \/ /\ out'[f] # <<>> /\ cursor'[f] = cursor[f] + Len(out'[f])
                /\ cursor'[f] <= Len(content[f])
                /\ \A i \in 1 .. Len(out'[f]) : out'[f][i] = content[f][cursor[f] + i]
      BY <2>1, <2>3, <3>1, ReadTakes
    <3> QED
      BY <1>1, <1>2, <3>1, <3>2 DEF Keeps, Takes
  <2> QED
    BY <2>2, <2>3
<1> QED
  BY <1>1, <1>3, <1>4, <1>5, NoStoreFault DEF Drain

(* Outside a drain the offsets stay, and only the end of a call or of the  *)
(* process empties the batch.                                              *)
LEMMA OtherSteps ==
  ASSUME BookInv, [DaemonNext]_allVars, ~DrainStep
  PROVE  /\ cursor' = cursor
         /\ \/ out' = out /\ from' = from
            \/ out' = [f \in Files |-> <<>>]
         /\ \/ out' = out /\ from' = from
            \/ out = [f \in Files |-> <<>>]
            \/ TakeBatch \/ DaemonCrash
<1>1. CASE DaemonStart
  BY <1>1 DEF DaemonStart, Startup
<1>2. CASE WorldStep
  BY <1>2 DEF WorldStep, World, WriteByte, TruncateFile, RemoveFile, Discard, Debounce,
              WatchError, drainVars, daemonVars
<1>3. CASE WaitForBatch \/ PollTimeout \/ CtrlC \/ EmitNode \/ Spill \/ FlushSink
           \/ UNCHANGED allVars
  BY <1>3 DEF WaitForBatch, PollTimeout, CtrlC, EmitNode, Spill, FlushSink, allVars, vars,
              drainVars, daemonVars
<1>4. CASE PollBatch
  BY <1>4 DEF PollBatch, Recv
<1>5. CASE TakeBatch
  BY <1>5, Zenon DEF TakeBatch, Return
<1>6. CASE DaemonCrash
  BY <1>6, Zenon DEF DaemonCrash, Crash, ProcessEnds
<1>7. CASE SinkError \/ CleanExit
  BY <1>7, Zenon DEF SinkError, CleanExit, Close, ProcessEnds, BookInv, ReadInv,
                     NoBatchBetweenCalls
<1> QED
  BY <1>1, <1>2, <1>3, <1>4, <1>5, <1>6, <1>7 DEF DaemonNext

LEMMA TextStep ==
  ASSUME TypeOK, [Next]_vars, NEW f \in Files, gen'[f] = 0
  PROVE  gen[f] = 0 /\ TextGrows(f)
<1>0. gen \in [Files -> Nat] /\ Len(content[f]) \in Nat
  BY LenProperties DEF TypeOK
<1>1. ASSUME NEW g \in Files, NEW b \in Byte, WriteByte(g, b) PROVE gen[f] = 0 /\ TextGrows(f)
  <2>1. gen' = gen
    BY <1>1 DEF WriteByte
  <2>2. TextGrows(f)
    BY <1>0, <1>1, WriteFacts DEF TextGrows
  <2> QED
    BY <2>1, <2>2
<1>2. ASSUME NEW g \in Files, TruncateFile(g) \/ RemoveFile(g)
      PROVE  gen[f] = 0 /\ TextGrows(f)
  <2>1. gen' = [gen EXCEPT ![g] = @ + 1]
    BY <1>2, Zenon DEF TruncateFile, RemoveFile, Discard
  <2>2. f # g /\ gen[f] = 0
    BY <1>0, <2>1
  <2>3. content'[f] = content[f]
    BY <1>2, <2>2, DiscardFacts
  <2> QED
    BY <1>0, <2>2, <2>3 DEF TextGrows
<1>3. ASSUME gen' = gen, content' = content PROVE gen[f] = 0 /\ TextGrows(f)
  BY <1>0, <1>3 DEF TextGrows
<1>4. CASE Debounce \/ WatchError \/ Startup \/ Recv \/ Return \/ Close \/ Crash
           \/ UNCHANGED vars
  BY <1>3, <1>4, Zenon DEF Debounce, WatchError, Startup, Recv, Return, Close, Crash,
                           ProcessEnds, fsVars, vars
<1>5. ASSUME NEW g \in Files, Drain(g) PROVE gen[f] = 0 /\ TextGrows(f)
  BY <1>3, <1>5, Zenon DEF Drain, Stat, StatTo, Open, OpenAt, Read, ReadLines, PollError,
                           StoreFault, fsVars
<1> QED
  BY <1>1, <1>2, <1>4, <1>5 DEF Next, World

LEMMA FileStep ==
  ASSUME BookInv, StartInv, BatchInv, faults' = 0, [DaemonNext]_allVars,
         NEW f \in Files, gen'[f] = 0
  PROVE  /\ gen[f] = 0 /\ TextGrows(f)
         /\ \/ Keeps(f) /\ (DrainStep => out'[f] = out[f] /\ from'[f] = from[f])
            \/ Takes(f) /\ DrainStep
<1>1. gen[f] = 0 /\ TextGrows(f)
  BY TextStep, DaemonStepIsTailers DEF BookInv, ReadInv
<1>2. CASE DrainStep
  BY <1>1, <1>2, DrainOfFile
<1>3. CASE ~DrainStep
  BY <1>1, <1>3, OtherSteps DEF Keeps
<1> QED
  BY <1>1, <1>2, <1>3

LEMMA BatchInvStep ==
  ASSUME BookInv, StartInv, BatchInv, faults' = 0, [DaemonNext]_allVars, BookInv'
  PROVE  BatchInv'
<1> SUFFICES ASSUME NEW f \in Files, gen'[f] = 0 PROVE BatchOfFile(f)'
  BY DEF BatchInv, Unrotated
<1>1. gen[f] = 0 /\ TextGrows(f) /\ (Keeps(f) \/ Takes(f))
  BY FileStep
<1>2. BatchOfFile(f)
  BY <1>1 DEF BatchInv, Unrotated
<1>3. /\ Len(content[f]) \in Nat /\ Len(content'[f]) \in Nat
      /\ Len(out[f]) \in Nat /\ Len(out'[f]) \in Nat
      /\ cursor[f] \in Nat /\ from[f] \in Nat /\ Len(<<>>) = 0
      /\ out[f] # <<>> \/ Len(out[f]) = 0
  BY LenProperties DEF BookInv, ReadInv, TypeOK, NodesType
<1>4. CASE Keeps(f)
  <2>1. cursor'[f] <= Len(content'[f])
    BY <1>1, <1>2, <1>3, <1>4 DEF TextGrows, Keeps, BatchOfFile
  <2>2. CASE out'[f] = <<>>
    BY <1>3, <2>1, <2>2 DEF BatchOfFile
  <2>3. CASE out'[f] = out[f] /\ from'[f] = from[f] /\ out[f] # <<>>
    <3>1. out'[f] # <<>> => from'[f] + Len(out'[f]) = cursor'[f]
      BY <1>2, <1>4, <2>3 DEF BatchOfFile, Keeps
    <3>2. ASSUME NEW i \in 1 .. Len(out[f])
          PROVE  out[f][i] = content'[f][from[f] + i]
      <4>1. from[f] + i \in 1 .. Len(content[f])
        BY <1>2, <1>3, <2>3 DEF BatchOfFile
      <4> QED
        BY <1>1, <1>2, <4>1 DEF TextGrows, BatchOfFile
    <3> QED
      BY <2>1, <2>3, <3>1, <3>2 DEF BatchOfFile
  <2> QED
    BY <1>4, <2>2, <2>3 DEF Keeps
<1>5. CASE Takes(f)
  <2>1. cursor'[f] <= Len(content'[f])
    BY <1>1, <1>3, <1>5 DEF TextGrows, Takes
  <2>2. ASSUME NEW i \in 1 .. Len(out'[f])
        PROVE  out'[f][i] = content'[f][from'[f] + i]
    <3>1. cursor[f] + i \in 1 .. Len(content[f])
      BY <1>3, <1>5 DEF Takes
    <3> QED
      BY <1>1, <1>5, <3>1 DEF TextGrows, Takes
  <2> QED
    BY <1>5, <2>1, <2>2 DEF BatchOfFile, Takes
<1> QED
  BY <1>1, <1>4, <1>5

-----------------------------------------------------------------------------
(* The order of what the sink has seen: the nodes of a transcript lie      *)
(* before its offset, those still in a batch after them, and the pending   *)
(* ones between.                                                           *)
Behind(f, bound) == \A i \in 1 .. Len(Seen) : Seen[i].file = f => Seen[i].offset < bound

OrderOf(f) ==
  /\ Ordered(Seen, f)
  /\ Behind(f, cursor[f])
  /\ out[f] # <<>> => Behind(f, from[f])
  /\ \A n \in pending : n.file = f => n.offset < cursor[f] /\ Behind(f, n.offset)

OrderInv == \A f \in Files : Unrotated(f) => OrderOf(f)

LEMMA PendingStep ==
  ASSUME [DaemonNext]_allVars, ~EmitNode
  PROVE  pending' = pending \/ pending' = {} \/ TakeBatch
BY Zenon DEF DaemonNext, DaemonStart, DrainStep, WorldStep, WaitForBatch, PollBatch, PollTimeout,
       Spill, FlushSink, SinkError, CtrlC, CleanExit, DaemonCrash, DaemonEnds, allVars,
       daemonVars

(* What a step keeps of the sink lies where it lay.                        *)
LEMMA KeptBehind ==
  ASSUME NodesType, NEW k \in Nat, Thinned(Seen', Seen, k), NEW f, NEW bound, Behind(f, bound)
  PROVE  \A i \in 1 .. k : Seen'[i].file = f => Seen'[i].offset < bound
BY SeenType, ThinnedOrder DEF Behind

LEMMA EmitKeepsOrder ==
  ASSUME BookInv, BookInv', EmitNode, NEW f \in Files, OrderOf(f)
  PROVE  OrderOf(f)'
<1>1. PICK n \in pending : Emits(n) /\ SinkTakes(n)
  BY SinkEmits
<1>2. PICK k \in Nat : Len(Seen') = k + 1 /\ Seen'[k + 1] = n /\ Thinned(Seen', Seen, k)
  BY <1>1 DEF SinkTakes
<1>3. /\ NodesType /\ NodesType' /\ out = [g \in Files |-> <<>>] /\ UNCHANGED <<cursor, out>>
  BY <1>1 DEF Emits, BookInv, ReadInv, NoBatchBetweenCalls, CtrlInv, vars, drainVars
<1>4. Seen \in Seq(Node) /\ DOMAIN Seen' = 1 .. k + 1
  BY <1>2, <1>3, SeenType
<1>5. Ordered(Seen', f)
  <2> SUFFICES ASSUME NEW i \in 1 .. k + 1, NEW j \in 1 .. k + 1, i < j,
                      Seen'[i].file = f, Seen'[j].file = f
               PROVE  Seen'[i].offset < Seen'[j].offset
    BY <1>4 DEF Ordered
  <2>1. CASE j = k + 1
    <3>1. i \in 1 .. k /\ n.file = f
      BY <1>2, <2>1
    <3>2. Behind(f, n.offset)
      BY <3>1 DEF OrderOf
    <3> QED
      BY <1>2, <1>3, <2>1, <3>1, <3>2, KeptBehind
  <2>2. CASE j # k + 1
    <3>1. i \in 1 .. k /\ j \in 1 .. k
      BY <2>2
    <3> QED
      BY <1>2, <1>4, <3>1, ThinnedOrder DEF OrderOf
  <2> QED
    BY <2>1, <2>2
<1>6. ASSUME NEW bound, Behind(f, bound), n.file = f => n.offset < bound
      PROVE  \A i \in 1 .. Len(Seen') : Seen'[i].file = f => Seen'[i].offset < bound
  <2>1. \A i \in 1 .. k : Seen'[i].file = f => Seen'[i].offset < bound
    BY <1>2, <1>3, <1>6, KeptBehind
  <2> QED
    BY <1>2, <1>6, <2>1
<1>7. \A i \in 1 .. Len(Seen') : Seen'[i].file = f => Seen'[i].offset < cursor'[f]
  BY <1>3, <1>6 DEF OrderOf
<1>8. ASSUME NEW m \in pending', m.file = f
      PROVE  /\ m.offset < cursor'[f]
             /\ \A i \in 1 .. Len(Seen') : Seen'[i].file = f => Seen'[i].offset < m.offset
  <2>1. m \in pending \ {n} /\ Before(n, m)
    BY <1>1 DEF Emits
  <2>2. m.offset < cursor[f] /\ Behind(f, m.offset)
    BY <1>8, <2>1 DEF OrderOf
  <2>3. n.file = f => n.offset < m.offset
    BY <1>8, <2>1, TailerAssumption DEF Before, TailerAssumption
  <2> QED
    BY <1>3, <1>6, <2>2, <2>3
<1> QED
  BY <1>3, <1>5, <1>7, <1>8 DEF OrderOf, Behind

LEMMA OrderInvStep ==
  ASSUME BookInv, StartInv, BatchInv, OrderInv, faults' = 0, [DaemonNext]_allVars, BookInv'
  PROVE  OrderInv'
<1> SUFFICES ASSUME NEW f \in Files, gen'[f] = 0 PROVE OrderOf(f)'
  BY DEF OrderInv, Unrotated
<1>1. gen[f] = 0 /\ (Keeps(f) \/ (Takes(f) /\ DrainStep))
  BY FileStep
<1>2. OrderOf(f) /\ BatchOfFile(f)
  BY <1>1 DEF OrderInv, BatchInv, Unrotated
<1>3. CASE EmitNode
  BY <1>2, <1>3, EmitKeepsOrder
<1>4. CASE ~EmitNode
  <2>1. Thinned(Seen', Seen, Len(Seen')) /\ Len(Seen') \in Nat /\ NodesType
    BY <1>4, SinkKeeps DEF BookInv
  <2>2. Seen \in Seq(Node) /\ DOMAIN Seen' = 1 .. Len(Seen')
    BY <2>1, SeenType DEF BookInv
  <2>3. Ordered(Seen', f)
    <3>1. \A i, j \in 1 .. Len(Seen') :
            i < j /\ Seen'[i].file = f /\ Seen'[j].file = f => Seen'[i].offset < Seen'[j].offset
      <4>1. Ordered(Seen, f)
        BY <1>2 DEF OrderOf
      <4> QED
        BY <2>1, <2>2, <4>1, ThinnedOrderOf
    <3> QED
      BY <2>2, <3>1 DEF Ordered
  <2>4. ASSUME NEW bound, Behind(f, bound)
        PROVE  \A i \in 1 .. Len(Seen') : Seen'[i].file = f => Seen'[i].offset < bound
    BY <2>1, <2>4, KeptBehind
  <2>5. /\ cursor[f] \in Nat /\ cursor'[f] \in Nat /\ cursor[f] <= cursor'[f]
        /\ \A i \in 1 .. Len(Seen') : Seen'[i].file = f =>
              Seen'[i].offset \in Nat /\ Seen'[i].offset < cursor'[f]
    <3>1. cursor[f] \in Nat /\ cursor'[f] \in Nat /\ Len(out'[f]) \in Nat
      BY LenProperties DEF BookInv, ReadInv, TypeOK
    <3>2. cursor[f] <= cursor'[f]
      BY <1>1, <3>1 DEF Keeps, Takes
    <3>3. \A i \in 1 .. Len(Seen') : Seen'[i] \in Node
      <4>1. Seen' \in Seq(Node)
        BY ConcatProperties DEF BookInv, NodesType, Seen
      <4> QED
        BY <4>1, ElementOfSeq
    <3>4. \A i \in 1 .. Len(Seen') : Seen'[i].file = f => Seen'[i].offset < cursor[f]
      BY <1>2, <2>4 DEF OrderOf
    <3> QED
      BY <3>1, <3>2, <3>3, <3>4 DEF Node
  <2>6. ASSUME out'[f] # <<>>
        PROVE  \A i \in 1 .. Len(Seen') : Seen'[i].file = f => Seen'[i].offset < from'[f]
    <3>1. CASE Keeps(f)
      BY <1>2, <2>4, <2>6, <3>1 DEF Keeps, OrderOf
    <3>2. CASE Takes(f)
      BY <1>2, <2>4, <3>2 DEF Takes, OrderOf
    <3> QED
      BY <1>1, <3>1, <3>2
  <2>7. ASSUME NEW n \in pending', n.file = f
        PROVE  /\ n.offset < cursor'[f]
               /\ \A i \in 1 .. Len(Seen') : Seen'[i].file = f => Seen'[i].offset < n.offset
    <3>1. CASE pending' = pending
      <4>1. n.offset < cursor[f] /\ Behind(f, n.offset) /\ n \in Node
        BY <1>2, <2>7, <3>1 DEF OrderOf, BookInv, NodesType
      <4> QED
        BY <2>4, <2>5, <4>1 DEF Node
    <3>2. CASE TakeBatch
      <4>1. pending' = NodesOf(out) /\ ~DrainStep
        BY <3>2, Zenon DEF TakeBatch, DrainStep, Drain, Stat, StatTo, Open, OpenAt, Read,
                           ReadLines, Reading, PollError, StoreFault, Return, IsNext
      <4>2. PICK s \in Starts(out[f]) : n.offset = from[f] + s
        BY <2>1, <2>7, <4>1, NodesOfBatch DEF BookInv, ReadInv, NodesType
      <4>3. /\ s \in Nat /\ s < Len(out[f]) /\ from[f] \in Nat /\ Len(out[f]) \in Nat
            /\ out[f] # <<>>
        <5>1. out[f] \in Seq(Byte) /\ Len(<<>>) = 0
          BY DEF BookInv, ReadInv, TypeOK
        <5> QED
          BY <2>1, <4>2, <5>1, StartsType, LenProperties DEF NodesType
      <4>4. from[f] + Len(out[f]) = cursor[f] /\ Behind(f, from[f])
        BY <1>2, <4>3 DEF BatchOfFile, OrderOf
      <4>5. cursor'[f] = cursor[f]
        BY <1>1, <4>1 DEF Keeps
      <4>6. \A i \in 1 .. Len(Seen') : Seen'[i].file = f => Seen'[i].offset < from[f]
        BY <2>4, <4>4
      <4> QED
        BY <2>5, <4>2, <4>3, <4>4, <4>5, <4>6
    <3> QED
      BY <1>4, <2>7, <3>1, <3>2, PendingStep
  <2> QED
    BY <2>3, <2>5, <2>6, <2>7 DEF OrderOf, Behind
<1> QED
  BY <1>3, <1>4

LEMMA InitOrder == DaemonInit => StartInv /\ BatchInv /\ OrderInv
<1> SUFFICES ASSUME DaemonInit PROVE StartInv /\ BatchInv /\ OrderInv
  OBVIOUS
<1>1. StartInv
  BY InitStartInv DEF DaemonInit
<1>2. /\ Len(<<>>) = 0 /\ DOMAIN Seen = 1 .. 0 /\ Len(Seen) = 0 /\ pending = {}
      /\ \A f \in Files : cursor[f] = 0 /\ content[f] = <<>> /\ out[f] = <<>>
  BY ConcatEmptySeq, EmptySeq DEF DaemonInit, Init, Seen
<1>3. BatchInv
  BY <1>2 DEF BatchInv, BatchOfFile
<1>4. OrderInv
  BY <1>2 DEF OrderInv, OrderOf, Ordered, Behind
<1> QED
  BY <1>1, <1>3, <1>4

LEMMA DaemonOrder == DaemonSpec => [](faults = 0 => StartInv /\ BatchInv /\ OrderInv)
<1> DEFINE Inv == faults = 0 => StartInv /\ BatchInv /\ OrderInv
<1>1. DaemonInit => Inv
  BY InitOrder
<1>2. Inv /\ BookInv /\ BookInv' /\ [DaemonNext]_allVars => Inv'
  <2> SUFFICES ASSUME Inv, BookInv, BookInv', [DaemonNext]_allVars, faults' = 0
               PROVE  StartInv' /\ BatchInv' /\ OrderInv'
    OBVIOUS
  <2>1. TypeOK /\ TypeOK' /\ [Next]_vars
    BY DaemonStepIsTailers DEF BookInv, ReadInv
  <2>2. StartInv /\ BatchInv /\ OrderInv
    BY <2>1, FaultsGrow
  <2>3. StartInv'
    BY <2>1, <2>2, StartInvStep
  <2> QED
    BY <2>2, <2>3, BatchInvStep, OrderInvStep
<1> QED
  BY <1>1, <1>2, DaemonBook, PTL DEF DaemonSpec

(* Whatever crashes, fails or restarts, the sink sees every node of a      *)
(* transcript that only grew at most once and in the order of its lines.   *)
THEOREM SinkSeesInOrderOnce == DaemonSpec => []StoredInOrderOnce
<1>1. OrderInv => StoredInOrderOnce
  BY DEF OrderInv, OrderOf, Ordered, StoredInOrderOnce
<1> QED
  BY <1>1, DaemonOrder, PTL DEF StoredInOrderOnce

-----------------------------------------------------------------------------
(* Nothing is skipped. Each line the offset has passed starts a node that  *)
(* the sink has seen, that is pending, or that is still in the batch.      *)
LineStart(f, s) == s \in Nat /\ s < cursor[f] /\ (s = 0 \/ content[f][s] = NL)

InSink(f, s) == \E i \in 1 .. Len(Seen) : Seen[i] = [file |-> f, offset |-> s]

Covered(f, s) ==
  \/ InSink(f, s)
  \/ [file |-> f, offset |-> s] \in pending
  \/ out[f] # <<>> /\ from[f] <= s

CoverInv == \A f \in Files : Unrotated(f) => \A s : LineStart(f, s) => Covered(f, s)

NothingFailed == crashes = 0 /\ sinkErrors = 0 /\ faults = 0 /\ sink # "file"

SinkErrorsCounted == sinkErrors \in Nat

LEMMA SinkErrorsType == DaemonSpec => []SinkErrorsCounted
<1> USE DEF SinkErrorsCounted
<1>1. DaemonInit => SinkErrorsCounted
  BY DEF DaemonInit
<1>2. SinkErrorsCounted /\ [DaemonNext]_allVars => SinkErrorsCounted'
  <2> SUFFICES ASSUME sinkErrors \in Nat, [DaemonNext]_allVars
               PROVE  sinkErrors' = sinkErrors \/ sinkErrors' = sinkErrors + 1
    OBVIOUS
  <2> QED
    BY Zenon DEF DaemonNext, DaemonStart, DrainStep, WorldStep, WaitForBatch, PollBatch,
       PollTimeout, TakeBatch, EmitNode, Spill, FlushSink, SinkError, CtrlC, CleanExit,
       DaemonCrash, allVars, daemonVars
<1> HIDE DEF SinkErrorsCounted
<1> QED
  BY <1>1, <1>2, PTL DEF DaemonSpec

LEMMA CrashesCount ==
  ASSUME [Next]_vars
  PROVE  crashes' = crashes \/ Crash
<1>1. ASSUME NEW f \in Files, Drain(f) PROVE crashes' = crashes
  BY <1>1, Zenon DEF Drain, Stat, Open, Read, PollError, StoreFault, boundVars
<1>2. CASE World
  BY <1>2, Zenon DEF World, WriteByte, TruncateFile, RemoveFile, Discard, Debounce, WatchError,
                     boundVars
<1>3. CASE Startup \/ Recv \/ Return \/ Close \/ UNCHANGED vars
  BY <1>3, Zenon DEF Startup, Recv, Return, Close, boundVars, vars
<1> QED
  BY <1>1, <1>2, <1>3 DEF Next

(* A step after which nothing has failed did not fail, and drops nothing.  *)
LEMMA NoFailure ==
  ASSUME BookInv, sinkErrors \in Nat, [DaemonNext]_allVars, NothingFailed'
  PROVE  NothingFailed /\ ~SinkError /\ ~DaemonCrash /\ NothingDropped
<1>1. crashes \in Nat /\ faults \in Nat /\ TypeOK /\ [Next]_vars
  BY DaemonStepIsTailers DEF BookInv, ReadInv, TypeOK
<1>2. sinkErrors' = sinkErrors \/ (SinkError /\ sinkErrors' = sinkErrors + 1)
  BY Zenon DEF DaemonNext, DaemonStart, DrainStep, WorldStep, WaitForBatch, PollBatch,
     PollTimeout, TakeBatch, EmitNode, Spill, FlushSink, SinkError, CtrlC, CleanExit,
     DaemonCrash, allVars, daemonVars
<1>3. sink' = sink
  BY Zenon DEF DaemonNext, DaemonStart, DrainStep, WorldStep, WaitForBatch, PollBatch,
     PollTimeout, TakeBatch, EmitNode, Spill, FlushSink, SinkError, CtrlC, CleanExit,
     DaemonCrash, allVars, daemonVars
<1>4. crashes' = crashes \/ crashes' = crashes + 1
  BY <1>1, CrashesCount, Zenon DEF Crash
<1>5. ~SinkError /\ ~DaemonCrash
  <2>1. SinkError => sinkErrors' = sinkErrors + 1
    BY Zenon DEF SinkError
  <2>2. DaemonCrash => crashes' = crashes + 1
    BY Zenon DEF DaemonCrash, Crash
  <2> QED
    BY <1>1, <2>1, <2>2 DEF NothingFailed
<1>6. NothingFailed
  BY <1>1, <1>2, <1>3, <1>4, <1>5, FaultsGrow DEF NothingFailed
<1>7. NothingDropped
  BY <1>5, <1>6, SinkEmits, SinkKeeps DEF SinkLosesSome, NothingFailed
<1> QED
  BY <1>5, <1>6, <1>7

(* A pending node stays pending until the sink takes it.                   *)
LEMMA PendingReachesSink ==
  ASSUME BookInv, [DaemonNext]_allVars, ~SinkError, ~DaemonCrash,
         NEW f \in Files, NEW s \in Nat, [file |-> f, offset |-> s] \in pending
  PROVE  [file |-> f, offset |-> s] \in pending' \/ InSink(f, s)'
<1> DEFINE n == [file |-> f, offset |-> s]
<1>1. turn = "emit"
  BY DEF BookInv, CtrlInv
<1>2. CASE EmitNode
  <2>1. PICK m \in pending : pending' = pending \ {m} /\ SinkTakes(m)
    BY <1>2, SinkEmits DEF Emits
  <2>2. PICK k \in Nat : Len(Seen') = k + 1 /\ Seen'[k + 1] = m
    BY <2>1 DEF SinkTakes
  <2>3. k + 1 \in 1 .. Len(Seen')
    BY <2>2
  <2> QED
    BY <2>1, <2>2, <2>3 DEF InSink
<1>3. CASE ~EmitNode
  <2>1. ~TakeBatch /\ ~CleanExit
    BY <1>1 DEF TakeBatch, CleanExit
  <2>2. pending' = pending
    BY <1>3, <2>1, Zenon DEF DaemonNext, DaemonStart, DrainStep, WorldStep, WaitForBatch,
       PollBatch, PollTimeout, Spill, FlushSink, CtrlC, allVars, daemonVars
  <2> QED
    BY <2>2
<1> QED
  BY <1>2, <1>3

(* What is in the batch stays there until the batch is taken over.         *)
LEMMA BatchReachesPending ==
  ASSUME BookInv, [DaemonNext]_allVars, ~DaemonCrash, NEW f \in Files, BatchOfFile(f),
         Keeps(f) /\ (DrainStep => out'[f] = out[f] /\ from'[f] = from[f]),
         NEW s, LineStart(f, s), out[f] # <<>>, from[f] <= s
  PROVE  \/ [file |-> f, offset |-> s] \in pending'
         \/ out'[f] # <<>> /\ from'[f] <= s
<1>1. CASE DrainStep
  BY <1>1
<1>2. CASE TakeBatch
  <2>1. /\ s \in Nat /\ s < cursor[f] /\ (s = 0 \/ content[f][s] = NL)
        /\ from[f] \in Nat /\ cursor[f] \in Nat /\ Len(out[f]) \in Nat
        /\ from[f] + Len(out[f]) = cursor[f]
        /\ \A i \in 1 .. Len(out[f]) : out[f][i] = content[f][from[f] + i]
    BY LenProperties DEF LineStart, BookInv, ReadInv, TypeOK, NodesType, BatchOfFile
  <2>2. s - from[f] \in 0 .. Len(out[f]) - 1
    BY <2>1
  <2>3. s - from[f] = 0 \/ out[f][s - from[f]] = NL
    <3>1. CASE s - from[f] # 0
      <4>1. s - from[f] \in 1 .. Len(out[f]) /\ from[f] + (s - from[f]) = s /\ s # 0
        BY <2>1, <2>2, <3>1
      <4> QED
        BY <2>1, <4>1
    <3> QED
      BY <3>1
  <2>4. s - from[f] \in Starts(out[f]) /\ from[f] + (s - from[f]) = s
    BY <2>1, <2>2, <2>3 DEF Starts
  <2>5. pending' = NodesOf(out)
    BY <1>2, Zenon DEF TakeBatch
  <2> QED
    BY <2>4, <2>5, NodesOfBatch DEF BookInv, ReadInv, NodesType
<1>3. CASE ~DrainStep /\ ~TakeBatch
  <2>1. (out' = out /\ from' = from) \/ out[f] = <<>>
    BY <1>3, OtherSteps
  <2> QED
    BY <2>1
<1> QED
  BY <1>1, <1>2, <1>3

LEMMA CoverInvStep ==
  ASSUME BookInv, BookInv', StartInv, BatchInv, CoverInv, sinkErrors \in Nat,
         [DaemonNext]_allVars, NothingFailed'
  PROVE  CoverInv'
<1> SUFFICES ASSUME NEW f \in Files, gen'[f] = 0, NEW s, LineStart(f, s)'
             PROVE  Covered(f, s)'
  BY DEF CoverInv, Unrotated
<1>1. ~SinkError /\ ~DaemonCrash /\ NothingDropped
  BY NoFailure
<1>2. /\ gen[f] = 0 /\ TextGrows(f)
      /\ \/ Keeps(f) /\ (DrainStep => out'[f] = out[f] /\ from'[f] = from[f])
         \/ Takes(f) /\ DrainStep
  BY FileStep DEF NothingFailed
<1>3. BatchOfFile(f) /\ (LineStart(f, s) => Covered(f, s))
  BY <1>2 DEF BatchInv, CoverInv, Unrotated
<1>4. /\ cursor[f] \in Nat /\ Len(content[f]) \in Nat /\ s \in Nat /\ s < cursor'[f]
      /\ s = 0 \/ content'[f][s] = NL
  BY LenProperties DEF BookInv, ReadInv, TypeOK, LineStart
<1>5. ASSUME s < cursor[f] PROVE LineStart(f, s)
  <2>1. s # 0 => s \in 1 .. Len(content[f])
    BY <1>3, <1>4, <1>5 DEF BatchOfFile
  <2>2. s # 0 => content'[f][s] = content[f][s]
    BY <1>2, <2>1 DEF TextGrows
  <2> QED
    BY <1>4, <1>5, <2>2 DEF LineStart
<1>6. ASSUME InSink(f, s) PROVE InSink(f, s)'
  BY <1>1, <1>6 DEF InSink, NothingDropped
<1>7. ASSUME [file |-> f, offset |-> s] \in pending PROVE Covered(f, s)'
  BY <1>1, <1>4, <1>7, PendingReachesSink DEF Covered
<1>8. CASE Keeps(f) /\ (DrainStep => out'[f] = out[f] /\ from'[f] = from[f])
  <2>1. LineStart(f, s) /\ Covered(f, s)
    BY <1>3, <1>4, <1>5, <1>8 DEF Keeps
  <2>2. CASE out[f] # <<>> /\ from[f] <= s
    BY <1>1, <1>3, <1>8, <2>1, <2>2, BatchReachesPending DEF Covered
  <2> QED
    BY <1>6, <1>7, <2>1, <2>2 DEF Covered
<1>9. CASE Takes(f)
  <2>1. CASE s < cursor[f]
    BY <1>3, <1>5, <1>6, <1>7, <1>9, <2>1 DEF Covered, Takes
  <2>2. CASE ~(s < cursor[f])
    BY <1>4, <1>9, <2>2 DEF Covered, Takes
  <2> QED
    BY <2>1, <2>2
<1> QED
  BY <1>2, <1>8, <1>9

LEMMA CoverIsNothingSkipped ==
  ASSUME BookInv, BatchInv, CoverInv PROVE NothingSkipped
<1> SUFFICES ASSUME turn = "off" \/ (turn \in {"tail", "wait"} /\ pc = "idle"),
                    NEW f \in Files, Unrotated(f),
                    NEW s \in Starts(SubSeq(content[f], 1, cursor[f]))
             PROVE  \E i \in DOMAIN stored : stored[i] = [file |-> f, offset |-> s]
  BY DEF NothingSkipped
<1>1. /\ pending = {} /\ buffer = <<>> /\ out[f] = <<>>
  BY DEF BookInv, ReadInv, CtrlInv, NoBatchBetweenCalls
<1>2. Seen = stored /\ DOMAIN Seen = 1 .. Len(Seen)
  BY <1>1, SeenType DEF BookInv
<1>3. LineStart(f, s)
  <2> DEFINE t == SubSeq(content[f], 1, cursor[f])
  <2>1. content[f] \in Seq(Byte) /\ cursor[f] \in 0 .. Len(content[f]) /\ cursor[f] \in Nat
    BY LenProperties DEF BookInv, ReadInv, TypeOK, BatchInv, BatchOfFile
  <2>2. 1 \in Nat \ {0}
    OBVIOUS
  <2>3. /\ t \in Seq(Byte) /\ Len(t) = IF 1 <= cursor[f] THEN cursor[f] - 1 + 1 ELSE 0
        /\ \A i \in 1 .. cursor[f] - 1 + 1 : t[i] = content[f][1 + i - 1]
    BY <2>1, <2>2, PieceType
  <2>4. Len(t) = cursor[f] /\ \A i \in 1 .. cursor[f] : t[i] = content[f][i]
    BY <2>1, <2>3
  <2>5. s \in Nat /\ s < Len(t) /\ (s = 0 \/ t[s] = NL)
    BY <2>3, StartsType
  <2> HIDE DEF t
  <2>6. s # 0 => s \in 1 .. cursor[f]
    BY <2>1, <2>4, <2>5
  <2> QED
    BY <2>4, <2>5, <2>6 DEF LineStart
<1>4. InSink(f, s)
  BY <1>1, <1>3 DEF CoverInv, Covered
<1> QED
  BY <1>2, <1>4 DEF InSink

(* As long as nothing failed and the sink is not a file created anew at    *)
(* each start, every line the offset has passed is in the sink whenever no *)
(* batch is in progress.                                                   *)
THEOREM SinkMissesNothing == DaemonSpec => []NothingSkippedUnlessItFailed
<1> DEFINE Inv == NothingFailed => CoverInv
           OrderOk == faults = 0 => StartInv /\ BatchInv /\ OrderInv
<1>1. DaemonInit => Inv
  <2>1. DaemonInit => \A f \in Files, s \in Nat : ~(s < cursor[f])
    BY DEF DaemonInit, Init
  <2> QED
    BY <2>1 DEF CoverInv, LineStart
<1>2. /\ BookInv /\ BookInv' /\ OrderOk /\ SinkErrorsCounted /\ Inv
      /\ [DaemonNext]_allVars
      => Inv'
  <2> SUFFICES ASSUME BookInv, BookInv', OrderOk, SinkErrorsCounted, Inv,
                      [DaemonNext]_allVars, NothingFailed'
               PROVE  CoverInv'
    OBVIOUS
  <2>1. NothingFailed /\ sinkErrors \in Nat
    BY NoFailure DEF SinkErrorsCounted
  <2> QED
    BY <2>1, CoverInvStep DEF NothingFailed
<1>3. BookInv /\ OrderOk /\ Inv => NothingSkippedUnlessItFailed
  BY CoverIsNothingSkipped DEF NothingSkippedUnlessItFailed, NothingFailed
<1> HIDE DEF Inv
<1> QED
  BY <1>1, <1>2, <1>3, DaemonBook, DaemonOrder, SinkErrorsType, PTL DEF DaemonSpec
=============================================================================
