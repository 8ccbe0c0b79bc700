---------------------------- MODULE RecordReader ----------------------------
(***************************************************************************)
(* How bytes become records: the loop of read_records_from_bytes, run on a *)
(* whole file by the one-shot commands (records.rs) and on each appended   *)
(* piece by poll_new_records (tailer.rs), which rebases the offsets of the *)
(* piece and persists where the next one begins.                           *)
(*                                                                         *)
(* The state is one transcript that grows while readers work on the bytes  *)
(* they took from it; read errors, rotation and crashes are Tailer's       *)
(* subject, decompression is left out.                                     *)
(***************************************************************************)
EXTENDS Naturals, Sequences, SequencesExt

CONSTANTS Byte,    \* the bytes of a transcript
          NL,      \* the newline byte
          MaxLen   \* bound: bytes in the transcript

ASSUME ReaderAssumption == NL \in Byte /\ MaxLen \in Nat

VARIABLES text,     \* the transcript
          cursor,   \* the persisted offset
          polled,   \* the records returned by the polls so far
          pc,       \* "idle", or who runs the loop: "once" or "poll"
          buf,      \* the bytes being split
          i,        \* how many of them the loop has looked at
          start,    \* where the current line begins in buf
          offset,   \* the byte offset the next record gets
          line_no,  \* and its line number
          out       \* the records of buf found so far

loopVars == <<buf, i, start, offset, line_no, out>>
vars == <<text, cursor, polled, pc, loopVars>>

(* A RawRecord: its bytes and its SourceLocation.                          *)
Record(bytes, byteOffset, lineNo) ==
  [bytes |-> bytes, byte_offset |-> byteOffset, line_no |-> lineNo]

(* The lets before the loop.                                               *)
Begin(bytes) ==
  /\ buf' = bytes
  /\ i' = 0
  /\ start' = 0
  /\ offset' = 0
  /\ line_no' = 1
  /\ out' = <<>>

(* The bytes from start up to the one at i, as a record.                   *)
CurrentLine == Record(SubSeq(buf, start + 1, i), offset, line_no)

(* One turn of the loop: a newline closes the line begun at start.         *)
SplitByte ==
  /\ pc # "idle"
  /\ i < Len(buf)
  /\ i' = i + 1
  /\ IF buf[i + 1] = NL
     THEN /\ out' = Append(out, CurrentLine)
          /\ offset' = i + 1
          /\ line_no' = line_no + 1
          /\ start' = i + 1
     ELSE UNCHANGED <<out, offset, line_no, start>>
  /\ UNCHANGED <<text, cursor, polled, pc, buf>>

LoopDone == pc # "idle" /\ i = Len(buf)

(* Broken variant, for mutation only: the unterminated last line is lost.  *)
TerminatedOnly == out

(* What the loop returns: bytes after the last newline are a record too.   *)
Records == IF start < Len(buf) THEN Append(out, CurrentLine) ELSE out

(* One past the last newline of bytes, or 0.                               *)
Consumable(bytes) ==
  LET IsNewline(b) == b = NL
  IN  SelectLastInSeq(bytes, IsNewline)

Unread == SubSeq(text, cursor + 1, Len(text))

(* Broken variant, for mutation only: offsets stay relative to the piece.  *)
NoRebase(rec) == rec

(* poll_new_records shifts the byte offset of each record, nothing else.   *)
Rebase(rec) == [rec EXCEPT !.byte_offset = @ + cursor]

Init ==
  /\ text = <<>> /\ cursor = 0 /\ polled = <<>> /\ pc = "idle"
  /\ buf = <<>> /\ i = 0 /\ start = 0 /\ offset = 0 /\ line_no = 1 /\ out = <<>>

(* A tool appends, whatever a reader is doing.                             *)
Grow(b) ==
  /\ Len(text) < MaxLen
  /\ text' = Append(text, b)
  /\ UNCHANGED <<cursor, polled, pc, loopVars>>

(* read_records takes the file as it is now.                               *)
ReadOnce ==
  /\ pc = "idle"
  /\ pc' = "once"
  /\ Begin(text)
  /\ UNCHANGED <<text, cursor, polled>>

ReturnOnce ==
  /\ pc = "once" /\ LoopDone
  /\ pc' = "idle"
  /\ UNCHANGED <<text, cursor, polled, loopVars>>

(* poll_new_records takes the unread bytes up to the last newline, if any. *)
Poll ==
  /\ pc = "idle"
  /\ Consumable(Unread) > 0
  /\ pc' = "poll"
  /\ Begin(SubSeq(Unread, 1, Consumable(Unread)))
  /\ UNCHANGED <<text, cursor, polled>>

ReturnPoll ==
  /\ pc = "poll" /\ LoopDone
  /\ pc' = "idle"
  /\ polled' = polled \o [k \in DOMAIN Records |-> Rebase(Records[k])]
  /\ cursor' = cursor + Len(buf)
  /\ UNCHANGED <<text, loopVars>>

Next ==
  \/ \E b \in Byte : Grow(b)
  \/ ReadOnce \/ ReturnOnce
  \/ Poll \/ ReturnPoll
  \/ SplitByte

Spec == Init /\ [][Next]_vars
-----------------------------------------------------------------------------
RecordType == [bytes : Seq(Byte), byte_offset : Nat, line_no : Nat]

(* The types of the variables; every position is inside its text.          *)
TypeOK ==
  /\ text \in Seq(Byte) /\ Len(text) <= MaxLen
  /\ cursor \in 0 .. Len(text)
  /\ polled \in Seq(RecordType) /\ out \in Seq(RecordType)
  /\ pc \in {"idle", "once", "poll"}
  /\ buf \in Seq(Byte)
  /\ i \in 0 .. Len(buf) /\ start \in 0 .. i /\ offset \in Nat /\ line_no \in Nat

(* The reference, without any loop. EndOf is where a record's bytes end,   *)
(* After is where the next record begins, the newline being skipped.       *)
EndOf(r) == r.byte_offset + Len(r.bytes)
After(r) == EndOf(r) + 1

(* r is one whole line of the first n bytes of t: no newline inside, and   *)
(* it runs to the next newline or to n.                                    *)
IsLine(r, t, n) ==
  /\ r.byte_offset < n
  /\ EndOf(r) <= n
  /\ \A j \in 1 .. Len(r.bytes) :
       r.bytes[j] = t[r.byte_offset + j] /\ r.bytes[j] # NL
  /\ EndOf(r) < n => t[EndOf(r) + 1] = NL

Follows(recs) ==
  \A k \in 1 .. Len(recs) :
    recs[k].byte_offset = IF k = 1 THEN 0 ELSE After(recs[k - 1])

Reached(recs) == IF recs = <<>> THEN 0 ELSE After(recs[Len(recs)])

(* recs are the lines of the first n bytes of t: all of them, each once,   *)
(* in order, empty ones included.                                          *)
AreLines(recs, t, n) ==
  /\ Follows(recs)
  /\ \A k \in 1 .. Len(recs) : IsLine(recs[k], t, n)
  /\ n <= Reached(recs)

(* The reader splits any bytes, blank and unterminated lines included,     *)
(* into exactly their lines, with the byte offset of each and line numbers *)
(* from 1 (records.rs:12-14).                                              *)
SplitMatchesReference ==
  LoopDone => /\ AreLines(Records, buf, Len(buf))
              /\ \A k \in 1 .. Len(Records) : Records[k].line_no = k

(* However the file grew between and during polls, the polls together have *)
(* returned the lines of the part of the file up to the persisted offset,  *)
(* at file-absolute offsets (tailer.rs:46-49): the records one reading of  *)
(* that part would give, so an offset can be replayed against the source.  *)
(* Nothing is said of line numbers, every poll counts its lines from 1.    *)
PollsMatchOneReading == AreLines(polled, text, cursor)
=============================================================================
