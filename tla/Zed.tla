-------------------------------- MODULE Zed --------------------------------
(***************************************************************************)
(* The Zed adapter: the rows of threads.db read as chat records, and those *)
(* parsed.                                                                 *)
(*                                                                         *)
(* A store is a set of threads [id, created, updated, label, data]. data   *)
(* is [empty, magic, unzipped, raw]: whether it begins like a zstd frame   *)
(* and the value each decoder makes of it, <<>> for none. A value is       *)
(* [object, has, messages], has saying whether "messages" is among its     *)
(* keys. A message is [tag, role, id, ts, content, segments, text,         *)
(* thinking, uses, results, listed]: content and segments are <<>> or hold *)
(* the list of that name, of segments [kind, text, use]; a use is [id,     *)
(* name, edits, args], edits saying whether its name is one of an edit,    *)
(* args the arguments [path, hunks] under each name they may have; results *)
(* is a set, with keys, or listed, in order; both of [key, id, error, ok]. *)
(* Ids of messages never look like an index.                               *)
(***************************************************************************)
EXTENDS ChatRecord

EventIdFor(raw) == NativeId(raw.rec.id, raw)

-----------------------------------------------------------------------------
EmptyRecord ==
  [type |-> None, id |-> NoId, parent |-> NoId, session |-> NoId, cwd |-> ".",
   ts |-> <<>>, role |-> None, text |-> <<>>, thinking |-> <<>>, calls |-> <<>>,
   results |-> <<>>, edits |-> <<>>]

(* A message under one of the two tags, or with a role of its own.         *)
RoleOf(message) ==
  CASE message.tag = "User"  -> "user"
    [] message.tag = "Agent" -> "assistant"
    [] OTHER -> CASE message.role \in {"user", "User"} -> "user"
                  [] message.role \in {"assistant", "Assistant", "Agent"} -> "assistant"
                  [] OTHER -> message.role

ClassifySegment(seg) ==
  CASE seg.kind \in {"Text", "bare"} -> "text"
    [] seg.kind = "Thinking"         -> "thinking"
    [] OTHER                         -> "other"

ClassifyLegacy(seg) ==
  IF seg.kind \in {"thinking", "redacted_thinking"} THEN "thinking" ELSE "text"

TextsOf(segments) == Joined([i \in DOMAIN segments |-> segments[i].text])

(* The segments of one of the two encodings, else the flat field.          *)
CollectText(message, class, flat) ==
  LET found ==
        IF message.content # <<>>
        THEN SelectSeq(message.content[1], LAMBDA seg : ClassifySegment(seg) = class)
        ELSE IF message.segments # <<>>
        THEN SelectSeq(message.segments[1], LAMBDA seg : ClassifyLegacy(seg) = class)
        ELSE <<>>
  IN  IF TextsOf(found) = <<>> THEN flat ELSE TextsOf(found)

(* The uses among the segments, else the list older versions had.          *)
UsesOf(message) ==
  LET inline == IF message.content = <<>> THEN <<>>
                ELSE SelectSeq(message.content[1], LAMBDA seg : seg.kind = "ToolUse")
  IN  IF inline = <<>> THEN message.uses ELSE [i \in DOMAIN inline |-> inline[i].use]

UseId(uses, i) == OrElse(uses[i].id, <<"toolcall", i>>)

ArgsOf(use) ==
  LET args == FirstGiven(use.args, <<>>)
  IN  IF args = <<>> THEN [path |-> None, hunks |-> 0] ELSE args[1]

(* An edit for each hunk, one when there is none, each tied to its call.   *)
EditsFromTool(use, call) ==
  LET args == ArgsOf(use)
  IN  IF ~use.edits \/ args.path = None THEN <<>>
      ELSE [h \in 1 .. (IF args.hunks = 0 THEN 1 ELSE args.hunks) |->
              [call |-> call, path |-> args.path]]

CollectEdits(uses) ==
  FlattenSeq([i \in DOMAIN uses |-> EditsFromTool(uses[i], UseId(uses, i))])

CollectCalls(uses) ==
  [i \in DOMAIN uses |-> [id |-> UseId(uses, i), name |-> uses[i].name]]

(* Failed by is_error, else by ok; a result that has neither went well.    *)
ResultObject(result, default) ==
  [id |-> OrElse(result.id, default),
   ok |-> IF result.error # None THEN result.error = "no" ELSE result.ok # "no"]

(* A map of results is read in the order of its keys. A bare id in a list  *)
(* is a result that says nothing else.                                     *)
CollectResults(message) ==
  LET keyed == SetToSortSeq(message.results, LAMBDA a, b : a.key[2] < b.key[2])
  IN  IF keyed # <<>>
      THEN [i \in DOMAIN keyed |-> ResultObject(keyed[i], keyed[i].key)]
      ELSE [i \in DOMAIN message.listed |->
              ResultObject(message.listed[i], <<"toolresult", i>>)]

(* A message without a time has the time of its thread's last change.      *)
MessageRecord(thread, message, i) ==
  LET uses == UsesOf(message)
  IN  [EmptyRecord EXCEPT
         !.id       = <<"msg", thread.id, OrElse(message.id, <<"index", i>>)>>,
         !.session  = thread.id,
         !.ts       = IF message.ts = <<>> THEN thread.updated ELSE message.ts,
         !.role     = RoleOf(message),
         !.text     = CollectText(message, "text", message.text),
         !.thinking = CollectText(message, "thinking", message.thinking),
         !.calls    = CollectCalls(uses),
         !.edits    = CollectEdits(uses),
         !.results  = CollectResults(message)]

HeaderRecord(thread) ==
  [EmptyRecord EXCEPT
     !.type = "session_start", !.session = thread.id,
     !.ts = IF thread.created = <<>> THEN thread.updated ELSE thread.created]

(* The label and the first bytes say which decoder is tried first; when it *)
(* fails the other one is.                                                 *)
DecodeThreadBlob(thread) ==
  LET data  == thread.data
      tried == IF thread.label = "zstd" \/ data.magic
               THEN data.unzipped \o data.raw ELSE data.raw \o data.unzipped
  IN  IF data.empty \/ tried = <<>> THEN <<>> ELSE <<Head(tried)>>

(* A blob nobody can read leaves a record that says so.                    *)
BlobRecord(thread) ==
  [EmptyRecord EXCEPT !.type = "zed_thread_blob", !.session = thread.id]

(* Messages of no known shape are left out.                                *)
ExpandThread(thread) ==
  LET blob  == DecodeThreadBlob(thread)
      list  == IF blob = <<>> \/ ~blob[1].object THEN <<>> ELSE blob[1].messages
      known == SetToSortSeq({i \in DOMAIN list : RoleOf(list[i]) # None}, <)
      odd   == IF blob = <<>> THEN ~thread.data.empty ELSE ~(blob[1].object /\ blob[1].has)
  IN  <<HeaderRecord(thread)>>
      \o [k \in DOMAIN known |-> MessageRecord(thread, list[known[k]], known[k])]
      \o (IF list = <<>> /\ odd THEN <<BlobRecord(thread)>> ELSE <<>>)

(* The threads changed last come last.                                     *)
ByUpdate(threads) ==
  SetToSortSeq(threads, LAMBDA a, b :
    \/ Head(a.updated) < Head(b.updated)
    \/ Head(a.updated) = Head(b.updated) /\ a.id[2] < b.id[2])

ReadThreadsDb(store) ==
  LET threads == ByUpdate(store)
      records == FlattenSeq([i \in DOMAIN threads |-> ExpandThread(threads[i])])
  IN  [i \in DOMAIN records |-> [rec |-> records[i], line |-> i]]

-----------------------------------------------------------------------------
(* Every header moves the context to its thread.                           *)
ParseSessionStart(ctx, raw) ==
  MkNew([ctx EXCEPT !.session_id = OrElse(raw.rec.session, @), !.project = raw.rec.cwd],
        raw, Draft(EventIdFor(raw), NoId, SessionStart(raw.rec.cwd)))

ParseSessionEnd(ctx, raw) ==
  MkNew(ctx, raw, Draft(EventIdFor(raw), raw.rec.parent, SessionEnd))

ToolCalls(rec, base) ==
  DraftsOf(rec.calls, LAMBDA c, i :
    LET call == OrElse(c.id, <<"call", base, i>>)
    IN  Draft(<<"call_of", base, call>>, base, ToolCall(call, c.name)))

ToolResults(rec, base) ==
  DraftsOf(rec.results, LAMBDA r, i :
    LET call == OrElse(r.id, <<"res", base, i>>)
    IN  Draft(<<"result_of", base, call>>, base, ToolResult(call, r.ok)))

SoleToolCallId(rec) == IF Len(rec.calls) = 1 THEN rec.calls[1].id ELSE NoId

FileEdits(rec, base) ==
  DraftsOf(rec.edits, LAMBDA e, i :
    Draft(<<"edit", base, i>>, base, FileEdit(OrElse(e.call, SoleToolCallId(rec)), e.path)))

ParseMessage(ctx, raw) ==
  LET rec  == raw.rec
      base == EventIdFor(raw)
  IN  CASE Seen(ctx, base) -> ctx
        [] ~Seen(ctx, base) /\ rec.role \in {"user", "assistant"} ->
             MkAllNew(ctx, raw,
               <<Draft(base, rec.parent, TurnKind(rec))>>
               \o ToolCalls(rec, base) \o ToolResults(rec, base) \o FileEdits(rec, base))
        [] ~Seen(ctx, base) /\ rec.role \notin {"user", "assistant"} ->
             UnknownEvent(Mark(ctx, base), raw)

ParseObject(ctx, raw) ==
  CASE raw.rec.type = "session_start" -> ParseSessionStart(ctx, raw)
    [] raw.rec.type = "session_end"   -> ParseSessionEnd(ctx, raw)
    [] raw.rec.type = None /\ raw.rec.role # None -> ParseMessage(ctx, raw)
    [] OTHER -> UnknownEvent(ctx, raw)

(* Any record that names a session names the context's, if it has none.    *)
Parse(ctx, raw) ==
  IF IsNoJson(raw.rec) THEN StubParse(ctx, raw)
  ELSE ParseObject(LearnSession(ctx, raw.rec.session), raw)
=============================================================================
