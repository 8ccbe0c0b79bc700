------------------------------- MODULE Cursor -------------------------------
(***************************************************************************)
(* The Cursor adapter: exported records, and the bubbles of its key-value  *)
(* store read as chat records.                                             *)
(*                                                                         *)
(* rec is a chat record with one field more, blocks: the content blocks    *)
(* [type, text, id, name] of an export that has no flat text. A store is   *)
(* [composers, bubbles], sets of rows, json saying whether a row is any.   *)
(* A composer is [json, id, ts, headers], a bubble [json, composer, id,    *)
(* type, texts, created, tool]. The id of a bubble is <<"bubble", n>>, of  *)
(* a composer <<"session", n>>, ordered by n; created is 0 for none; texts *)
(* are its text and its rich text, "" for none. tool is NoTool or [call,   *)
(* model_call, name, status, raw, params], the last two the paths [path,   *)
(* relative, target] among its arguments.                                  *)
(***************************************************************************)
EXTENDS ChatRecord

NoPaths == [path |-> None, relative |-> None, target |-> None]

NoTool ==
  [call |-> NoId, model_call |-> NoId, name |-> None, status |-> None,
   raw |-> NoPaths, params |-> NoPaths]

(* Broken variant, for mutation only: the place in the stream is the id.   *)
EventIdAtLine(raw) == <<"line", raw.line>>

EventIdFor(raw) == NativeId(raw.rec.id, raw)

-----------------------------------------------------------------------------
(* A composer that is no JSON, or has no id, is left out.                  *)
LoadComposers(store) ==
  SetToSortSeq({c \in store.composers : c.json /\ c.id # NoId},
               LAMBDA a, b : a.id[2] < b.id[2])

(* A bubble that is no JSON is one that says nothing.                      *)
StubBubble(bubble) ==
  [bubble EXCEPT !.type = 0, !.texts = <<>>, !.created = 0, !.tool = NoTool]

LoadBubbles(store, composer) ==
  {IF b.json THEN b ELSE StubBubble(b) :
     b \in {c \in store.bubbles : c.composer = composer.id}}

(* The place of a bubble among the composer's headers, else after them.    *)
Rank(composer, bubble) ==
  LET at == {i \in DOMAIN composer.headers : composer.headers[i] = bubble.id}
  IN  IF at = {} THEN Len(composer.headers) + 1
      ELSE CHOOSE i \in at : \A j \in at : i >= j

Before(composer, a, b) ==
  LET key(x) == <<Rank(composer, x), x.created, x.id[2]>>
  IN  \E i \in 1..3 :
        /\ key(a)[i] < key(b)[i]
        /\ \A j \in 1..(i - 1) : key(a)[j] = key(b)[j]

(* Broken variant, for mutation only: the headers are not asked.           *)
OrderByTime(composer, bubbles) ==
  SetToSortSeq(bubbles, LAMBDA a, b : Before([composer EXCEPT !.headers = <<>>], a, b))

OrderBubbles(composer, bubbles) ==
  SetToSortSeq(bubbles, LAMBDA a, b : Before(composer, a, b))

CallId(tool) ==
  OrElse(FirstGiven(<<tool.call, tool.model_call>>, NoId), <<"toolcall", tool.name>>)

(* A call still loading counts as a success.                               *)
Ok(tool) == tool.status \notin {"error", "cancelled"}

IsEditTool(name) ==
  name \in {"edit_file", "edit_file_v2", "search_replace", "write", "create_file",
            "apply_patch", "apply_diff", "reapply"}

(* The first path given, in the order the arguments are asked.             *)
EditPath(raw, params) ==
  FirstGiven(<<raw.path, params.relative, params.path, raw.relative,
               raw.target, params.target>>, None)

NormalizeTool(record, tool) ==
  LET path == EditPath(tool.raw, tool.params)
  IN  [record EXCEPT
         !.calls   = <<[id |-> CallId(tool), name |-> tool.name]>>,
         !.results = <<[id |-> CallId(tool), ok |-> Ok(tool)]>>,
         !.edits   = IF IsEditTool(tool.name) /\ path # None
                     THEN <<[call |-> CallId(tool), path |-> path]>> ELSE <<>>]

EmptyRecord ==
  [type |-> None, id |-> NoId, parent |-> NoId, session |-> NoId, cwd |-> ".",
   ts |-> <<>>, role |-> None, text |-> <<>>, thinking |-> <<>>, calls |-> <<>>,
   results |-> <<>>, edits |-> <<>>, blocks |-> <<>>]

NormalizeBubble(bubble) ==
  LET record == [EmptyRecord EXCEPT
        !.id      = bubble.id,
        !.session = bubble.composer,
        !.ts      = <<bubble.created>>,
        !.role    = CASE bubble.type = 1 -> "user"
                      [] bubble.type = 2 -> "assistant"
                      [] OTHER           -> "unknown",
        !.text    = <<FirstGiven(bubble.texts, "")>>]
  IN  IF bubble.tool = NoTool THEN record ELSE NormalizeTool(record, bubble.tool)

HeaderRecord(composer) ==
  [EmptyRecord EXCEPT !.type = "session_start", !.session = composer.id,
                      !.ts = <<TsFrom(composer.ts)>>]

ComposerRecords(store, composer) ==
  LET bubbles == OrderBubbles(composer, LoadBubbles(store, composer))
  IN  <<HeaderRecord(composer)>>
      \o [i \in DOMAIN bubbles |-> NormalizeBubble(bubbles[i])]

ReadVscdb(store) ==
  LET composers == LoadComposers(store)
      records   == FlattenSeq([i \in DOMAIN composers |-> ComposerRecords(store, composers[i])])
  IN  [i \in DOMAIN records |-> [rec |-> records[i], line |-> i]]

-----------------------------------------------------------------------------
(* Broken variant, for mutation only: the first session is kept.           *)
LatchSession(ctx, rec) == LearnSession(ctx, rec.session)

(* The session of the context is the one of the record at hand.            *)
TrackSession(ctx, rec) == [ctx EXCEPT !.session_id = OrElse(rec.session, @)]

ParseSessionStart(ctx, raw) ==
  MkNew([ctx EXCEPT !.project = raw.rec.cwd], raw,
        Draft(EventIdFor(raw), NoId, SessionStart(raw.rec.cwd)))

ParseSessionEnd(ctx, raw) ==
  MkNew(ctx, raw, Draft(EventIdFor(raw), raw.rec.parent, SessionEnd))

(* The blocks of an export stand for the text and the calls of a chat      *)
(* record; a call without an id gets the index of its block.               *)
NormalizeContentBlockMessage(rec) ==
  LET texts == SelectSeq(rec.blocks, LAMBDA b : b.type = "text")
      uses  == SetToSortSeq({i \in DOMAIN rec.blocks : rec.blocks[i].type = "tool_use"},
                            LAMBDA i, j : i < j)
  IN  IF rec.blocks = <<>> THEN rec
      ELSE [rec EXCEPT
        !.text  = Joined([i \in DOMAIN texts |-> texts[i].text]),
        !.calls = [k \in DOMAIN uses |->
                     [id   |-> OrElse(rec.blocks[uses[k]].id, <<"block", uses[k]>>),
                      name |-> rec.blocks[uses[k]].name]]]

ToolCalls(rec, base) ==
  DraftsOf(rec.calls, LAMBDA c, i :
    LET call == OrElse(c.id, <<"call", base, i>>)
    IN  Draft(<<"toolcall", base, call>>, base, ToolCall(call, c.name)))

ToolResults(rec, base) ==
  DraftsOf(rec.results, LAMBDA r, i :
    LET call == OrElse(r.id, <<"result", base, i>>)
    IN  Draft(<<"toolresult", base, call>>, base, ToolResult(call, r.ok)))

FileEdits(rec, base) ==
  DraftsOf(rec.edits, LAMBDA e, i :
    Draft(<<"edit", base, i>>, base, FileEdit(e.call, e.path)))

(* A role nobody knows still has its parts.                                *)
ParseMessage(ctx, raw, rec) ==
  LET base == EventIdFor(raw)
      turn == IF rec.role \in {"user", "assistant"} THEN TurnKind(rec) ELSE Unknown
  IN  IF Seen(ctx, base) THEN ctx
      ELSE MkAllNew(ctx, raw,
             <<Draft(base, rec.parent, turn)>>
             \o ToolCalls(rec, base) \o ToolResults(rec, base) \o FileEdits(rec, base))

ParseObject(ctx, raw) ==
  CASE raw.rec.type = "session_start" -> ParseSessionStart(ctx, raw)
    [] raw.rec.type = "session_end"   -> ParseSessionEnd(ctx, raw)
    [] OTHER -> IF raw.rec.role = None THEN UnknownEvent(ctx, raw)
                ELSE ParseMessage(ctx, raw, NormalizeContentBlockMessage(raw.rec))

Parse(ctx, raw) ==
  IF IsNoJson(raw.rec) THEN StubParse(ctx, raw)
  ELSE ParseObject(TrackSession(ctx, raw.rec), raw)
=============================================================================
