-------------------------------- MODULE Otel --------------------------------
(***************************************************************************)
(* The OpenTelemetry adapter: one log record or span a line, its           *)
(* attributes flat on the record or in an OTLP list.                       *)
(*                                                                         *)
(* rec: [type, nested, op, span, session, cwd, ts, prompt, inputs,         *)
(* outputs, call, tool, status, error, result, path]. op is the operation  *)
(* the attributes name, span the name of the record itself; inputs is a    *)
(* sequence of [role, text], outputs one of texts; error and result say    *)
(* whether such an attribute is there. Models and token counts are left    *)
(* out.                                                                    *)
(***************************************************************************)
EXTENDS AdapterCtx

DeriveId(raw, kind, index) == <<"derived", ContentId(raw), kind, index>>

(* Attrs: an OTLP list hides the fields of the record around it.           *)
OperationName(rec) ==
  IF rec.op # None THEN rec.op ELSE IF rec.nested THEN None ELSE rec.span

(* "unset" when the span reports nothing of an outcome.                    *)
ToolOk(rec) ==
  CASE rec.status # None -> IF rec.status = "error" THEN "failed" ELSE "ok"
    [] rec.status = None /\ rec.error -> "failed"
    [] rec.status = None /\ ~rec.error /\ rec.result -> "ok"
    [] OTHER -> "unset"

(* An event made only to be dropped as known takes a number all the same.  *)
MkOnce(ctx, raw, draft) ==
  IF Seen(ctx, draft.id) THEN AllocSeq(ctx)
  ELSE MkEvent(Mark(ctx, draft.id), raw, draft)

Dedup(ctx, raw, drafts) == FoldLeft(LAMBDA c, d : MkOnce(c, raw, d), ctx, drafts)

Unrecognized(raw) == <<Draft(ContentId(raw), NoId, Unknown)>>

-----------------------------------------------------------------------------
SessionStartDrafts(raw) ==
  <<Draft(DeriveId(raw, "session_start", 0), NoId, SessionStart(raw.rec.cwd))>>

ExecuteTool(raw) ==
  LET rec  == raw.rec
      call == NativeId(rec.call, raw)
  IN  <<Draft(DeriveId(raw, "tool_call", 0), NoId, ToolCall(call, rec.tool))>>
      \o (IF ToolOk(rec) = "unset" THEN <<>>
          ELSE <<Draft(DeriveId(raw, "tool_result", 0), NoId,
                       ToolResult(call, ToolOk(rec) = "ok"))>>)
      \o (IF rec.path = None THEN <<>>
          ELSE <<Draft(DeriveId(raw, "file_edit", 0), NoId, FileEdit(call, rec.path))>>)

FileOperation(raw) ==
  IF raw.rec.path = None THEN Unrecognized(raw)
  ELSE <<Draft(DeriveId(raw, "file_edit", 0), NoId, FileEdit(NoId, raw.rec.path))>>

(* The prompt, the inputs of the user, the outputs; the index of a message *)
(* in its list is part of its id.                                          *)
UserInputs(raw) ==
  LET at == SetToSortSeq({i \in DOMAIN raw.rec.inputs : raw.rec.inputs[i].role = "user"},
                         LAMBDA i, j : i < j)
  IN  [k \in DOMAIN at |-> Draft(DeriveId(raw, "input_msg", at[k]), NoId,
                                 UserTurn(raw.rec.inputs[at[k]].text))]

Dialogue(raw) ==
  LET rec    == raw.rec
      prompt == IF rec.prompt \in {None, ""} THEN <<>>
                ELSE <<Draft(DeriveId(raw, "user_prompt", 0), NoId, UserTurn(rec.prompt))>>
      turns  == prompt \o UserInputs(raw)
                \o [i \in DOMAIN rec.outputs |->
                      Draft(DeriveId(raw, "output_msg", i), NoId,
                            AssistantTurn(rec.outputs[i], <<>>))]
  IN  IF turns = <<>> THEN Unrecognized(raw) ELSE turns

-----------------------------------------------------------------------------
(* The first session.start binds the project, before its event is made.    *)
BindProject(ctx, raw) ==
  IF OperationName(raw.rec) = "session.start" /\ ctx.project = None
  THEN [ctx EXCEPT !.project = raw.rec.cwd] ELSE ctx

Drafts(raw) ==
  CASE OperationName(raw.rec) = "session.start"  -> SessionStartDrafts(raw)
    [] OperationName(raw.rec) = "session.end"    ->
         <<Draft(DeriveId(raw, "session_end", 0), NoId, SessionEnd)>>
    [] OperationName(raw.rec) = "execute_tool"   -> ExecuteTool(raw)
    [] OperationName(raw.rec) = "file_operation" -> FileOperation(raw)
    [] OTHER                                     -> Dialogue(raw)

Parse(ctx, raw) ==
  IF IsNoJson(raw.rec) THEN StubParse(ctx, raw)
  ELSE Dedup(BindProject(LearnSession(ctx, raw.rec.session), raw), raw, Drafts(raw))
=============================================================================
