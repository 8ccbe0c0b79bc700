------------------------------- MODULE Codex -------------------------------
(***************************************************************************)
(* The Codex adapter: a rollout file holds the model's items, the events   *)
(* of the user interface that repeat some of them, and session headers.    *)
(*                                                                         *)
(* rec: [type, item, id, call, session, cwd, ts, role, text, name, args,   *)
(* output, success, paths]. type and item are the record's and its         *)
(* payload's; call is NoId when the payload names none. args: [input,      *)
(* patch, bare], the text under those names, or all there is, as lines     *)
(* [header, path], <<>> for none. output: [shape, flags, lines], shape is  *)
(* text, object, false or other; flags: what success, ok, an exit code and *)
(* the one in metadata say, "good", "bad" or None; lines: "exit 0",        *)
(* "exit 1", "error" or another word. For an MCP call flags hold what Ok   *)
(* and Err say. paths: the keys of changes, sorted. Line counts, models    *)
(* and git are left out.                                                   *)
(***************************************************************************)
EXTENDS AdapterCtx

ItemEventId(raw) == NativeId(raw.rec.id, raw)

CallEventId(raw) == OrElse(raw.rec.call, ItemEventId(raw))

-----------------------------------------------------------------------------
(* Unlike every other adapter, a later header replaces the session and the *)
(* project, also when its event was made before.                           *)
ParseSessionMeta(ctx, raw) ==
  LET session == OrElse(raw.rec.session, ctx.session_id)
      id      == IF session = NoId THEN ContentId(raw) ELSE <<"session_meta", session>>
      bound   == [ctx EXCEPT !.session_id = session, !.project = raw.rec.cwd]
  IN  MkNew(bound, raw, Draft(id, NoId, SessionStart(raw.rec.cwd)))

(* A message of another role is marked as seen before it is left unknown.  *)
ParseMessage(ctx, raw) ==
  LET id == ItemEventId(raw)
  IN  CASE raw.rec.role = "user" -> MkNew(ctx, raw, Draft(id, NoId, UserTurn(raw.rec.text)))
        [] raw.rec.role = "assistant" ->
             MkNew(ctx, raw, Draft(id, NoId, AssistantTurn(raw.rec.text, <<>>)))
        [] raw.rec.role \notin {"user", "assistant"} ->
             IF Seen(ctx, id) THEN ctx ELSE UnknownEvent(Mark(ctx, id), raw)

(* Reasoning is a turn when its summary has words, else unknown.           *)
SummaryText(rec) == Joined(rec.text)

ParseReasoning(ctx, raw) ==
  IF SummaryText(raw.rec) = <<>> THEN UnknownEvent(ctx, raw)
  ELSE MkNew(ctx, raw,
             Draft(ItemEventId(raw), NoId, AssistantTurn(<<>>, SummaryText(raw.rec))))

-----------------------------------------------------------------------------
(* The first text given, of those that the arguments may hold it under.    *)
ExtractPatchText(args) == FirstGiven(<<args.input, args.patch, args.bare>>, <<>>)

(* Every header opens a section; what stands before the first is dropped.  *)
ParseV4aPatch(lines) == SelectSeq(lines, LAMBDA line : line.header)

(* The legacy patch: one edit per path, however many sections it has.      *)
EmitV4aEdits(raw, base) ==
  LET sections == ParseV4aPatch(ExtractPatchText(raw.rec.args))
  IN  [i \in DOMAIN sections |->
         Draft(<<"edit", base, sections[i].path>>, raw.rec.call,
               FileEdit(raw.rec.call, sections[i].path))]

ParseFunctionCall(ctx, raw) ==
  LET id    == CallEventId(raw)
      call  == Draft(id, NoId, ToolCall(raw.rec.call, raw.rec.name))
      edits == IF raw.rec.name = "apply_patch" THEN EmitV4aEdits(raw, id) ELSE <<>>
  IN  IF Seen(ctx, id) THEN ctx ELSE MkAllNew(ctx, raw, <<call>> \o edits)

ParseCustomToolCall(ctx, raw) ==
  MkNew(ctx, raw, Draft(CallEventId(raw), NoId, ToolCall(raw.rec.call, raw.rec.name)))

-----------------------------------------------------------------------------
(* Only the first three lines are looked at for an exit code.              *)
ParseExitCode(lines) ==
  SelectSeq(SubSeq(lines, 1, IF Len(lines) < 3 THEN Len(lines) ELSE 3),
            LAMBDA line : line \in {"exit 0", "exit 1"})

StringIndicatesError(lines) == "error" \in ToSet(lines)

StringOutputIsOk(lines) ==
  IF ParseExitCode(lines) # <<>> THEN Head(ParseExitCode(lines)) = "exit 0"
  ELSE ~StringIndicatesError(lines)

(* The first flag given decides, the words when there is none; nothing at  *)
(* all means success.                                                      *)
OutputIsOk(output) ==
  LET flag == FirstGiven(output.flags, None)
  IN  CASE output.shape = "object" ->
             IF flag # None THEN flag = "good" ELSE StringOutputIsOk(output.lines)
        [] output.shape = "text"  -> StringOutputIsOk(output.lines)
        [] output.shape = "false" -> FALSE
        [] output.shape = "other" -> TRUE

(* Ok decides by its isError, then Err is a failure; neither is a success. *)
McpResultIsOk(output) == FirstGiven(output.flags, None) \in {"good", None}

ResultId(raw, kind) ==
  IF raw.rec.call = NoId THEN <<"result_of", kind, ContentId(raw)>>
  ELSE <<"result", raw.rec.call, kind>>

EmitToolResult(ctx, raw, ok, kind) ==
  MkNew(ctx, raw,
        Draft(ResultId(raw, kind), raw.rec.call, ToolResult(raw.rec.call, ok)))

ParseFunctionCallOutput(ctx, raw) ==
  EmitToolResult(ctx, raw, OutputIsOk(raw.rec.output), "output")

ParseCustomToolCallOutput(ctx, raw) ==
  EmitToolResult(ctx, raw, OutputIsOk(raw.rec.output), "output")

ParseMcpToolCallEnd(ctx, raw) ==
  EmitToolResult(ctx, raw, McpResultIsOk(raw.rec.output), "mcp")

(* The edits of a patch: their ids hold the line number of the record.     *)
ApplyEdits(raw) ==
  LET owner == NativeId(raw.rec.call, raw)
  IN  [i \in DOMAIN raw.rec.paths |->
         Draft(<<"patch_apply_end", owner, raw.rec.paths[i], raw.line>>,
               raw.rec.call, FileEdit(raw.rec.call, raw.rec.paths[i]))]

ParsePatchApplyEnd(ctx, raw) ==
  MkAllNew(EmitToolResult(ctx, raw, raw.rec.success, "patch_apply_end"),
           raw, ApplyEdits(raw))

(* A compaction supersedes nothing: the range it replaces is empty.        *)
ParseCompaction(ctx, raw) ==
  MkNew(ctx, raw, Draft(<<"compaction", ContentId(raw)>>, NoId, Compaction))

-----------------------------------------------------------------------------
ParseResponseItem(ctx, raw) ==
  CASE raw.rec.item = "message"                 -> ParseMessage(ctx, raw)
    [] raw.rec.item = "function_call"           -> ParseFunctionCall(ctx, raw)
    [] raw.rec.item = "function_call_output"    -> ParseFunctionCallOutput(ctx, raw)
    [] raw.rec.item = "custom_tool_call"        -> ParseCustomToolCall(ctx, raw)
    [] raw.rec.item = "custom_tool_call_output" -> ParseCustomToolCallOutput(ctx, raw)
    [] raw.rec.item = "reasoning"               -> ParseReasoning(ctx, raw)
    [] OTHER                                    -> UnknownEvent(ctx, raw)

(* The messages of this stream repeat the items: they stay unknown.        *)
ParseEventMsg(ctx, raw) ==
  CASE raw.rec.item = "patch_apply_end"   -> ParsePatchApplyEnd(ctx, raw)
    [] raw.rec.item = "mcp_tool_call_end" -> ParseMcpToolCallEnd(ctx, raw)
    [] raw.rec.item = "context_compacted" -> ParseCompaction(ctx, raw)
    [] OTHER                              -> UnknownEvent(ctx, raw)

ParseRecord(ctx, raw) ==
  CASE raw.rec.type = "session_meta"  -> ParseSessionMeta(ctx, raw)
    [] raw.rec.type = "response_item" -> ParseResponseItem(ctx, raw)
    [] raw.rec.type = "event_msg"     -> ParseEventMsg(ctx, raw)
    [] raw.rec.type = "compacted"     -> ParseCompaction(ctx, raw)
    [] OTHER                          -> UnknownEvent(ctx, raw)

(* A line that is no JSON is dropped, where the other adapters keep it.    *)
Parse(ctx, raw) == IF IsNoJson(raw.rec) THEN ctx ELSE ParseRecord(ctx, raw)
=============================================================================
