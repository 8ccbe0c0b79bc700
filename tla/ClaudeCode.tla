----------------------------- MODULE ClaudeCode -----------------------------
(***************************************************************************)
(* The Claude Code adapter: one JSONL record holds a turn with its tool    *)
(* blocks and, beside them, at most one structured patch.                  *)
(*                                                                         *)
(* rec: [type, id, parent, session, cwd, ts, blocks, patch]; a block is    *)
(* [type, text, call, ok]; patch is the path of toolUseResult, or None.    *)
(* Models, token counts, images and the lines of a diff are left out.      *)
(***************************************************************************)
EXTENDS AdapterCtx

RecordId(raw) == NativeId(raw.rec.id, raw)

SessionStartId(id)         == <<"claude_code/session_start", id>>
DerivedId(kind, index, id) == <<"claude_code", kind, index, id>>

SessionStartable(type) == type \in {"user", "assistant", "system"}

Blocks(rec, type) == SelectSeq(rec.blocks, LAMBDA b : b.type = type)

Texts(rec, type) ==
  Joined([i \in DOMAIN Blocks(rec, type) |-> Blocks(rec, type)[i].text])

(* Broken variant, for mutation only: only a tool_use block names the call.*)
PatchCallOfUse(rec) ==
  LET tools == Blocks(rec, "tool_use")
  IN  IF tools = <<>> THEN NoId ELSE Head(tools).call

(* parse_file_edit: the patch belongs to the first tool block of the       *)
(* record, whichever of the two it is.                                     *)
PatchCall(rec) ==
  LET tools == SelectSeq(rec.blocks, LAMBDA b : b.type \in {"tool_use", "tool_result"})
  IN  IF tools = <<>> THEN NoId ELSE Head(tools).call

TurnKind(rec) ==
  IF rec.type = "assistant"
  THEN AssistantTurn(Texts(rec, "text"), Texts(rec, "thinking"))
  ELSE UserTurn(Texts(rec, "text"))

(* parse_turn: the turn, its calls, its results, its edit.                 *)
TurnDrafts(raw, id) ==
  LET rec     == raw.rec
      uses    == Blocks(rec, "tool_use")
      results == Blocks(rec, "tool_result")
  IN  <<Draft(id, rec.parent, TurnKind(rec))>>
      \o [i \in DOMAIN uses |->
            Draft(DerivedId("tool_call", i, id), id, ToolCall(uses[i].call, "tool"))]
      \o [i \in DOMAIN results |->
            Draft(DerivedId("tool_result", i, id), id,
                  ToolResult(results[i].call, results[i].ok))]
      \o (IF rec.patch = None THEN <<>>
          ELSE <<Draft(DerivedId("file_edit", 1, id), id,
                       FileEdit(PatchCall(rec), rec.patch))>>)

(* The first dialogue record of a context opens the session.               *)
OpenSession(ctx, raw, id) ==
  IF ctx.project = None /\ SessionStartable(raw.rec.type)
  THEN MkEvent([ctx EXCEPT !.project = raw.rec.cwd], raw,
               Draft(SessionStartId(id), raw.rec.parent, SessionStart(raw.rec.cwd)))
  ELSE ctx

ParseRecord(ctx, raw) ==
  LET id      == RecordId(raw)
      learned == LearnSession(ctx, raw.rec.session)
      opened  == OpenSession(Mark(learned, id), raw, id)
  IN  CASE Seen(learned, id) -> learned
        [] ~Seen(learned, id) /\ raw.rec.type \in {"user", "assistant"} ->
             MkEvents(opened, raw, TurnDrafts(raw, id))
        [] ~Seen(learned, id) /\ raw.rec.type \notin {"user", "assistant"} ->
             UnknownEvent(opened, raw)

Parse(ctx, raw) ==
  IF IsNoJson(raw.rec) THEN StubParse(ctx, raw) ELSE ParseRecord(ctx, raw)
=============================================================================
