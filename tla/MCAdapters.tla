----------------------------- MODULE MCAdapters -----------------------------
(***************************************************************************)
(* Transcripts of a few lines for each tool that writes them: headers,     *)
(* turns with calls, the outcomes of those calls (in the same record or in *)
(* a later one), edits, lines under an id already used, and lines no       *)
(* adapter understands. Any of them may be repeated.                       *)
(***************************************************************************)
EXTENDS Adapters

S1 == <<"s1">>
S2 == <<"s2">>
C1 == <<"c1">>
C2 == <<"c2">>
Id(name) == <<name>>

Junk(base) == {[base EXCEPT !.type = t] : t \in {"not_json", "not_utf8", "blank"}}

(* Claude Code: a turn with a call, its result with or without the patch.  *)
ClaudeBase ==
  [type |-> "user", id |-> NoId, parent |-> NoId, session |-> S1, cwd |-> "repo",
   ts |-> <<1>>, blocks |-> <<>>, patch |-> None]

Block(type, call, ok) == [type |-> type, text |-> "t", call |-> call, ok |-> ok]

ClaudeRecords ==
  {[ClaudeBase EXCEPT !.id = Id("u1"), !.blocks = <<Block("text", NoId, TRUE)>>],
   [ClaudeBase EXCEPT !.id = Id("a1"), !.type = "assistant",
      !.blocks = <<Block("text", NoId, TRUE), Block("tool_use", C1, TRUE),
                   Block("tool_use", C2, TRUE)>>],
   [ClaudeBase EXCEPT !.id = Id("r1"), !.patch = "f",
      !.blocks = <<Block("tool_result", C1, FALSE)>>],
   [ClaudeBase EXCEPT !.id = Id("r2"), !.patch = "g",
      !.blocks = <<Block("tool_result", C2, TRUE)>>],
   [ClaudeBase EXCEPT !.id = Id("r1"), !.blocks = <<Block("tool_result", C1, TRUE)>>],
   [ClaudeBase EXCEPT !.type = "system", !.cwd = "sub"],
   [ClaudeBase EXCEPT !.type = "summary", !.session = NoId]}
  \cup Junk(ClaudeBase)

(* Codex: calls and patches in the items and in the stream beside them.    *)
NoOutput == [shape |-> "other", flags |-> <<>>, lines |-> <<>>]

CodexBase ==
  [type |-> "response_item", item |-> "message", id |-> NoId, call |-> NoId,
   session |-> NoId, cwd |-> "repo", ts |-> <<1>>, role |-> None, text |-> <<"t">>,
   name |-> None, args |-> [input |-> <<>>, patch |-> <<>>, bare |-> <<>>],
   output |-> NoOutput, success |-> TRUE, paths |-> <<>>]

PatchLine(header, path) == [header |-> header, path |-> path]

CodexRecords ==
  {[CodexBase EXCEPT !.type = "session_meta", !.session = S1],
   [CodexBase EXCEPT !.id = Id("m1"), !.role = "user"],
   [CodexBase EXCEPT !.id = Id("m2"), !.role = "developer"],
   [CodexBase EXCEPT !.item = "reasoning", !.text = <<"">>],
   [CodexBase EXCEPT !.item = "function_call", !.call = C1, !.name = "apply_patch",
      !.args.patch = <<PatchLine(FALSE, ""), PatchLine(TRUE, "f"), PatchLine(TRUE, "g"),
                       PatchLine(FALSE, ""), PatchLine(TRUE, "f")>>],
   [CodexBase EXCEPT !.item = "function_call_output", !.call = C1,
      !.output = [NoOutput EXCEPT !.shape = "object", !.flags = <<None, "bad", "good">>,
                                  !.lines = <<"exit 0">>]],
   [CodexBase EXCEPT !.item = "function_call_output", !.call = C1,
      !.output = [NoOutput EXCEPT !.shape = "text",
                                  !.lines = <<"ran", "exit 0", "error">>]],
   [CodexBase EXCEPT !.item = "custom_tool_call", !.call = C2, !.name = "apply_patch"],
   [CodexBase EXCEPT !.item = "custom_tool_call_output", !.call = C2],
   [CodexBase EXCEPT !.type = "event_msg", !.item = "patch_apply_end", !.call = C2,
      !.success = FALSE, !.paths = <<"f">>],
   [CodexBase EXCEPT !.type = "event_msg", !.item = "patch_apply_end", !.call = C1,
      !.paths = <<"f">>],
   [CodexBase EXCEPT !.type = "event_msg", !.item = "mcp_tool_call_end", !.call = C1,
      !.output = [NoOutput EXCEPT !.flags = <<"bad">>]],
   [CodexBase EXCEPT !.type = "event_msg", !.item = "context_compacted"],
   [CodexBase EXCEPT !.type = "turn_context"]}
  \cup Junk(CodexBase)

(* The chat records of Copilot, Windsurf, VS Code, Cursor and Zed.         *)
ChatBase ==
  [type |-> None, id |-> NoId, parent |-> NoId, session |-> S1, cwd |-> "repo",
   ts |-> <<1>>, role |-> "assistant", text |-> <<"t">>, thinking |-> <<>>,
   calls |-> <<>>, results |-> <<>>, edits |-> <<>>]

ChatRecords(base, EditOf(_, _)) ==
  {[base EXCEPT !.type = "session_start", !.role = None],
   [base EXCEPT !.type = "session_end", !.role = None, !.session = S2],
   [base EXCEPT !.id = Id("m1"), !.role = "user"],
   [base EXCEPT !.id = Id("m2"),
      !.calls = <<[id |-> C1, name |-> "edit"], [id |-> NoId, name |-> "run"],
                  [id |-> C1, name |-> "edit"]>>,
      !.results = <<[id |-> C1, ok |-> FALSE]>>, !.edits = <<EditOf(C1, "f")>>],
   [base EXCEPT !.id = Id("m3"),
      !.calls = <<[id |-> C1, name |-> "edit"], [id |-> C2, name |-> "edit"]>>,
      !.edits = <<EditOf(C1, "f"), EditOf(C2, "g")>>],
   [base EXCEPT !.calls = <<[id |-> C2, name |-> "edit"]>>,
      !.results = <<[id |-> C2, ok |-> TRUE]>>, !.edits = <<EditOf(NoId, "g")>>],
   [base EXCEPT !.role = "tool", !.results = <<[id |-> C1, ok |-> FALSE]>>],
   [base EXCEPT !.id = Id("m1"), !.results = <<[id |-> C1, ok |-> FALSE]>>]}
  \cup Junk(base)

IdEdit(call, path)   == [id |-> call, path |-> path]
CallEdit(call, path) == [call |-> call, path |-> path]
BothEdit(call, path) == [id |-> NoId, call |-> call, path |-> path]

VsCodeBase == [requests |-> <<>>] @@ ChatBase
CursorBase == [blocks |-> <<>>] @@ ChatBase

VsCodeRecords ==
  ChatRecords(VsCodeBase, BothEdit) \cup
  {[VsCodeBase EXCEPT !.type = "native", !.session = NoId,
      !.requests = <<[text |-> <<"q">>, response |-> <<"a">>]>>]}

CursorRecords ==
  ChatRecords(CursorBase, CallEdit) \cup
  {[CursorBase EXCEPT !.text = <<>>, !.blocks =
      <<[type |-> "text", text |-> "t", id |-> NoId, name |-> None],
        [type |-> "tool_use", text |-> "", id |-> NoId, name |-> "run"]>>]}

(* OpenTelemetry: spans and log records without ids of their own.          *)
OtelBase ==
  [type |-> "span", nested |-> TRUE, op |-> None, span |-> "chat", session |-> S1,
   cwd |-> "repo", ts |-> <<>>, prompt |-> None, inputs |-> <<>>, outputs |-> <<>>,
   call |-> NoId, tool |-> None, status |-> None, error |-> FALSE, result |-> FALSE,
   path |-> None]

OtelTool == [OtelBase EXCEPT !.op = "execute_tool", !.call = C1, !.tool = "edit"]

OtelRecords ==
  {[OtelBase EXCEPT !.op = "session.start"],
   [OtelBase EXCEPT !.op = "session.end", !.session = NoId],
   [OtelBase EXCEPT !.prompt = "q", !.outputs = <<"a", "b">>,
      !.inputs = <<[role |-> "system", text |-> "x"], [role |-> "user", text |-> "q"]>>],
   [OtelTool EXCEPT !.path = "f"],
   [OtelTool EXCEPT !.path = "g", !.error = TRUE],
   [OtelTool EXCEPT !.status = "error", !.result = TRUE],
   [OtelTool EXCEPT !.call = C2, !.result = TRUE, !.path = "g"],
   [OtelBase EXCEPT !.op = "file_operation", !.path = "f"],
   [OtelBase EXCEPT !.op = "file_operation"],
   [OtelBase EXCEPT !.nested = FALSE, !.ts = <<1>>]}
  \cup Junk(OtelBase)

(* Gemini: messages with their calls, settings, a rewind.                  *)
GeminiBase ==
  [type |-> "gemini", id |-> NoId, session |-> NoId, cwd |-> None, to |-> NoId,
   ts |-> <<1>>, text |-> <<"t">>, thinking |-> "", calls |-> <<>>]

GeminiCall(id, flags, path) ==
  [id |-> id, name |-> "edit", answered |-> flags # <<>>, flags |-> flags,
   path |-> path, edited |-> path # ""]

GeminiRecords ==
  {[GeminiBase EXCEPT !.type = "set", !.session = S1, !.cwd = "repo"],
   [GeminiBase EXCEPT !.type = "set", !.session = S2],
   [GeminiBase EXCEPT !.type = "user", !.id = Id("u1")],
   [GeminiBase EXCEPT !.id = Id("g1"),
      !.calls = <<GeminiCall(C1, <<None, "bad", "good">>, "f"),
                  GeminiCall(NoId, <<"good">>, "g")>>],
   [GeminiBase EXCEPT !.id = Id("g1"), !.calls = <<GeminiCall(C1, <<"good">>, "f")>>],
   [GeminiBase EXCEPT !.type = "model",
      !.calls = <<GeminiCall(C2, <<None, "good">>, "g"), GeminiCall(NoId, <<>>, "")>>],
   [GeminiBase EXCEPT !.type = "rewind", !.to = Id("u1")],
   [GeminiBase EXCEPT !.type = "info"]}
  \cup Junk(GeminiBase)

MCRecords(t) ==
  CASE t = "claude_code" -> ClaudeRecords
    [] t = "codex"       -> CodexRecords
    [] t = "copilot"     -> ChatRecords(ChatBase, IdEdit)
    [] t = "windsurf"    -> ChatRecords(ChatBase, IdEdit)
    [] t = "otel"        -> OtelRecords
    [] t = "vscode"      -> VsCodeRecords
    [] t = "cursor"      -> CursorRecords
    [] t = "zed"         -> ChatRecords(ChatBase, CallEdit)
    [] t = "gemini"      -> GeminiRecords
=============================================================================
