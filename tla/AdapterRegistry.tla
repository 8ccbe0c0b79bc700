-------------------------- MODULE AdapterRegistry --------------------------
(***************************************************************************)
(* The adapters by the tool they read.                                     *)
(***************************************************************************)
EXTENDS AdapterCtx

Claude   == INSTANCE ClaudeCode
CodexCli == INSTANCE Codex
Chat     == INSTANCE Copilot
Surf     == INSTANCE Windsurf
HermesDb == INSTANCE Hermes
Open     == INSTANCE OpenCode
Tele     == INSTANCE Otel
Code     == INSTANCE VsCode
Curs     == INSTANCE Cursor
ZedDb    == INSTANCE Zed
Gem      == INSTANCE Gemini

(* adapter_for *)
Parse(tool, ctx, raw) ==
  CASE tool = "claude_code" -> Claude!Parse(ctx, raw)
    [] tool = "codex"       -> CodexCli!Parse(ctx, raw)
    [] tool = "copilot"     -> Chat!Parse(ctx, raw)
    [] tool = "windsurf"    -> Surf!Parse(ctx, raw)
    [] tool = "hermes"      -> HermesDb!Parse(ctx, raw)
    [] tool = "opencode"    -> Open!Parse(ctx, raw)
    [] tool = "otel"        -> Tele!Parse(ctx, raw)
    [] tool = "vscode"      -> Code!Parse(ctx, raw)
    [] tool = "cursor"      -> Curs!Parse(ctx, raw)
    [] tool = "zed"         -> ZedDb!Parse(ctx, raw)
    [] tool = "gemini"      -> Gem!Parse(ctx, raw)
=============================================================================
