---------------------------- MODULE MCDiscovery ----------------------------
(* Discovery over one home directory with the transcripts of every tool,   *)
(* among them two whose paths name another tool and one that was moved out *)
(* of the home directory, and files that no tool wrote.                    *)
EXTENDS Discovery

Home == <<"home">>

Written ==
  [claude_code |-> {Home \o <<".claude", "projects", "-w", "s.jsonl">>,
                    Home \o <<".claude", "projects", "-codex", "s.jsonl">>},
   codex    |-> {Home \o <<".codex", "sessions", "rollout-1.jsonl">>,
                 <<"moved", "sessions", "rollout-2.jsonl.zst">>},
   cursor   |-> {Home \o <<".cursor", "projects", "-claude", "agent-transcripts", "u", "u.jsonl">>,
                 Home \o <<".config/Cursor/User", "globalStorage", "state.vscdb">>},
   vscode   |-> {Home \o <<".config/Code/User", "workspaceStorage", "h", "state.vscdb">>},
   gemini   |-> {Home \o <<".gemini", "tmp", "p", "chat.jsonl">>,
                 Home \o <<".gemini", "tmp", "p", "logs.json">>},
   hermes   |-> {Home \o <<".hermes", "state.db">>},
   opencode |-> {Home \o <<".local/share", "opencode", "opencode.db">>},
   zed      |-> {Home \o <<".local/share", "zed", "threads.db">>},
   otel     |-> {<<"logs", "spans.ndjson">>},
   nobody   |-> {Home \o <<".codex", "history.jsonl">>, Home \o <<"code", "data.json">>}]

MCCatalog == UNION {Written[tool] : tool \in DOMAIN Written}

(* otel keeps its records nowhere of its own.                              *)
MCWrittenBy ==
  [p \in MCCatalog |->
    LET tool == CHOOSE t \in DOMAIN Written : p \in Written[t]
    IN  IF tool = "otel" THEN "nobody" ELSE tool]

MCExtOf ==
  [n \in {Last(p) : p \in MCCatalog} |->
    CASE n \in {"s.jsonl", "u.jsonl", "chat.jsonl", "history.jsonl", "rollout-1.jsonl"} -> "jsonl"
      [] n \in {"logs.json", "data.json"} -> "json"
      [] n = "rollout-2.jsonl.zst" -> "zst"
      [] n = "spans.ndjson" -> "ndjson"
      [] OTHER -> "db"]

MCRollouts == {"rollout-1.jsonl", "rollout-2.jsonl.zst"}

MCWordsIn ==
  [c \in UNION {ToSet(p) : p \in MCCatalog} |->
    CASE c \in {".codex", "-codex"} -> {"codex", "code"}
      [] c \in {".claude", "-claude"} -> {"claude"}
      [] c = ".gemini" -> {"gemini"}
      [] c \in {".cursor", ".config/Cursor/User"} -> {"cursor"}
      [] c = ".hermes" -> {"hermes"}
      [] c \in {"opencode", "opencode.db"} -> {"opencode", "code"}
      [] c \in {"code", ".config/Code/User"} -> {"code"}
      [] c = "zed" -> {"zed"}
      [] OTHER -> {}]

MCSlugDirs == [project \in {<<"w">>} |-> {"-w"}]

MCEnv == [v \in Variables |-> IF v = "HOME" THEN Home ELSE <<>>]

Default ==
  [tools |-> <<>>, capture |-> <<>>, roots |-> {}, home |-> <<>>,
   overrides |-> <<>>, project |-> <<>>]

Moved == [n \in {"CODEX_HOME"} |-> <<"moved">>]

MCSettings ==
  {Default,
   [Default EXCEPT !.overrides = Moved],
   [Default EXCEPT !.tools = <<"cursor", "zed">>],
   [Default EXCEPT !.capture = <<"codex", "claude_code">>, !.overrides = Moved],
   [Default EXCEPT !.roots = {<<"logs">>, Home \o <<".codex">>}],
   [Default EXCEPT !.project = <<"w">>, !.tools = <<"claude_code">>]}

MCUnset == <<>>
=============================================================================
