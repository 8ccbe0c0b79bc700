-------------------------- MODULE MCWatchRegistry --------------------------
(* WatchRegistry over a small tree: a transcript in a top directory, one   *)
(* in a subdirectory of it, one two levels down, and one elsewhere.        *)
EXTENDS WatchRegistry

MCPaths ==
  << <<"a", "b", "c", "s.jsonl">>, <<"a", "b", "t.jsonl">>,
     <<"a", "u.jsonl">>, <<"z", "v.jsonl">> >>
=============================================================================
