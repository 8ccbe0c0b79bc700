----------------------------- MODULE ChatRecord -----------------------------
(***************************************************************************)
(* The chat record most adapters share: a turn of the user or of the       *)
(* assistant with lists of calls, results and edits beside its text.       *)
(*                                                                         *)
(* rec: [type, id, parent, session, cwd, ts, role, text, thinking, calls,  *)
(* results, edits]. type is the record's kind, None for a plain message; a *)
(* call is [id, name], a result [id, ok], an edit [id, path]; text and     *)
(* thinking are sequences of texts.                                        *)
(***************************************************************************)
EXTENDS AdapterCtx

TurnKind(rec) ==
  IF rec.role = "assistant"
  THEN AssistantTurn(Joined(rec.text), Joined(rec.thinking))
  ELSE UserTurn(Joined(rec.text))

(* One draft for each element of a list, from the element and its index.   *)
DraftsOf(list, DraftAt(_, _)) == [i \in DOMAIN list |-> DraftAt(list[i], i)]
=============================================================================
