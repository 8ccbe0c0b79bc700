------------------------------- MODULE Gemini -------------------------------
(***************************************************************************)
(* The Gemini adapter, over its append-only chat log: messages, each with  *)
(* its calls and their results, and the two control records that set the   *)
(* session and rewind it.                                                  *)
(*                                                                         *)
(* rec: [type, id, session, cwd, to, ts, text, thinking, calls]. type is   *)
(* what decides the handler: "rewind", "set", or the role. A call is [id,  *)
(* name, answered, flags, path, edited]: flags are what its record and its *)
(* result say of success, in the order they are asked, "good", "bad" or    *)
(* None; edited holds when the result has the shape of a diff.             *)
(***************************************************************************)
EXTENDS ChatRecord

RecordId(raw) == NativeId(raw.rec.id, raw)

ParseRewind(ctx, raw) ==
  MkNew(ctx, raw, Draft(RecordId(raw), NoId, Rewind(raw.rec.to)))

(* Settings without a directory are kept as unknown, under the hash of     *)
(* their bytes and not the id that was marked.                             *)
ParseSet(ctx, raw) ==
  LET learned == LearnSession(ctx, raw.rec.session)
      id      == RecordId(raw)
      cwd     == raw.rec.cwd
  IN  CASE Seen(learned, id) -> learned
        [] ~Seen(learned, id) /\ cwd = None -> UnknownEvent(Mark(learned, id), raw)
        [] ~Seen(learned, id) /\ cwd # None ->
             MkNew([learned EXCEPT !.project = cwd], raw, Draft(id, NoId, SessionStart(cwd)))

AssistantRoles == {"gemini", "model", "assistant"}

IsDialogueTurn(rec) == rec.type \in AssistantRoles \cup {"user"}

MessageKind(rec) ==
  IF rec.type = "user" THEN UserTurn(Joined(rec.text))
  ELSE AssistantTurn(Joined(rec.text), rec.thinking)

ResultOk(call) == FirstGiven(call.flags, None) # "bad"

EditsOf(call) == IF call.edited /\ call.path # "" THEN <<call.path>> ELSE <<>>

(* The call, its result when it has one, and the edit the result shows.    *)
ParseToolCall(turn, call, i) ==
  LET id == OrElse(call.id, <<"tool", turn, i>>)
  IN  <<Draft(<<"call", id>>, turn, ToolCall(id, call.name))>>
      \o (IF ~call.answered THEN <<>>
          ELSE <<Draft(<<"result", id>>, turn, ToolResult(id, ResultOk(call)))>>
               \o [j \in DOMAIN EditsOf(call) |->
                     Draft(<<"edit", id>>, turn, FileEdit(id, EditsOf(call)[j]))])

(* Only the turn is checked against the ids seen.                          *)
ParseMessage(ctx, raw) ==
  LET turn  == RecordId(raw)
      calls == DraftsOf(raw.rec.calls, LAMBDA c, i : ParseToolCall(turn, c, i))
  IN  IF Seen(ctx, turn) THEN ctx
      ELSE MkEvents(Mark(ctx, turn), raw,
             <<Draft(turn, NoId, MessageKind(raw.rec))>> \o FlattenSeq(calls))

ParseValue(ctx, raw) ==
  CASE raw.rec.type = "rewind" -> ParseRewind(ctx, raw)
    [] raw.rec.type = "set" -> ParseSet(ctx, raw)
    [] IsDialogueTurn(raw.rec) -> ParseMessage(ctx, raw)
    [] OTHER -> UnknownEvent(ctx, raw)

Parse(ctx, raw) ==
  IF IsNoJson(raw.rec) THEN StubParse(ctx, raw) ELSE ParseValue(ctx, raw)
=============================================================================
