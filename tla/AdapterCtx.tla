----------------------------- MODULE AdapterCtx -----------------------------
(***************************************************************************)
(* What every adapter shares: the parse context threaded through a         *)
(* transcript, the ids and stamps of its events, the ways an event is      *)
(* added, and the catch-all for records no adapter understands.            *)
(*                                                                         *)
(* A context also holds the events made so far. raw is [rec, line]: a      *)
(* record, whose fields each adapter's module lists, and its place. An     *)
(* event not yet numbered is a draft [id, parent, kind]; ids are tuples    *)
(* that begin with a tag, one tag for each format string of the code; an   *)
(* id a record carries is a tuple of one string, NoId when it has none.    *)
(* call_names and call_ok are written by the adapters and read by nothing, *)
(* so they are left out. Times are in thousandths of a second.             *)
(***************************************************************************)
EXTENDS Integers, Sequences, FiniteSets, SequencesExt

CONSTANTS
  MsThreshold,  \* epoch numbers above it are milliseconds (10 000 000 000)
  MaxSecs       \* the last second the time library can represent

ASSUME ThresholdAssumption ==
  /\ MsThreshold \in Nat /\ MaxSecs \in Nat
  /\ MsThreshold <= MaxSecs

None  == "none"           \* an Option that is None
NoId  == <<"none">>       \* no parent
Epoch == 0

FreshCtx ==
  [session_id |-> NoId, project |-> None, next_seq |-> 0,
   seen_event_ids |-> {}, events |-> <<>>]

-----------------------------------------------------------------------------
(* EventKind: the payloads, with the fields something downstream reads.    *)
SessionStart(cwd)             == [tag |-> "session_start", cwd |-> cwd]
UserTurn(text)                == [tag |-> "user_turn", text |-> text]
AssistantTurn(text, thinking) ==
  [tag |-> "assistant_turn", text |-> text, thinking |-> thinking]
ToolCall(call, name)          == [tag |-> "tool_call", call |-> call, name |-> name]
ToolResult(call, ok)          == [tag |-> "tool_result", call |-> call, ok |-> ok]
FileEdit(call, path)          == [tag |-> "file_edit", call |-> call, path |-> path]
Compaction                    == [tag |-> "compaction", from |-> 0, to |-> 0]
Rewind(to)                    == [tag |-> "rewind", to |-> to]
SessionEnd                    == [tag |-> "session_end"]
Unknown                       == [tag |-> "unknown"]

(* Broken variant, for mutation only: the place of a line is in its id.    *)
ContentIdAtLine(raw) == <<"content", raw.rec, raw.line>>

(* content_id: equal bytes, equal id.                                      *)
ContentId(raw) == <<"content", raw.rec>>

OrElse(id, default) == IF id = NoId THEN default ELSE id

(* The first of the options that is there: a chain of or_else.             *)
FirstGiven(options, default) ==
  LET given == SelectSeq(options, LAMBDA o : o # default)
  IN  IF given = <<>> THEN default ELSE Head(given)

(* Broken variant, for mutation only: what carries no id shares one.       *)
SharedId(id, raw) == OrElse(id, <<"message">>)

(* An id a record may carry, else the hash of its bytes.                   *)
NativeId(id, raw) == OrElse(id, ContentId(raw))

-----------------------------------------------------------------------------
(* parse_ts on a number n: seconds, or milliseconds when it is large; what *)
(* the time library cannot represent does not parse.                       *)
Abs(n) == IF n < 0 THEN -n ELSE n

IsMillis(n) == Abs(n) > MsThreshold

TsParses(n) == IF IsMillis(n) THEN Abs(n) \div 1000 <= MaxSecs ELSE TRUE

ParseTs(n) == IF IsMillis(n) THEN n ELSE 1000 * n

(* ts_from: the first of the numbers under the given keys that parses.     *)
TsFrom(numbers) ==
  LET good == SelectSeq(numbers, TsParses)
  IN  IF good = <<>> THEN Epoch ELSE ParseTs(Head(good))

-----------------------------------------------------------------------------
Draft(id, parent, kind) == [id |-> id, parent |-> parent, kind |-> kind]

(* first_seen *)
Seen(ctx, id) == id \in ctx.seen_event_ids

(* Broken variant, for mutation only: an id seen is forgotten.             *)
MarkNothing(ctx, id) == ctx

Mark(ctx, id) == [ctx EXCEPT !.seen_event_ids = @ \cup {id}]

AllocSeq(ctx) == [ctx EXCEPT !.next_seq = @ + 1]

(* mk_event: the next seq, the session and the project known so far.       *)
MkEvent(ctx, raw, draft) ==
  [AllocSeq(ctx) EXCEPT !.events = Append(@,
     [event_id   |-> draft.id,
      parent_id  |-> draft.parent,
      seq        |-> ctx.next_seq,
      session_id |-> OrElse(ctx.session_id, <<"unknown">>),
      project    |-> IF ctx.project = None THEN "." ELSE ctx.project,
      timestamp  |-> TsFrom(raw.rec.ts),
      kind       |-> draft.kind,
      line       |-> raw.line])]

MkEvents(ctx, raw, drafts) ==
  FoldLeft(LAMBDA c, d : MkEvent(c, raw, d), ctx, drafts)

(* Broken variant, for mutation only: parts are added without being asked. *)
MkUnguarded(ctx, raw, draft) == MkEvent(Mark(ctx, draft.id), raw, draft)

(* The guarded form: an id seen before in this context adds nothing.       *)
MkNew(ctx, raw, draft) ==
  IF Seen(ctx, draft.id) THEN ctx ELSE MkEvent(Mark(ctx, draft.id), raw, draft)

MkAllNew(ctx, raw, drafts) ==
  FoldLeft(LAMBDA c, d : MkNew(c, raw, d), ctx, drafts)

(* unknown_event asks no first_seen: a repeated record gives it again.     *)
UnknownEvent(ctx, raw) == MkEvent(ctx, raw, Draft(ContentId(raw), NoId, Unknown))

(* A line that is not UTF-8 has no text and counts as blank.               *)
HasNoText(rec) == rec.type \in {"blank", "not_utf8"}

IsNoJson(rec) == HasNoText(rec) \/ rec.type = "not_json"

(* stub_parse, for a line without text or that is no JSON value.           *)
StubParse(ctx, raw) == IF HasNoText(raw.rec) THEN ctx ELSE UnknownEvent(ctx, raw)

(* The session id is learned once.                                         *)
LearnSession(ctx, session) ==
  [ctx EXCEPT !.session_id = OrElse(@, session)]

(* Texts joined, the empty ones left out.                                  *)
Joined(texts) == SelectSeq(texts, LAMBDA t : t # "")
=============================================================================
