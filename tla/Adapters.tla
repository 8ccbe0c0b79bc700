------------------------------ MODULE Adapters ------------------------------
(***************************************************************************)
(* A transcript of one tool, read through the adapter of that tool in both *)
(* ways the program has: as a whole with one context (parse, watch --once) *)
(* and in the batches of the live daemon, each with a context of its own.  *)
(***************************************************************************)
EXTENDS AdapterRegistry

CONSTANTS
  Tools,      \* the tools whose transcripts are read
  Records(_), \* what a line of a tool's transcript can be
  MaxRecords  \* bound: lines of the transcript

VARIABLES
  tool,     \* whose transcript it is
  taken,    \* its lines
  whole,    \* the context of one reading of them all
  batch,    \* the context of the live batch at hand
  inBatch,  \* the number of lines in that batch
  live      \* the events of the batches before it

vars == <<tool, taken, whole, batch, inBatch, live>>

Init ==
  /\ tool \in Tools
  /\ taken = <<>> /\ inBatch = 0
  /\ whole = FreshCtx /\ batch = FreshCtx
  /\ live = <<>>

(* parse_records over one more line. The lines of a batch are counted from *)
(* its first.                                                              *)
Take(rec) ==
  /\ Len(taken) < MaxRecords
  /\ taken' = Append(taken, rec)
  /\ inBatch' = inBatch + 1
  /\ whole' = Parse(tool, whole, [rec |-> rec, line |-> Len(taken) + 1])
  /\ batch' = Parse(tool, batch, [rec |-> rec, line |-> inBatch + 1])
  /\ UNCHANGED <<tool, live>>

(* The daemon's poll returns: the next line begins a batch.                *)
Cut ==
  /\ inBatch > 0
  /\ live' = live \o batch.events
  /\ batch' = FreshCtx /\ inBatch' = 0
  /\ UNCHANGED <<tool, taken, whole>>

Next == (\E rec \in Records(tool) : Take(rec)) \/ Cut

Spec == Init /\ [][Next]_vars

-----------------------------------------------------------------------------
(* What a record says of itself, whatever the adapter makes of it.         *)
Given(rec, field) == IF field \in DOMAIN rec THEN {rec[field]} \ {NoId} ELSE {}

IsHeader(rec) == rec.type \in {"session_start", "session_meta"}

Names(rec) ==
  Given(rec, "id") \cup Given(rec, "call") \cup
  (IF IsHeader(rec) THEN Given(rec, "session") ELSE {})

(* Another line with the same bytes, or with an id in common.              *)
SameThing(a, b) == a = b \/ Names(a) \cap Names(b) # {}

SaidBefore(i) == \E j \in 1 .. (i - 1) : SameThing(taken[i], taken[j])

(* The outcomes a record states of calls, as pairs [call, ok]. A record    *)
(* that is no turn states none to most adapters: they keep it as unknown.  *)
ListedOutcomes(rec) ==
  IF rec.role \in {"user", "assistant"} \/ tool \in {"vscode", "cursor"}
  THEN {[call |-> r.id, ok |-> r.ok] : r \in ToSet(rec.results)} ELSE {}

(* The first flag that says anything says this failed.                     *)
Flagged(flags) ==
  \E i \in DOMAIN flags : flags[i] = "bad" /\ \A j \in 1 .. (i - 1) : flags[j] = None

(* The words of an output count when no flag does, and an exit code among  *)
(* the first lines before the words.                                       *)
SaysFailure(output) ==
  LET coded(i) == output.lines[i] \in {"exit 0", "exit 1"} /\ i <= 3
  IN  \/ output.shape = "false"
      \/ Flagged(output.flags)
      \/ /\ output.shape \in {"object", "text"} /\ ToSet(output.flags) \subseteq {None}
         /\ \E i \in DOMAIN output.lines :
              \/ /\ coded(i) /\ output.lines[i] = "exit 1"
                 /\ \A j \in 1 .. (i - 1) : ~coded(j)
              \/ /\ output.lines[i] = "error"
                 /\ \A j \in DOMAIN output.lines : ~coded(j)

CodexOutcome(rec) ==
  CASE rec.item = "patch_apply_end" -> {[call |-> rec.call, ok |-> rec.success]}
    [] rec.item \in {"function_call_output", "custom_tool_call_output", "mcp_tool_call_end"} ->
         {[call |-> rec.call, ok |-> ~SaysFailure(rec.output)]}
    [] OTHER -> {}

Outcomes(rec) ==
  CASE tool = "claude_code" ->
         {[call |-> b.call, ok |-> b.ok] :
            b \in {c \in ToSet(rec.blocks) : c.type = "tool_result"}}
    [] tool = "codex" -> CodexOutcome(rec)
    [] tool = "otel" ->
         IF rec.op = "execute_tool" /\ (rec.status # None \/ rec.error \/ rec.result)
         THEN {[call |-> rec.call,
                ok |-> rec.status = "ok" \/ (rec.status = None /\ ~rec.error)]}
         ELSE {}
    [] tool = "gemini" ->
         {[call |-> c.id, ok |-> ~Flagged(c.flags)] :
            c \in {k \in ToSet(rec.calls) : k.answered}}
    [] OTHER -> ListedOutcomes(rec)

(* A message recorded again under its id is a repeat, whatever else it     *)
(* says: its outcomes count only the first time.                           *)
StatedOf(call) ==
  {o \in UNION {IF IsNoJson(taken[i]) \/ \E j \in 1 .. (i - 1) :
                     Given(taken[i], "id") \cap Given(taken[j], "id") # {}
                THEN {} ELSE Outcomes(taken[i]) : i \in DOMAIN taken} :
     o.call = call}

(* The segmenter's rule: the last result of a call counts.                 *)
TakenForFailed(events, call) ==
  LET results == SelectSeq(events, LAMBDA e :
                   e.kind.tag = "tool_result" /\ e.kind.call = call)
  IN  results # <<>> /\ ~Last(results).kind.ok

-----------------------------------------------------------------------------
(* One reading gives every event an id of its own; only a record nobody    *)
(* understands may come again under the id of its bytes. Windsurf is left  *)
(* out: the parts of its turns are not checked against the ids seen. Those *)
(* of Gemini are not either, but a call has one place in one message.      *)
IdsAreUnique ==
  tool # "windsurf" =>
    \A i, j \in DOMAIN whole.events :
      /\ i # j
      /\ whole.events[i].event_id = whole.events[j].event_id
      => Unknown \in {whole.events[i].kind, whole.events[j].kind}

(* A line that comes again leaves nothing but an unknown record, if that:  *)
(* a tool that rewrites or replays its transcript doubles no turn, call or *)
(* edit. The edits of a Codex patch are the exception, their ids hold the  *)
(* number of the line.                                                     *)
RepeatsAddNothing ==
  \A e \in ToSet(whole.events) :
    (\E j \in 1 .. (e.line - 1) : taken[j] = taken[e.line])
    => e.kind = Unknown \/ (tool = "codex" /\ e.kind.tag = "file_edit")

(* Every line that has text is heard of: it leaves an event, or it shares  *)
(* its bytes or an id with an earlier one, however the lines before it     *)
(* moved the context. Left out are blank lines; lines that are not UTF-8,  *)
(* which every adapter takes for blank ones (raw.as_str() at util.rs:145); *)
(* and, for Codex alone, lines that are no JSON, which its parse drops     *)
(* (codex.rs:59-65), contrary to its own doc (codex.rs:34-37).             *)
NothingIsLost ==
  \A i \in DOMAIN taken :
    \/ HasNoText(taken[i])
    \/ tool = "codex" /\ taken[i].type = "not_json"
    \/ SaidBefore(i)
    \/ \E e \in ToSet(whole.events) : e.line = i

(* Wherever the batches of the daemon are cut, each event of one reading   *)
(* of the whole comes live too, with the same id: what is stored live is   *)
(* what a later reading would refer to.                                    *)
LiveCoversOnce ==
  \A e \in ToSet(whole.events) :
    \/ tool = "codex" /\ e.kind.tag = "file_edit"
    \/ \E l \in ToSet(live \o batch.events) :
         l.event_id = e.event_id /\ l.kind.tag = e.kind.tag

(* When all a transcript says of a call is that it failed, the segmenter   *)
(* learns it and drops the edits of that call; when all it says is that it *)
(* worked, they stand. It must find the call under the name the edit has,  *)
(* and Claude's edits, written beside the outcome of a call, have a name.  *)
VerdictReachesTheEdit ==
  \A e \in {d \in ToSet(whole.events) : d.kind.tag = "file_edit"} :
    LET stated == StatedOf(e.kind.call)
    IN  IF e.kind.call = NoId
        THEN tool = "claude_code" => Outcomes(taken[e.line]) = {}
        ELSE Cardinality(stated) = 1 =>
               \A o \in stated : TakenForFailed(whole.events, e.kind.call) = ~o.ok
=============================================================================
