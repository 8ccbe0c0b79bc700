--------------------------- MODULE MCNativeStores ---------------------------
(***************************************************************************)
(* How each tool lays a conversation out in its store. Rows have what the  *)
(* adapters read of them; times that a tool does not always write are left *)
(* out of some.                                                            *)
(***************************************************************************)
EXTENDS NativeStores

MCTexts == <<"m1", "m2", "m3", "m4">>

SessionsIn(conv) ==
  SetToSortSeq({m.session : m \in ToSet(conv)}, <)

At(conv, n) == SetToSortSeq({i \in DOMAIN conv : conv[i].session = n}, <)

Each(list, Op(_)) == [k \in DOMAIN list |-> Op(list[k])]

Ended(conv) == SetToSortSeq({i \in DOMAIN conv : conv[i].call \in {"ok", "failed"}}, <)

Calls(conv, i) ==
  IF conv[i].call = "no" THEN <<>> ELSE <<[id |-> CallId(i), name |-> "edit"]>>

(* Hermes: the answer of a tool is a row of its own, written when it ends. *)
HermesStore(conv) ==
  LET row(i, role, text, call, calls) ==
        [id |-> i, session |-> SessionId(conv[i].session), role |-> role,
         text |-> text, call |-> call, calls |-> calls, ts |-> <<i>>]
      message(i) == row(i, conv[i].role, <<TextAt[i]>>, NoId, Calls(conv, i))
      answer(i)  == row(i, "tool", <<"done">>, CallId(i), <<>>)
  IN  [sessions |-> Each(SessionsIn(conv), LAMBDA n : [id |-> SessionId(n), ts |-> <<n>>]),
       messages |-> [i \in DOMAIN conv |-> message(i)] \o Each(Ended(conv), answer)]

(* OpenCode: a message is a row and its parts are rows.                    *)
OpenCodeStore(conv) ==
  LET part(i, type) ==
        [session |-> SessionId(conv[i].session), message |-> i, type |-> type,
         text |-> TextAt[i], call |-> CallId(i), name |-> "edit",
         status |-> CASE conv[i].call = "ok"     -> "completed"
                      [] conv[i].call = "failed" -> "error"
                      [] OTHER                   -> "running"]
      withCalls == SetToSortSeq({i \in DOMAIN conv : conv[i].call # "no"}, <)
  IN  [sessions |-> Each(SessionsIn(conv), LAMBDA n : [id |-> SessionId(n), ts |-> <<n>>]),
       messages |-> [i \in DOMAIN conv |->
                       [id |-> i, session |-> SessionId(conv[i].session),
                        role |-> conv[i].role, ts |-> <<i>>]],
       parts    |-> Each(withCalls, LAMBDA i : part(i, "tool"))
                    \o [i \in DOMAIN conv |-> part(i, "text")]]

(* VS Code: a request and all that answers it, up to the next request.     *)
VsCodeStore(conv) ==
  LET answers(i) ==
        {j \in DOMAIN conv :
           /\ j > i /\ conv[j].session = conv[i].session /\ conv[j].role = "assistant"
           /\ ~\E k \in (i + 1) .. j : conv[k].session = conv[i].session /\ conv[k].role = "user"}
      part(j, kind) == [kind |-> kind, text |-> TextAt[j], call |-> CallId(j),
                        tool |-> "edit", path |-> None]
      parts(j) == <<part(j, "markdownContent")>>
                  \o (IF conv[j].call = "no" THEN <<>>
                      ELSE <<part(j, "toolInvocationSerialized")>>)
      request(i) == [id |-> <<"q", i>>, response |-> NoId, ts |-> <<i>>, text |-> TextAt[i],
                     parts |-> FlattenSeq(Each(SetToSortSeq(answers(i), <), parts))]
      users(n) == SetToSortSeq({i \in DOMAIN conv :
                    conv[i].session = n /\ conv[i].role = "user"}, <)
  IN  Each(SessionsIn(conv), LAMBDA n :
        [id |-> SessionId(n), ts |-> <<n>>, listed |-> TRUE,
         requests |-> Each(users(n), request)])

(* Cursor: the first session lists its bubbles, which then have no time;   *)
(* the others do not, and their bubbles do. Two rows are damaged.          *)
CursorStore(conv) ==
  LET call(i) == IF conv[i].call = "no" THEN Curs!NoTool
        ELSE [call |-> IF i = 2 THEN NoId ELSE CallId(i), model_call |-> CallId(i),
              name |-> "edit_file", raw |-> Curs!NoPaths, params |-> [Curs!NoPaths EXCEPT !.relative = "f"],
              status |-> CASE conv[i].call = "ok"     -> "completed"
                           [] conv[i].call = "failed" -> (IF i = 2 THEN "error" ELSE "cancelled")
                           [] OTHER                   -> "loading"]
      listed(n) == n = 1
      bubble(i) == [json |-> TRUE, composer |-> SessionId(conv[i].session),
                    id |-> <<"bubble", MaxMessages - i>>,
                    type |-> IF conv[i].role = "user" THEN 1 ELSE 2,
                    texts |-> IF i = 1 THEN <<"", TextAt[i]>> ELSE <<TextAt[i], "rich">>,
                    created |-> IF listed(conv[i].session) THEN 0 ELSE i, tool |-> call(i)]
      composer(n) == [json |-> TRUE, id |-> SessionId(n), ts |-> <<n>>,
                      headers |-> IF listed(n)
                                  THEN Each(At(conv, n), LAMBDA i : bubble(i).id) ELSE <<>>]
  IN  [composers |-> {composer(n) : n \in ToSet(SessionsIn(conv))}
                     \cup {[json |-> FALSE, id |-> NoId, ts |-> <<>>, headers |-> <<>>]},
       bubbles   |-> {bubble(i) : i \in DOMAIN conv}
                     \cup {[json |-> FALSE, composer |-> SessionId(2),
                            id |-> <<"bubble", MaxMessages>>, type |-> 1,
                            texts |-> <<>>, created |-> 0, tool |-> Curs!NoTool]}]

(* The arguments of a Zed use, or the text of them.                        *)
ZedUse(i, asText) ==
  LET args == <<[path |-> "f", hunks |-> 1]>>
  IN  [id |-> CallId(i), name |-> "edit_file", edits |-> TRUE,
       args |-> IF asText THEN <<<<>>, args>> ELSE <<args>>]

(* Zed: a thread is one row, rewritten whole; half the messages have ids.  *)
(* The first thread is written the way older versions did, in JSON.        *)
ZedStore(conv) ==
  LET seg(i, kind) == [kind |-> kind, text |-> TextAt[i], use |-> ZedUse(i, i = 2)]
      calls(i)  == IF conv[i].call = "no" THEN <<>> ELSE <<seg(i, "ToolUse")>>
      result(i) == [key |-> CallId(i), id |-> IF i = 2 THEN NoId ELSE CallId(i),
                    error |-> IF conv[i].call = "failed" THEN "yes" ELSE None, ok |-> None]
      ended(i)  == conv[i].call \in {"ok", "failed"}
      message(i) ==
        [tag |-> IF conv[i].role = "user" THEN "User" ELSE "Agent", role |-> None,
         id |-> IF conv[i].role = "user" THEN <<"id", i>> ELSE NoId,
         ts |-> <<>>, content |-> <<<<seg(i, "Text")>> \o calls(i)>>, segments |-> <<>>,
         text |-> <<>>, thinking |-> <<>>, uses |-> <<>>,
         results |-> IF ended(i) THEN {result(i)} ELSE {}, listed |-> <<>>]
      legacy(i) ==
        [message(i) EXCEPT
           !.tag = None, !.role = conv[i].role, !.content = <<>>,
           !.segments = <<<<seg(i, "text")>>>>, !.results = {},
           !.uses = IF calls(i) = <<>> THEN <<>> ELSE <<ZedUse(i, FALSE)>>,
           !.listed = IF ended(i) THEN <<[result(i) EXCEPT !.id = CallId(i)]>> ELSE <<>>]
      value(n)  == [object |-> TRUE, has |-> TRUE,
                    messages |-> Each(At(conv, n), LAMBDA i :
                                   IF n = 1 THEN legacy(i) ELSE message(i))]
      thread(n) == [id |-> SessionId(n), created |-> <<>>, label |-> "json",
                    updated |-> <<Last(At(conv, n))>>,
                    data |-> [empty |-> FALSE, magic |-> n # 1,
                              unzipped |-> IF n = 1 THEN <<>> ELSE <<value(n)>>,
                              raw |-> IF n = 1 THEN <<value(n)>> ELSE <<>>]]
  IN  {thread(n) : n \in ToSet(SessionsIn(conv))}

MCStoreOf(t, conv) ==
  CASE t = "hermes"   -> HermesStore(conv)
    [] t = "opencode" -> OpenCodeStore(conv)
    [] t = "vscode"   -> VsCodeStore(conv)
    [] t = "cursor"   -> CursorStore(conv)
    [] t = "zed"      -> ZedStore(conv)
=============================================================================
