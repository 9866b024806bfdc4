--------------------------- MODULE PrivacyPlugin ----------------------------
(* The hooks of the privacy plugin (privacy-plugin/src), the retrying      *)
(* client through which they reach the anonymizer, and the turns of one    *)
(* workspace that run through them, in the order of full-flow.test.ts.     *)
(*                                                                         *)
(* The anonymizer executes a request in one step, as its event loop does   *)
(* (Anonymizer has the steps within); an attempt that failed for the       *)
(* client may still be executed, at any later time.  The agent, the model  *)
(* and the tools are the environment: a prompt may pick up an original on  *)
(* its way, the model answers with its prompt or calls a tool with it, and *)
(* a tool returns its first argument and an original of its own.           *)
EXTENDS Masking, ToolPolicies

CONSTANTS
    Turns,         \* turns of one workspace, of different sessions
    UserText,      \* turn |-> the text the user sends
    Context,       \* originals a prompt may pick up from memory or the system prompt
    Records,       \* originals a tool may return
    Short,         \* the surfaces of fewer than MIN_TEXT_LEN_FOR_NER characters
    SidecarModes,  \* the modes the anonymizer may be in
    maxRetries,    \* attempts of the client
    MaxLate        \* bound: failed attempts that wait to be executed

\* A turn adds at most three tokens to the user's: what the prompt picks up and
\* the two strings of a tool result.
ASSUME PluginAssumption ==
    /\ UserText \in [Turns -> Seq(Tokens)]
    /\ \A t \in Turns : Len(UserText[t]) > 0 /\ Len(UserText[t]) + 3 <= MaxText
    /\ Context \subseteq Surfaces /\ Records \subseteq Surfaces /\ Short \subseteq Surfaces
    /\ SidecarModes \subseteq Modes
    /\ maxRetries \in Nat \ {0} /\ MaxLate \in Nat

VARIABLES
    profile,    \* the workspace's policy_profile
    entries,    \* the policy table, as loaded at startup
    rows,       \* placeholder |-> the original it is mapped to, or "none"
    late,       \* failed attempts that the anonymizer may still execute
    pc,         \* turn |-> the hook it is in
    text,       \* turn |-> the prompt so far
    call,       \* turn |-> slot |-> the client call of that slot
    usedTool,   \* the turns that have called a tool
    \* History:
    degraded,   \* turns that got a reply masked outside the full mode
    seen,       \* turn |-> the originals the model was sent
    given,      \* the originals tools were given, with the tool and its trust
    shown,      \* turn |-> the originals its answer shows
    kept        \* originals written to long-term memory, with the turn

fixed == <<profile, entries>>
history == <<degraded, seen, given, shown, kept>>
vars == <<fixed, rows, late, pc, text, call, usedTool, history>>

\* The strings of a tool result are masked by parallel calls, one per slot.
Slots == {1, 2}

NoCall == [state |-> "none"]

\* A call the client makes: withRetry at its first attempt.
Post(op, txt, prof) == [state |-> "wait", op |-> op, text |-> txt, profile |-> prof, attempt |-> 1]

\* A call that is over: with a reply, or with the error the hook catches.
Reply(txt, found) == [state |-> "ok", text |-> txt, found |-> found]
Failure(error) == [state |-> error]

\* loadToolPolicies: the file in any order, or no readable file.
Tables == Orders(Table) \cup {<<>>}

\* AnonymizeRequest.policy_profile, which only pre_user_message sends.
DefaultProfile == "balanced"

Originals(txt) == {txt[i].s : i \in {j \in DOMAIN txt : txt[j].kind = "surface"}}

Init ==
    /\ profile \in Profiles
    /\ entries \in Tables
    /\ rows = [p \in Placeholders |-> "none"]
    /\ late = {}
    /\ pc = [t \in Turns |-> "idle"]
    /\ text = UserText
    /\ call = [t \in Turns |-> [i \in Slots |-> NoCall]]
    /\ usedTool = {}
    /\ degraded = {}
    /\ seen = [t \in Turns |-> {}]
    /\ given = {}
    /\ shown = [t \in Turns |-> {}]
    /\ kept = {}

-----------------------------------------------------------------------------
(* The anonymizer.                                                         *)

\* The rows after /anonymize of a text.
Stored(txt, prof, mode) ==
    LET number == [l \in Leaders(txt, prof, mode) |-> PlaceholderAt(txt, prof, mode, l)]
    IN  [p \in Placeholders |->
            IF p \in Range(number)
            THEN txt[CHOOSE l \in DOMAIN number : number[l] = p].s
            ELSE rows[p]]

\* /restore and /tool_call/deanonymize.
Restored(txt) ==
    [i \in DOMAIN txt |->
        IF txt[i].kind = "ph" /\ rows[txt[i].ph] # "none"
        THEN Surface(rows[txt[i].ph])
        ELSE txt[i]]

-----------------------------------------------------------------------------
(* The client: postJson, fetchWithTimeout and withRetry.                   *)

\* An attempt succeeds.
Answered(t, i) ==
    /\ call[t][i].state = "wait"
    /\ \/ \E mode \in SidecarModes :
            LET c == call[t][i]
            IN  /\ c.op = "anonymize"
                /\ rows' = Stored(c.text, c.profile, mode)
                /\ call' = [call EXCEPT ![t][i] = Reply(MaskText(c.text, c.profile, mode),
                                                        Detected(c.text, c.profile, mode) # {})]
                /\ degraded' = IF mode = "full" THEN degraded ELSE degraded \cup {t}
       \/ /\ call[t][i].op = "restore"
          /\ call' = [call EXCEPT ![t][i] = Reply(Restored(call[t][i].text), FALSE)]
          /\ UNCHANGED <<rows, degraded>>
    /\ UNCHANGED <<fixed, late, pc, text, usedTool, seen, given, shown, kept>>

\* The request of a failed attempt was lost, or is executed when it may be.
LeaveBehind(t, i) ==
    \/ UNCHANGED late
    \/ /\ call[t][i].op = "anonymize"
       /\ Cardinality(late) < MaxLate
       /\ late' = late \cup {[turn |-> t, slot |-> i, call |-> call[t][i]]}

\* A mutant of AttemptFails: the attempts are not counted.
AttemptFailsUncounted(t, i) ==
    /\ call[t][i].state = "wait"
    /\ LeaveBehind(t, i)
    /\ UNCHANGED <<fixed, rows, pc, text, usedTool, call, history>>

\* A network error or timeout ("unavailable") or a 5xx answer ("error"): the
\* client tries again, or gives up with that error.
AttemptFails(t, i) ==
    /\ call[t][i].state = "wait"
    /\ LeaveBehind(t, i)
    /\ IF call[t][i].attempt < maxRetries
       THEN call' = [call EXCEPT ![t][i].attempt = @ + 1]
       ELSE \E error \in {"unavailable", "error"} :
                call' = [call EXCEPT ![t][i] = Failure(error)]
    /\ UNCHANGED <<fixed, rows, pc, text, usedTool, history>>

\* A 4xx answer, or an abort while the body is read: not tried again.
AttemptRefused(t, i) ==
    /\ call[t][i].state = "wait"
    /\ LeaveBehind(t, i)
    /\ call' = [call EXCEPT ![t][i] = Failure("error")]
    /\ UNCHANGED <<fixed, rows, pc, text, usedTool, history>>

\* A request whose attempt failed is executed; nobody hears of it.
ExecuteLate(r) ==
    /\ \E mode \in SidecarModes : rows' = Stored(r.call.text, r.call.profile, mode)
    /\ late' = late \ {r}
    /\ UNCHANGED <<fixed, pc, text, call, usedTool, history>>

-----------------------------------------------------------------------------
(* The hooks.                                                              *)

Over(t, i) == call[t][i].state \notin {"none", "wait"}

Goto(t, label) == pc' = [pc EXCEPT ![t] = label]

\* The turn waits in a hook for one call.
Await(t, label, c) ==
    /\ Goto(t, label)
    /\ call' = [call EXCEPT ![t][1] = c]

\* The hook throws: the turn is aborted.
Throw(t) == Goto(t, "aborted") /\ UNCHANGED <<text, call, usedTool, seen, given, shown, kept>>

\* pre_user_message calls the anonymizer.
StartTurn(t) ==
    /\ pc[t] = "idle"
    /\ Await(t, "pre_user_message", Post("anonymize", text[t], profile))
    /\ UNCHANGED <<fixed, rows, late, text, usedTool, history>>

\* pre_user_message returns: masked, or unmasked in a permissive workspace
\* without an anonymizer.
PreUserMessage(t) ==
    /\ pc[t] = "pre_user_message"
    /\ Over(t, 1)
    /\ LET r == call[t][1]
       IN  \/ /\ r.state = "ok" \/ (r.state = "unavailable" /\ profile = "permissive")
              /\ text' = [text EXCEPT ![t] = IF r.state = "ok" THEN r.text ELSE @]
              /\ Goto(t, "assembling")
              /\ UNCHANGED <<call, usedTool, seen, given, shown, kept>>
           \/ /\ r.state = "error" \/ (r.state = "unavailable" /\ profile # "permissive")
              /\ Throw(t)
    /\ UNCHANGED <<fixed, rows, late, degraded>>

\* The agent assembles the prompt and pre_llm_call checks it.
Assemble(t) ==
    /\ pc[t] = "assembling"
    /\ \E picked \in {<<>>} \cup {<<Surface(s)>> : s \in Context} :
          /\ t \in usedTool => picked = <<>>
          /\ text' = [text EXCEPT ![t] = @ \o picked]
          /\ Await(t, "pre_llm_call", Post("anonymize", text[t] \o picked, DefaultProfile))
    /\ UNCHANGED <<fixed, rows, late, usedTool, history>>

\* A mutant of PreLlmCall: it fails open.
PreLlmCallFailsOpen(t) ==
    /\ pc[t] = "pre_llm_call"
    /\ Over(t, 1)
    /\ seen' = [seen EXCEPT ![t] = @ \cup Originals(text[t])]
    /\ Goto(t, "model")
    /\ UNCHANGED <<fixed, rows, late, degraded, text, call, usedTool, given, shown, kept>>

\* pre_llm_call returns and the prompt goes to the model.  What it finds aborts
\* a strict turn, stays in a permissive one and is masked in a balanced one.
PreLlmCall(t) ==
    /\ pc[t] = "pre_llm_call"
    /\ Over(t, 1)
    /\ LET r == call[t][1]
       IN  \/ /\ r.state = "ok" /\ (r.found => profile # "strict")
              /\ text' = [text EXCEPT ![t] =
                            IF r.found /\ profile = "balanced" THEN r.text ELSE @]
              /\ seen' = [seen EXCEPT ![t] = @ \cup Originals(text'[t])]
              /\ Goto(t, "model")
              /\ UNCHANGED <<call, usedTool, given, shown, kept>>
           \/ /\ r.state = "ok" => r.found /\ profile = "strict"
              /\ Throw(t)
    /\ UNCHANGED <<fixed, rows, late, degraded>>

\* One string of a tool result: too short for a round trip, or masked.
ReMask(txt) ==
    IF \E s \in Short : txt = <<Surface(s)>>
    THEN Reply(txt, FALSE)
    ELSE Post("anonymize", txt, DefaultProfile)

\* The tool is called and returns an array of two strings, which
\* post_tool_result masks in parallel.
CallTool(t, tool, trust, args) ==
    /\ given' = given \cup {[turn |-> t, tool |-> tool, trust |-> trust, s |-> s] :
                               s \in Originals(args)}
    /\ \E s \in Records :
          call' = [call EXCEPT ![t] = <<ReMask(<<args[1]>>), ReMask(<<Surface(s)>>)>>]
    /\ Goto(t, "post_tool_result")

\* The model calls a tool: pre_tool_call denies the call, lets it through as it
\* is, or has the anonymizer put the originals in.
PreToolCall(t, tool, trust) ==
    /\ pc[t] = "model"
    /\ t \notin usedTool
    /\ usedTool' = usedTool \cup {t}
    /\ LET verdict == resolvePolicy(entries, tool)
       IN  \/ /\ verdict = "deny"
              /\ Goto(t, "aborted")
              /\ UNCHANGED <<call, given>>
           \/ /\ verdict # "deny"
              /\ trust = "untrusted" \/ verdict # "deanonymize"
              /\ CallTool(t, tool, trust, text[t])
           \/ /\ verdict = "deanonymize" /\ trust = "trusted"
              /\ Goto(t, "pre_tool_call")
              /\ call' = [call EXCEPT ![t] = <<Post("restore", text[t], DefaultProfile),
                                               [state |-> "none", tool |-> tool]>>]
              /\ UNCHANGED given
    /\ UNCHANGED <<fixed, rows, late, text, degraded, seen, shown, kept>>

\* pre_tool_call returns with the originals.
PreToolCallReturns(t) ==
    /\ pc[t] = "pre_tool_call"
    /\ Over(t, 1)
    /\ \/ /\ call[t][1].state = "ok"
          /\ CallTool(t, call[t][2].tool, "trusted", call[t][1].text)
          /\ UNCHANGED <<text, usedTool, seen, shown, kept>>
       \/ call[t][1].state # "ok" /\ Throw(t)
    /\ UNCHANGED <<fixed, rows, late, degraded>>

\* post_tool_result returns: Promise.all waits for every string or throws with
\* the first error, and leaves the other calls running.
PostToolResult(t) ==
    /\ pc[t] = "post_tool_result"
    /\ \/ /\ \A i \in Slots : call[t][i].state = "ok"
          /\ text' = [text EXCEPT ![t] = @ \o call[t][1].text \o call[t][2].text]
          /\ Goto(t, "assembling")
          /\ UNCHANGED <<call, usedTool, seen, given, shown, kept>>
       \/ /\ \E i \in Slots : call[t][i].state \in {"unavailable", "error"}
          /\ Throw(t)
    /\ UNCHANGED <<fixed, rows, late, degraded>>

\* The model answers: post_llm_response asks for the originals.
ModelAnswers(t) ==
    /\ pc[t] = "model"
    /\ Await(t, "post_llm_response", Post("restore", text[t], DefaultProfile))
    /\ UNCHANGED <<fixed, rows, late, text, usedTool, history>>

\* post_llm_response returns, with the placeholders when there is no
\* anonymizer; the agent then keeps the answer in its memory, by way of
\* pre_memory_write.
PostLlmResponse(t) ==
    /\ pc[t] = "post_llm_response"
    /\ Over(t, 1)
    /\ \/ /\ call[t][1].state \in {"ok", "unavailable"}
          /\ LET answer == IF call[t][1].state = "ok" THEN call[t][1].text ELSE text[t]
             IN  /\ shown' = [shown EXCEPT ![t] = Originals(answer)]
                 /\ text' = [text EXCEPT ![t] = answer]
                 /\ Await(t, "pre_memory_write", Post("anonymize", answer, DefaultProfile))
          /\ UNCHANGED <<usedTool, seen, given, kept>>
       \/ call[t][1].state = "error" /\ Throw(t)
    /\ UNCHANGED <<fixed, rows, late, degraded>>

\* A mutant of PreMemoryWrite: it fails open like post_llm_response.
PreMemoryWriteFailsOpen(t) ==
    /\ pc[t] = "pre_memory_write"
    /\ Over(t, 1)
    /\ kept' = kept \cup {[turn |-> t, s |-> s] :
                  s \in Originals(IF call[t][1].state = "ok" THEN call[t][1].text ELSE text[t])}
    /\ Goto(t, "done")
    /\ UNCHANGED <<fixed, rows, late, degraded, text, call, usedTool, seen, given, shown>>

\* pre_memory_write returns and the memory is written; or it throws and the
\* write is dropped.
PreMemoryWrite(t) ==
    /\ pc[t] = "pre_memory_write"
    /\ Over(t, 1)
    /\ kept' = IF call[t][1].state = "ok"
               THEN kept \cup {[turn |-> t, s |-> s] : s \in Originals(call[t][1].text)}
               ELSE kept
    /\ Goto(t, "done")
    /\ UNCHANGED <<fixed, rows, late, degraded, text, call, usedTool, seen, given, shown>>

-----------------------------------------------------------------------------
Client(t, i) == AttemptRefused(t, i) \/ AttemptFails(t, i) \/ Answered(t, i)

Hook(t) ==
    \/ StartTurn(t)
    \/ PreUserMessage(t)
    \/ Assemble(t)
    \/ PreLlmCall(t)
    \/ \E tool \in ToolNames, trust \in {"trusted", "untrusted"} : PreToolCall(t, tool, trust)
    \/ PreToolCallReturns(t)
    \/ PostToolResult(t)
    \/ ModelAnswers(t)
    \/ PostLlmResponse(t)
    \/ PreMemoryWrite(t)

Next ==
    \/ \E t \in Turns : Hook(t) \/ \E i \in Slots : Client(t, i)
    \/ \E r \in late : ExecuteLate(r)

Spec == Init /\ [][Next]_vars

\* The promises settle: a timeout ends every attempt, and the agent goes on.
Fairness == \A t \in Turns : WF_vars(Hook(t)) /\ \A i \in Slots : WF_vars(Client(t, i))

FairSpec == Spec /\ Fairness

-----------------------------------------------------------------------------
(* Properties.                                                             *)

Hooks == {"pre_user_message", "pre_llm_call", "pre_tool_call", "post_tool_result",
          "post_llm_response", "pre_memory_write"}

\* Every variable has its type.
TypeOK ==
    /\ profile \in Profiles
    /\ entries \in Tables
    /\ rows \in [Placeholders -> Surfaces \cup {"none"}]
    /\ pc \in [Turns -> Hooks \cup {"idle", "assembling", "model", "done", "aborted"}]
    /\ \A t \in Turns :
          /\ text[t] \in Seq(Tokens)
          /\ \A i \in Slots : call[t][i].state = "wait" => call[t][i].attempt \in 1..maxRetries
    /\ usedTool \subseteq Turns /\ degraded \subseteq Turns
    /\ seen \in [Turns -> SUBSET Surfaces] /\ shown \in [Turns -> SUBSET Surfaces]
    /\ kept \subseteq [turn : Turns, s : Surfaces]

\* What the anonymizer detects in its full mode.
Known(s) == TypeIn(s, "full") # "none"

\* The state is well typed, and in a strict or balanced workspace no original
\* the detectors know reaches the model: not the user's, not one the prompt
\* picked up, not a tool's, not one too short to be re-masked, and not when
\* calls fail.  Only a reply masked in a degraded mode, which the hooks do not
\* look at, lets one through.
ModelSeesNoOriginal ==
    /\ TypeOK
    /\ profile # "permissive" => \A t \in Turns :
          (\E s \in seen[t] : Known(s)) => t \in degraded

\* Long-term memory never holds an original the detectors know, in no profile:
\* pre_memory_write fails closed (pre-memory-write.ts:14-17).
MemoryHoldsNoOriginal == \A k \in kept : Known(k.s) => k.turn \in degraded

\* A tool gets an original that the model did not see only when it is trusted
\* (pre-tool-call.ts:19-21) and the narrowest entry of the policy file that
\* matches it says deanonymize, wherever that entry stands in the file
\* (tool-policies.ts:5-11).  152fz-checklist.md:32-33 says the opposite of
\* untrusted tools; plugin-architecture.md:96 agrees with the code.
OriginalsOnlyToTrusted ==
    \A g \in given :
        g.s \notin seen[g.turn] => g.trust = "trusted" /\ Says(Table, g.tool, "deanonymize")

\* Every turn ends, whatever the anonymizer does: with an answer or an error.
EveryTurnEnds == \A t \in Turns : <>(pc[t] \in {"done", "aborted"})

\* The originals that a turn's own data contain.
Own(t) == Originals(UserText[t]) \cup Context \cup Records

\* The answer of a turn shows no original of another turn
\* (pre-user-message.ts:29-31: placeholders are deduplicated within a
\* workspace across requests).
NoForeignOriginal == \A t \in Turns : shown[t] \subseteq Own(t)
=============================================================================
