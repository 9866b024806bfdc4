----------------------------- MODULE Anonymizer -----------------------------
(***************************************************************************)
(* The anonymizer sidecar's request pipeline: pipeline.py over             *)
(* mapping_store.py and audit_log.write, as the endpoints of api.py call   *)
(* it.                                                                     *)
(*                                                                         *)
(* The endpoints are coroutines of one event loop and await nothing while  *)
(* they work, so at most one of /anonymize, /restore, /tool_call and       *)
(* /purge runs at a time: job is the one on the loop.  Its durable writes  *)
(* (a row, an audit line) are nevertheless separate steps, because the     *)
(* process can die and a write can raise between any two of them, and      *)
(* because the load watcher is a thread of its own that changes the mode   *)
(* meanwhile.  /restore_stream is a generator: it gives the loop away      *)
(* after every chunk it yields.                                            *)
(***************************************************************************)
EXTENDS Masking

CONSTANTS
    Workspaces, Sessions,
    Streams,       \* concurrent /restore_stream responses
    Tools,         \* tool names
    ToolPolicy,    \* tool |-> [mode, keys], ToolPolicies.for_tool
    ArgKeys,       \* names of tool arguments
    UserRequests,  \* the texts sent to /anonymize, with the policy_profile
    LlmTexts,      \* the texts sent to /restore and /restore_stream
    ToolArgs,      \* the argument records sent to /tool_call/deanonymize
    MaxRequests,   \* bound on the calls of the endpoints
    MaxStoring     \* bound on the calls of which /anonymize may be the last

ToolModes == {"deanonymize", "forbid", "forward_masked", "forward_then_remask"}

ASSUME AnonymizerAssumption ==
    /\ UserRequests \subseteq [profile : Profiles, text : Seq(Tokens)]
    /\ \A u \in UserRequests : Len(u.text) <= MaxText
    /\ LlmTexts \subseteq Seq(Tokens)
    /\ ToolArgs \subseteq [ArgKeys -> Tokens]
    /\ ToolPolicy \in [Tools -> [mode : ToolModes, keys : SUBSET ArgKeys]]
    /\ MaxRequests \in Nat /\ MaxStoring \in Nat

VARIABLES
    rows,       \* workspace |-> placeholder |-> the mappings row, or NoRow
    audit,      \* the events in the audit files
    mode,       \* DegradedWatcher.current()
    job,        \* the endpoint running on the event loop, or Idle
    stream,     \* the state of each /restore_stream generator
    requests,   \* the number of calls so far; the last one's request_id
    \* History, read by no action of the sidecar:
    replies,    \* the /anonymize replies the callers received
    delivered,  \* the originals that left the sidecar, and by which endpoint
    aborted,    \* requests that raised or died half way
    purged,     \* requests whose workspace was purged after they answered
    owners,     \* workspace |-> surface |-> the sessions that had it stored
    forgotten   \* workspace |-> surfaces erased and not stored again since

history == <<replies, delivered, aborted, purged, owners, forgotten>>
vars == <<rows, audit, mode, job, stream, requests, history>>

Requests == 1..MaxRequests
UserTexts == {u.text : u \in UserRequests}
NoRow == [none |-> TRUE]
Idle == [op |-> "idle"]

\* A row decrypts to its original; req is the request that wrote it.
Row == [original : Surfaces, session : Sessions, req : Requests]

\* An anonymize event records the mode the text was masked in; the mode the
\* other events record is that of the moment and no property is about it.
AnonymizeEvent == [type : {"anonymize"}, ws : Workspaces, ph : Placeholders,
                   req : Requests, mode : Modes]
RestoreEvent == [type : {"restore"}, ws : Workspaces, ph : Placeholders, req : Requests]
ToolEvent == [type : {"tool_call_deanonymize"}, ws : Workspaces, tool : Tools, req : Requests]

\* todo: leaders not stored yet; cur: the leader stored and not audited, or 0.
AnonymizeJob == [op : {"anonymize"}, ws : Workspaces, session : Sessions,
                 profile : Profiles, text : UserTexts, mode : Modes,
                 req : Requests, todo : SUBSET (1..MaxText), cur : 0..MaxText]
\* todo: restored placeholders not audited yet.
RestoreJob == [op : {"restore"}, ws : Workspaces, text : LlmTexts,
               req : Requests, todo : SUBSET Placeholders]
ToolJob == [op : {"tool"}, ws : Workspaces, tool : Tools, args : ToolArgs,
            keys : SUBSET ArgKeys, req : Requests, audited : BOOLEAN]

Stream == [ws : Workspaces, req : Requests, todo : Seq(Tokens)]

Reply == [ws : Workspaces, req : Requests, profile : Profiles,
          text : UserTexts, masked : Seq(Tokens), degraded : BOOLEAN]
Delivery == [via : {"restore", "tool", "stream"}, ws : Workspaces,
             req : Requests, ph : Placeholders, s : Surfaces]

TypeOK ==
    /\ rows \in [Workspaces -> [Placeholders -> Row \cup {NoRow}]]
    /\ audit \subseteq AnonymizeEvent \cup RestoreEvent \cup ToolEvent
    /\ mode \in Modes
    /\ job \in {Idle} \cup AnonymizeJob \cup RestoreJob \cup ToolJob
    /\ stream \in [Streams -> {Idle} \cup Stream]
    /\ requests \in 0..MaxRequests
    /\ replies \subseteq Reply
    /\ delivered \subseteq Delivery
    /\ aborted \subseteq Requests
    /\ purged \subseteq Requests
    /\ owners \in [Workspaces -> [Surfaces -> SUBSET Sessions]]
    /\ forgotten \in [Workspaces -> SUBSET Surfaces]

Init ==
    /\ rows = [w \in Workspaces |-> [p \in Placeholders |-> NoRow]]
    /\ audit = {}
    /\ mode = "full"
    /\ job = Idle
    /\ stream = [st \in Streams |-> Idle]
    /\ requests = 0
    /\ replies = {}
    /\ delivered = {}
    /\ aborted = {}
    /\ purged = {}
    /\ owners = [w \in Workspaces |-> [s \in Surfaces |-> {}]]
    /\ forgotten = [w \in Workspaces |-> {}]

----------------------------------------------------------------------------
(* The mapping store.                                                      *)

\* MappingStore.get: NoRow stands for None.
HasRow(ws, p) == p \in Placeholders /\ rows[ws][p] # NoRow

\* Mutant: one connection shared by every workspace.
putShared(ws, p, original, session, req) ==
    rows' = [w \in Workspaces |-> [rows[w] EXCEPT ![p] =
                [original |-> original, session |-> session, req |-> req]]]

\* MappingStore.put, INSERT OR REPLACE.
put(ws, p, original, session, req) ==
    rows' = [rows EXCEPT ![ws][p] =
                [original |-> original, session |-> session, req |-> req]]

\* MappingStore.purge: the rows of the placeholders in gone are deleted.
PurgeRows(ws, gone) ==
    rows' = [rows EXCEPT ![ws] = [p \in Placeholders |->
                IF p \in gone THEN NoRow ELSE rows[ws][p]]]

\* unmask_text / _substitute_placeholders on one token: a placeholder with a
\* row becomes its original, anything else stays as it is.
UnmaskToken(ws, tok) ==
    IF tok.kind = "ph" /\ HasRow(ws, tok.ph)
      THEN Surface(rows[ws][tok.ph].original)
      ELSE tok

Unmask(ws, text) == [i \in DOMAIN text |-> UnmaskToken(ws, text[i])]

\* The placeholders of a text that have a row: restored_phs.
Restorable(ws, text) ==
    {p \in Placeholders : HasRow(ws, p) /\ \E i \in DOMAIN text : text[i] = Ph(p)}

Delivered(via, ws, req, phs) ==
    {[via |-> via, ws |-> ws, req |-> req, ph |-> p, s |-> rows[ws][p].original]
        : p \in phs}

----------------------------------------------------------------------------
(* POST /anonymize                                                         *)

NewRequest ==
    /\ job = Idle
    /\ requests < MaxRequests
    /\ requests' = requests + 1

\* The mode is read once, before the text is masked.
AnonymizeStart(ws, session, profile, text) ==
    /\ NewRequest
    /\ requests < MaxStoring
    /\ job' = [op |-> "anonymize", ws |-> ws, session |-> session,
               profile |-> profile, text |-> text, mode |-> mode,
               req |-> requests + 1,
               todo |-> Leaders(text, profile, mode), cur |-> 0]
    /\ UNCHANGED <<rows, audit, mode, stream, history>>

\* Mutant: the event is left out when the placeholder already has a row.
AnonymizePutUnaudited ==
    /\ job.op = "anonymize"
    /\ job.cur = 0
    /\ \E i \in job.todo :
        LET s == job.text[i].s
            p == PlaceholderAt(job.text, job.profile, job.mode, i)
        IN  /\ \A j \in job.todo : i <= j
            /\ put(job.ws, p, s, job.session, job.req)
            /\ job' = [job EXCEPT !.todo = @ \ {i},
                                  !.cur = IF HasRow(job.ws, p) THEN 0 ELSE i]
            /\ owners' = [owners EXCEPT ![job.ws][s] = @ \cup {job.session}]
            /\ forgotten' = [forgotten EXCEPT ![job.ws] =
                              {t \in @ : ~SameSubject(t, s)}]
    /\ UNCHANGED <<audit, mode, stream, requests, replies, delivered, aborted, purged>>

\* The rows are written in the order of the text, each followed by its event.
AnonymizePut ==
    /\ job.op = "anonymize"
    /\ job.cur = 0
    /\ \E i \in job.todo :
        LET s == job.text[i].s
            p == PlaceholderAt(job.text, job.profile, job.mode, i)
        IN  /\ \A j \in job.todo : i <= j
            /\ put(job.ws, p, s, job.session, job.req)
            /\ job' = [job EXCEPT !.todo = @ \ {i}, !.cur = i]
            /\ owners' = [owners EXCEPT ![job.ws][s] = @ \cup {job.session}]
            /\ forgotten' = [forgotten EXCEPT ![job.ws] =
                              {t \in @ : ~SameSubject(t, s)}]
    /\ UNCHANGED <<audit, mode, stream, requests, replies, delivered, aborted, purged>>

AnonymizeAudit ==
    /\ job.op = "anonymize"
    /\ job.cur # 0
    /\ audit' = audit \cup
         {[type |-> "anonymize", ws |-> job.ws, req |-> job.req, mode |-> job.mode,
           ph |-> PlaceholderAt(job.text, job.profile, job.mode, job.cur)]}
    /\ job' = [job EXCEPT !.cur = 0]
    /\ UNCHANGED <<rows, mode, stream, requests, history>>

\* Mutant: the flag is computed from the mode at the end of the request.
AnonymizeReturnLateMode ==
    /\ job.op = "anonymize"
    /\ job.cur = 0 /\ job.todo = {}
    /\ replies' = replies \cup
         {[ws |-> job.ws, req |-> job.req, profile |-> job.profile, text |-> job.text,
           masked |-> MaskText(job.text, job.profile, job.mode),
           degraded |-> mode # "full"]}
    /\ job' = Idle
    /\ UNCHANGED <<rows, audit, mode, stream, requests,
                   delivered, aborted, purged, owners, forgotten>>

AnonymizeReturn ==
    /\ job.op = "anonymize"
    /\ job.cur = 0 /\ job.todo = {}
    /\ replies' = replies \cup
         {[ws |-> job.ws, req |-> job.req, profile |-> job.profile, text |-> job.text,
           masked |-> MaskText(job.text, job.profile, job.mode),
           degraded |-> job.mode # "full"]}
    /\ job' = Idle
    /\ UNCHANGED <<rows, audit, mode, stream, requests,
                   delivered, aborted, purged, owners, forgotten>>

----------------------------------------------------------------------------
(* POST /restore: every row is looked up first, then each restored         *)
(* placeholder is audited (in the order of a Python set), then the text    *)
(* goes back to the caller.                                                *)

RestoreStart(ws, text) ==
    /\ NewRequest
    /\ job' = [op |-> "restore", ws |-> ws, text |-> text, req |-> requests + 1,
               todo |-> Restorable(ws, text)]
    /\ UNCHANGED <<rows, audit, mode, stream, history>>

RestoreAudit ==
    /\ job.op = "restore"
    /\ \E p \in job.todo :
        /\ audit' = audit \cup {[type |-> "restore", ws |-> job.ws, ph |-> p, req |-> job.req]}
        /\ job' = [job EXCEPT !.todo = @ \ {p}]
    /\ UNCHANGED <<rows, mode, stream, requests, history>>

\* Mutant: the reply does not wait for the audit lines.
RestoreReturnEarly ==
    /\ job.op = "restore"
    /\ delivered' = delivered \cup
         Delivered("restore", job.ws, job.req, Restorable(job.ws, job.text))
    /\ job' = Idle
    /\ UNCHANGED <<rows, audit, mode, stream, requests,
                   replies, aborted, purged, owners, forgotten>>

RestoreReturn ==
    /\ job.op = "restore"
    /\ job.todo = {}
    /\ delivered' = delivered \cup
         Delivered("restore", job.ws, job.req, Restorable(job.ws, job.text))
    /\ job' = Idle
    /\ UNCHANGED <<rows, audit, mode, stream, requests,
                   replies, aborted, purged, owners, forgotten>>

----------------------------------------------------------------------------
(* POST /tool_call/deanonymize.  The caller may override the mode of the   *)
(* loaded policy, but not its list of keys.                                *)

\* The arguments in which a placeholder is replaced.
DeanonymizedKeys(ws, tool, args) ==
    {k \in ArgKeys :
        /\ ToolPolicy[tool].keys = {} \/ k \in ToolPolicy[tool].keys
        /\ UnmaskToken(ws, args[k]) # args[k]}

ToolCall(ws, tool, args, m) ==
    /\ NewRequest
    /\ m \notin {"forbid", "forward_masked"}
    /\ LET keys == DeanonymizedKeys(ws, tool, args)
       IN  job' = [op |-> "tool", ws |-> ws, tool |-> tool, args |-> args,
                   keys |-> keys, req |-> requests + 1, audited |-> keys = {}]
    /\ UNCHANGED <<rows, audit, mode, stream, history>>

\* forbid answers 403 and forward_masked returns the arguments untouched.
ToolCallMasked(ws, tool, args, m) ==
    /\ NewRequest
    /\ m \in {"forbid", "forward_masked"}
    /\ UNCHANGED <<rows, audit, mode, job, stream, history>>

ToolStart(ws, tool, args) ==
    \E override \in {"none"} \cup ToolModes :
        LET m == IF override = "none" THEN ToolPolicy[tool].mode ELSE override
        IN  ToolCall(ws, tool, args, m) \/ ToolCallMasked(ws, tool, args, m)

ToolAudit ==
    /\ job.op = "tool"
    /\ ~job.audited
    /\ audit' = audit \cup {[type |-> "tool_call_deanonymize", ws |-> job.ws,
                             tool |-> job.tool, req |-> job.req]}
    /\ job' = [job EXCEPT !.audited = TRUE]
    /\ UNCHANGED <<rows, mode, stream, requests, history>>

ToolReturn ==
    /\ job.op = "tool"
    /\ job.audited
    /\ delivered' = delivered \cup
         Delivered("tool", job.ws, job.req, {job.args[k].ph : k \in job.keys})
    /\ job' = Idle
    /\ UNCHANGED <<rows, audit, mode, stream, requests,
                   replies, aborted, purged, owners, forgotten>>

----------------------------------------------------------------------------
(* POST /restore_stream: the generator looks a placeholder up when the     *)
(* chunk that completes it is fed, and writes no audit event.              *)

StreamOpen(st, ws, text) ==
    /\ NewRequest
    /\ stream[st] = Idle
    /\ stream' = [stream EXCEPT ![st] =
                    [ws |-> ws, req |-> requests + 1, todo |-> text]]
    /\ UNCHANGED <<rows, audit, mode, job, history>>

StreamChunk(st) ==
    /\ job = Idle
    /\ stream[st] # Idle
    /\ stream[st].todo # <<>>
    /\ delivered' = delivered \cup
         Delivered("stream", stream[st].ws, stream[st].req,
                   Restorable(stream[st].ws, <<Head(stream[st].todo)>>))
    /\ stream' = [stream EXCEPT ![st].todo = Tail(@)]
    /\ UNCHANGED <<rows, audit, mode, job, requests,
                   replies, aborted, purged, owners, forgotten>>

StreamEnd(st) ==
    /\ job = Idle
    /\ stream[st] # Idle
    /\ stream[st].todo = <<>>
    /\ stream' = [stream EXCEPT ![st] = Idle]
    /\ UNCHANGED <<rows, audit, mode, job, requests, history>>

----------------------------------------------------------------------------
(* POST /workspaces/{ws}/purge, in its three scopes.  The audit is kept.   *)

Purged(ws) == purged' = purged \cup {r.req : r \in {q \in replies : q.ws = ws}}

\* Mutant: the rows an open stream may still need are kept.
PurgeAllButStreams(ws) ==
    /\ NewRequest
    /\ PurgeRows(ws, {p \in Placeholders : \A st \in Streams : stream[st] = Idle})
    /\ Purged(ws)
    /\ forgotten' = [forgotten EXCEPT ![ws] = Surfaces]
    /\ UNCHANGED <<audit, mode, job, stream, replies, delivered, aborted, owners>>

PurgeAll(ws) ==
    /\ NewRequest
    /\ PurgeRows(ws, Placeholders)
    /\ Purged(ws)
    /\ forgotten' = [forgotten EXCEPT ![ws] = Surfaces]
    /\ UNCHANGED <<audit, mode, job, stream, replies, delivered, aborted, owners>>

\* A surface is forgotten when no other session ever had its subject stored.
PurgeSession(ws, session) ==
    /\ NewRequest
    /\ PurgeRows(ws, {p \in Placeholders : HasRow(ws, p) /\ rows[ws][p].session = session})
    /\ Purged(ws)
    /\ forgotten' = [forgotten EXCEPT ![ws] =
        @ \cup {s \in Surfaces : \A t \in Surfaces :
                    SameSubject(s, t) => owners[ws][t] \subseteq {session}}]
    /\ UNCHANGED <<audit, mode, job, stream, replies, delivered, aborted, owners>>

\* Mutant: only one of the rows with the hash is deleted.
PurgeSubjectOnce(ws, subject) ==
    /\ NewRequest
    /\ LET theirs == {p \in Placeholders : HasRow(ws, p) /\ rows[ws][p].original = subject}
       IN  rows' = IF theirs = {} THEN rows
                   ELSE [rows EXCEPT ![ws][CHOOSE p \in theirs : TRUE] = NoRow]
    /\ Purged(ws)
    /\ forgotten' = [forgotten EXCEPT ![ws] = @ \cup {subject}]
    /\ UNCHANGED <<audit, mode, job, stream, replies, delivered, aborted, owners>>

\* subject_hash is the hash of a row's original; it is compared for equality,
\* so the subject can stand for its hash.
PurgeSubject(ws, subject) ==
    /\ NewRequest
    /\ PurgeRows(ws, {p \in Placeholders : HasRow(ws, p) /\ rows[ws][p].original = subject})
    /\ Purged(ws)
    /\ forgotten' = [forgotten EXCEPT ![ws] = @ \cup {subject}]
    /\ UNCHANGED <<audit, mode, job, stream, replies, delivered, aborted, owners>>

----------------------------------------------------------------------------
(* The watcher thread, failures and crashes.                               *)

ModeChange(m) ==
    /\ m # mode
    /\ mode' = m
    /\ UNCHANGED <<rows, audit, job, stream, requests, history>>

\* store.put or audit_log.write raises: the endpoint answers 500, and what it
\* has written stays.
HandlerFails ==
    /\ job # Idle
    /\ job' = Idle
    /\ aborted' = aborted \cup {job.req}
    /\ UNCHANGED <<rows, audit, mode, stream, requests,
                   replies, delivered, purged, owners, forgotten>>

\* The process dies and is started again: rows and audit lines are synced to
\* disk one by one, everything else is gone.
Crash ==
    /\ job # Idle \/ \E st \in Streams : stream[st] # Idle
    /\ job' = Idle
    /\ stream' = [st \in Streams |-> Idle]
    /\ mode' = "full"
    /\ aborted' = IF job = Idle THEN aborted ELSE aborted \cup {job.req}
    /\ UNCHANGED <<rows, audit, requests, replies, delivered, purged, owners, forgotten>>

Anonymize ==
    \/ \E ws \in Workspaces, session \in Sessions, u \in UserRequests :
          AnonymizeStart(ws, session, u.profile, u.text)
    \/ AnonymizePut
    \/ AnonymizeAudit
    \/ AnonymizeReturn

Restore ==
    \/ \E ws \in Workspaces, text \in LlmTexts : RestoreStart(ws, text)
    \/ RestoreAudit
    \/ RestoreReturn

Tool ==
    \/ \E ws \in Workspaces, tool \in Tools, args \in ToolArgs : ToolStart(ws, tool, args)
    \/ ToolAudit
    \/ ToolReturn

RestoreStream == \E st \in Streams :
    \/ \E ws \in Workspaces, text \in LlmTexts : StreamOpen(st, ws, text)
    \/ StreamChunk(st)
    \/ StreamEnd(st)

Purge == \E ws \in Workspaces :
    \/ PurgeAll(ws)
    \/ \E session \in Sessions : PurgeSession(ws, session)
    \/ \E subject \in Surfaces : PurgeSubject(ws, subject)

Next ==
    \/ Anonymize \/ Restore \/ Tool \/ RestoreStream \/ Purge
    \/ \E m \in Modes : ModeChange(m)
    \/ HandlerFails
    \/ Crash

Spec == Init /\ [][Next]_vars
----------------------------------------------------------------------------
(* Properties.                                                             *)

\* Restoring the masked text of a reply gives a text that names the same
\* subjects at the same places; what was not masked comes back as it was
\* sent, but for the placeholders the user typed, which stay defanged.
RoundTrips(r) ==
    LET back == Unmask(r.ws, r.masked)
    IN  \A i \in DOMAIN r.text :
            IF r.text[i].kind = "surface"
              THEN /\ back[i].kind = "surface"
                   /\ SameSubject(back[i].s, r.text[i].s)
              ELSE back[i] = Neutralise(r.text[i])

\* Some later request has stored a row in the reply's workspace.
Superseded(r) == \E p \in Placeholders :
    HasRow(r.ws, p) /\ rows[r.ws][p].req > r.req

\* The reply to the last request that stored anything in a workspace restores
\* to the caller's text, whatever mode and profile it was masked with and
\* whatever restores, tool calls, failures and requests to other workspaces
\* happened since (Pipeline.anonymize followed by Pipeline.restore).
LatestRoundTrip ==
    \A r \in replies : r.req \notin purged /\ ~Superseded(r) => RoundTrips(r)

\* A row whose anonymize event is missing from the audit is either the one the
\* running request is about to audit, or was written by a request that died
\* or raised between store.put and audit_log.write.
UnauditedOnlyIfAborted ==
    \A ws \in Workspaces : \A p \in Placeholders : HasRow(ws, p) =>
        LET q == rows[ws][p].req
        IN  \/ \E e \in audit : e.type = "anonymize" /\ e.ws = ws /\ e.ph = p /\ e.req = q
            \/ q \in aborted
            \/ job.op = "anonymize" /\ job.req = q /\ job.cur # 0

\* An original returned by /restore or /tool_call/deanonymize was audited
\* before it left the process, so no failure of the audit log can hide it.
DeliveredAudited ==
    \A d \in delivered :
        /\ d.via = "restore" => \E e \in audit :
              e.type = "restore" /\ e.ws = d.ws /\ e.req = d.req /\ e.ph = d.ph
        /\ d.via = "tool" => \E e \in audit :
              e.type = "tool_call_deanonymize" /\ e.ws = d.ws /\ e.req = d.req

\* An original is only ever given back in a workspace that stored it, and
\* under a placeholder that is tagged with a session that sent it.
WorkspaceIsolation ==
    /\ \A d \in delivered : owners[d.ws][d.s] # {}
    /\ \A ws \in Workspaces : \A p \in Placeholders : HasRow(ws, p) =>
          rows[ws][p].session \in owners[ws][rows[ws][p].original]

\* An erased original has no row left in its workspace (until it is sent
\* again), whichever of the three scopes of /purge erased it.
ForgottenGone ==
    \A ws \in Workspaces : \A p \in Placeholders :
        HasRow(ws, p) => rows[ws][p].original \notin forgotten[ws]

\* Once erased, an original is not given out any more, not even by a stream
\* that was opened before the purge: the generator's lookup is lazy.
ForgottenNotDelivered ==
    [][\A d \in delivered' \ delivered : d.s \notin forgotten[d.ws]]_vars

\* What the caller and the audit are told about the mode is what the text was
\* masked with, although the watcher may change the mode while the request
\* runs: a reply that is not flagged degraded hides every name the profile
\* masks, and the events of its request say so too.
ModeTruthful ==
    \A r \in replies :
        /\ ~r.degraded /\ IsAllowed("NAME", r.profile) =>
              \A i \in DOMAIN r.masked : r.masked[i].kind = "surface" => ~Person[r.masked[i].s]
        /\ \A e \in audit : e.type = "anonymize" /\ e.req = r.req =>
              (e.mode # "full") = r.degraded
============================================================================
