-------------------------- MODULE AnonymizerProofs --------------------------
(* The safety of the request pipeline for every set of workspaces, texts,  *)
(* tools and streams: type correctness, and the invariants that            *)
(* MCAnonymizer checks on a small instance.                                *)
EXTENDS Anonymizer, MaskingProofs

----------------------------------------------------------------------------
(* Typing of the endpoints' data.                                          *)

\* What the running endpoint has worked out holds until it returns: the
\* positions left to store are leaders of the text it masked, and the
\* arguments a tool call replaces are placeholders that have a row.
JobInv ==
    /\ job.op = "anonymize" =>
          /\ job.todo \subseteq Leaders(job.text, job.profile, job.mode)
          /\ job.cur # 0 => job.cur \in Leaders(job.text, job.profile, job.mode)
    /\ job.op = "tool" => \A k \in job.keys :
          \E p \in Placeholders : job.args[k] = Ph(p) /\ HasRow(job.ws, p)

LEMMA UserTextsType ==
    ASSUME NEW u \in UserRequests
    PROVE  u.text \in Texts /\ u.text \in UserTexts /\ u.profile \in Profiles
<1>1. u \in [profile : Profiles, text : Seq(Tokens)] /\ Len(u.text) <= MaxText
  BY AnonymizerAssumption
<1> QED BY <1>1 DEF Texts, UserTexts

LEMMA UserTextsTexts == UserTexts \subseteq Texts
BY UserTextsType DEF UserTexts

\* Work advances on an anonymize job: only the two positions change.
LEMMA AnonymizeJobStep ==
    ASSUME NEW j \in AnonymizeJob, NEW T \in SUBSET (1..MaxText), NEW c \in 0..MaxText
    PROVE  /\ [j EXCEPT !.cur = c] \in AnonymizeJob
           /\ [j EXCEPT !.todo = T, !.cur = c] \in AnonymizeJob
<1>1. j = [op |-> j.op, ws |-> j.ws, session |-> j.session, profile |-> j.profile,
           text |-> j.text, mode |-> j.mode, req |-> j.req, todo |-> j.todo, cur |-> j.cur]
  BY DEF AnonymizeJob
<1>2. ASSUME NEW U \in SUBSET (1..MaxText)
      PROVE  [op |-> j.op, ws |-> j.ws, session |-> j.session, profile |-> j.profile,
              text |-> j.text, mode |-> j.mode, req |-> j.req, todo |-> U, cur |-> c]
                \in AnonymizeJob
  BY DEF AnonymizeJob
<1>3. j.todo \in SUBSET (1..MaxText)
  BY DEF AnonymizeJob
<1>4. [j EXCEPT !.cur = c] =
        [op |-> j.op, ws |-> j.ws, session |-> j.session, profile |-> j.profile,
         text |-> j.text, mode |-> j.mode, req |-> j.req, todo |-> j.todo, cur |-> c]
  BY <1>1
<1>5. [j EXCEPT !.todo = T, !.cur = c] =
        [op |-> j.op, ws |-> j.ws, session |-> j.session, profile |-> j.profile,
         text |-> j.text, mode |-> j.mode, req |-> j.req, todo |-> T, cur |-> c]
  <2> DEFINE k == [j EXCEPT !.todo = T]
  <2>1. k = [op |-> j.op, ws |-> j.ws, session |-> j.session, profile |-> j.profile,
             text |-> j.text, mode |-> j.mode, req |-> j.req, todo |-> T, cur |-> j.cur]
    BY <1>1
  <2>2. [j EXCEPT !.todo = T, !.cur = c] = [k EXCEPT !.cur = c]
    OBVIOUS
  <2> HIDE DEF k
  <2>3. [k EXCEPT !.cur = c] =
          [op |-> j.op, ws |-> j.ws, session |-> j.session, profile |-> j.profile,
           text |-> j.text, mode |-> j.mode, req |-> j.req, todo |-> T, cur |-> c]
    BY <2>1
  <2> QED BY <2>2, <2>3
<1> QED BY <1>2, <1>3, <1>4, <1>5

\* The value of op tells which of the records job is.
LEMMA JobType ==
    ASSUME TypeOK
    PROVE  /\ job.op = "anonymize" => job \in AnonymizeJob
           /\ job.op = "restore" => job \in RestoreJob
           /\ job.op = "tool" => job \in ToolJob
           /\ job # Idle => job.op # "idle" /\ job.req \in Requests
BY DEF TypeOK, Idle, AnonymizeJob, RestoreJob, ToolJob

LEMMA RowType ==
    ASSUME TypeOK, NEW ws \in Workspaces, NEW p, HasRow(ws, p)
    PROVE  p \in Placeholders /\ rows[ws][p] \in Row
BY DEF TypeOK, HasRow

\* Storing a row keeps the store a store.
LEMMA PutType ==
    ASSUME TypeOK, NEW ws \in Workspaces, NEW p \in Placeholders, NEW s \in Surfaces,
           NEW session \in Sessions, NEW req \in Requests, put(ws, p, s, session, req)
    PROVE  /\ rows' \in [Workspaces -> [Placeholders -> Row \cup {NoRow}]]
           /\ rows'[ws][p] = [original |-> s, session |-> session, req |-> req]
           /\ \A v \in Workspaces : \A q \in Placeholders :
                 v # ws \/ q # p => rows'[v][q] = rows[v][q]
<1> DEFINE r == [original |-> s, session |-> session, req |-> req]
<1>1. r \in Row
  BY DEF Row
<1>2. rows' = [rows EXCEPT ![ws][p] = r]
  BY DEF put
<1>3. rows \in [Workspaces -> [Placeholders -> Row \cup {NoRow}]]
  BY DEF TypeOK
<1> HIDE DEF r
<1> SUFFICES /\ rows' \in [Workspaces -> [Placeholders -> Row \cup {NoRow}]]
             /\ rows'[ws][p] = r
             /\ \A v \in Workspaces : \A q \in Placeholders :
                   v # ws \/ q # p => rows'[v][q] = rows[v][q]
  BY DEF r
<1> QED BY <1>1, <1>2, <1>3

\* What leaves the sidecar is typed when every placeholder has a row.
LEMMA DeliveredType ==
    ASSUME TypeOK, NEW via \in {"restore", "tool", "stream"}, NEW ws \in Workspaces,
           NEW req \in Requests, NEW phs, \A p \in phs : HasRow(ws, p)
    PROVE  Delivered(via, ws, req, phs) \subseteq Delivery
BY RowType DEF Delivered, Delivery, Row

----------------------------------------------------------------------------
(* Type correctness.                                                       *)

LEMMA InitType == Init => TypeOK /\ JobInv
<1> SUFFICES ASSUME Init PROVE TypeOK /\ JobInv
  OBVIOUS
<1>1. TypeOK
  BY AnonymizerAssumption DEF Init, TypeOK, Modes, Idle
<1>2. JobInv
  BY DEF Init, JobInv, Idle
<1> QED BY <1>1, <1>2

LEMMA StutterType == TypeOK /\ JobInv /\ UNCHANGED vars => TypeOK' /\ JobInv'
BY DEF TypeOK, JobInv, HasRow, vars, history

LEMMA AnonymizeType ==
    ASSUME TypeOK, JobInv, Anonymize
    PROVE  TypeOK' /\ JobInv'
<1>1. ASSUME NEW ws \in Workspaces, NEW session \in Sessions, NEW u \in UserRequests,
             AnonymizeStart(ws, session, u.profile, u.text)
      PROVE  TypeOK' /\ JobInv'
  <2>1. u.text \in Texts /\ u.text \in UserTexts /\ u.profile \in Profiles /\ mode \in Modes
    BY UserTextsType DEF TypeOK
  <2>2. Leaders(u.text, u.profile, mode) \subseteq 1..MaxText
    BY <2>1, LeadersType
  <2>3. requests' = requests + 1 /\ requests' \in Requests /\ requests' \in 0..MaxRequests
    BY <1>1, AnonymizerAssumption DEF AnonymizeStart, NewRequest, TypeOK, Requests
  <2>4. job' \in AnonymizeJob
    BY <1>1, <2>1, <2>2, <2>3, MaskingAssumption DEF AnonymizeStart, AnonymizeJob
  <2>5. TypeOK'
    BY <1>1, <2>3, <2>4 DEF AnonymizeStart, TypeOK, history
  <2>6. JobInv'
    BY <1>1 DEF AnonymizeStart, JobInv
  <2> QED BY <2>5, <2>6
<1>2. ASSUME AnonymizePut PROVE TypeOK' /\ JobInv'
  <2>1. job \in AnonymizeJob /\ job.op = "anonymize"
    BY <1>2, JobType DEF AnonymizePut
  <2>2. PICK i \in job.todo :
          /\ put(job.ws, PlaceholderAt(job.text, job.profile, job.mode, i), job.text[i].s,
                 job.session, job.req)
          /\ job' = [job EXCEPT !.todo = @ \ {i}, !.cur = i]
          /\ owners' = [owners EXCEPT ![job.ws][job.text[i].s] = @ \cup {job.session}]
          /\ forgotten' = [forgotten EXCEPT ![job.ws] = {t \in @ : ~SameSubject(t, job.text[i].s)}]
    BY <1>2 DEF AnonymizePut
  <2>3. /\ job.ws \in Workspaces /\ job.session \in Sessions /\ job.req \in Requests
        /\ job.text \in Texts /\ job.profile \in Profiles /\ job.mode \in Modes
    BY <2>1, UserTextsTexts DEF AnonymizeJob
  <2>4. i \in Leaders(job.text, job.profile, job.mode)
    BY <2>1, <2>2 DEF JobInv
  <2>5. i \in Detected(job.text, job.profile, job.mode) /\ i \in 1..MaxText
    BY <2>3, <2>4, LeadersType
  <2>6. /\ job.text[i].s \in Surfaces
        /\ PlaceholderAt(job.text, job.profile, job.mode, i) \in Placeholders
    BY <2>3, <2>5, DetectedType, PlaceholderAtType
  <2>7. rows' \in [Workspaces -> [Placeholders -> Row \cup {NoRow}]]
    BY <2>2, <2>3, <2>6, PutType
  <2>8. job' \in AnonymizeJob
    <3>1. job.todo \ {i} \in SUBSET (1..MaxText) /\ i \in 0..MaxText
      BY <2>1, <2>5, MaskingAssumption DEF AnonymizeJob
    <3> QED BY <2>1, <2>2, <3>1, AnonymizeJobStep
  <2>9. owners' \in [Workspaces -> [Surfaces -> SUBSET Sessions]]
    BY <2>2, <2>3, <2>6 DEF TypeOK
  <2>10. forgotten' \in [Workspaces -> SUBSET Surfaces]
    BY <2>2, <2>3 DEF TypeOK
  <2>11. TypeOK'
    BY <1>2, <2>7, <2>8, <2>9, <2>10 DEF AnonymizePut, TypeOK
  <2>12. JobInv'
    BY <2>1, <2>2, <2>4, MaskingAssumption DEF JobInv, AnonymizeJob
  <2> QED BY <2>11, <2>12
<1>3. ASSUME AnonymizeAudit PROVE TypeOK' /\ JobInv'
  <2>1. job \in AnonymizeJob /\ job.op = "anonymize"
    BY <1>3, JobType DEF AnonymizeAudit
  <2>2. /\ job.ws \in Workspaces /\ job.req \in Requests
        /\ job.text \in Texts /\ job.profile \in Profiles /\ job.mode \in Modes
    BY <2>1, UserTextsTexts DEF AnonymizeJob
  <2>3. PlaceholderAt(job.text, job.profile, job.mode, job.cur) \in Placeholders
    BY <1>3, <2>1, <2>2, LeadersType, PlaceholderAtType DEF AnonymizeAudit, JobInv
  <2>4. audit' \subseteq AnonymizeEvent \cup RestoreEvent \cup ToolEvent
    BY <1>3, <2>2, <2>3 DEF AnonymizeAudit, TypeOK, AnonymizeEvent
  <2>5. job' \in AnonymizeJob
    <3>1. 0 \in 0..MaxText /\ {} \in SUBSET (1..MaxText)
      BY MaskingAssumption
    <3> QED BY <1>3, <2>1, <3>1, AnonymizeJobStep DEF AnonymizeAudit
  <2>6. TypeOK'
    BY <1>3, <2>4, <2>5 DEF AnonymizeAudit, TypeOK, history
  <2>7. JobInv'
    BY <1>3, <2>1 DEF AnonymizeAudit, JobInv, AnonymizeJob
  <2> QED BY <2>6, <2>7
<1>4. ASSUME AnonymizeReturn PROVE TypeOK' /\ JobInv'
  <2>1. job \in AnonymizeJob
    BY <1>4, JobType DEF AnonymizeReturn
  <2>2. /\ job.ws \in Workspaces /\ job.req \in Requests /\ job.text \in UserTexts
        /\ job.text \in Texts /\ job.profile \in Profiles /\ job.mode \in Modes
    BY <2>1, UserTextsTexts DEF AnonymizeJob
  <2>3. MaskText(job.text, job.profile, job.mode) \in Seq(Tokens)
    BY <2>2, MaskTextType
  <2>4. replies' \subseteq Reply
    <3> DEFINE flag == job.mode # "full"
               r == [ws |-> job.ws, req |-> job.req, profile |-> job.profile,
                     text |-> job.text, masked |-> MaskText(job.text, job.profile, job.mode),
                     degraded |-> flag]
    <3>1. flag \in BOOLEAN
      OBVIOUS
    <3>2. replies' = replies \cup {r}
      BY <1>4 DEF AnonymizeReturn
    <3> HIDE DEF flag
    <3>3. r \in Reply
      BY <2>2, <2>3, <3>1 DEF Reply
    <3> QED BY <3>2, <3>3 DEF TypeOK
  <2>5. TypeOK'
    BY <1>4, <2>4 DEF AnonymizeReturn, TypeOK
  <2>6. JobInv'
    BY <1>4 DEF AnonymizeReturn, JobInv, Idle
  <2> QED BY <2>5, <2>6
<1> QED BY <1>1, <1>2, <1>3, <1>4 DEF Anonymize

LEMMA RestoreType ==
    ASSUME TypeOK, JobInv, Restore
    PROVE  TypeOK' /\ JobInv'
<1>1. ASSUME NEW ws \in Workspaces, NEW text \in LlmTexts, RestoreStart(ws, text)
      PROVE  TypeOK' /\ JobInv'
  <2>1. requests' = requests + 1 /\ requests' \in Requests /\ requests' \in 0..MaxRequests
    BY <1>1, AnonymizerAssumption DEF RestoreStart, NewRequest, TypeOK, Requests
  <2>2. job' \in RestoreJob
    BY <1>1, <2>1 DEF RestoreStart, RestoreJob, Restorable
  <2>3. TypeOK'
    BY <1>1, <2>1, <2>2 DEF RestoreStart, TypeOK, history
  <2>4. JobInv'
    BY <1>1 DEF RestoreStart, JobInv
  <2> QED BY <2>3, <2>4
<1>2. ASSUME RestoreAudit PROVE TypeOK' /\ JobInv'
  <2>1. job \in RestoreJob
    BY <1>2, JobType DEF RestoreAudit
  <2>2. PICK p \in job.todo :
          /\ audit' = audit \cup {[type |-> "restore", ws |-> job.ws, ph |-> p, req |-> job.req]}
          /\ job' = [job EXCEPT !.todo = @ \ {p}]
    BY <1>2 DEF RestoreAudit
  <2>3. job' \in RestoreJob /\ job'.op = "restore"
    BY <2>1, <2>2 DEF RestoreJob
  <2>4. audit' \subseteq AnonymizeEvent \cup RestoreEvent \cup ToolEvent
    BY <2>1, <2>2 DEF RestoreJob, RestoreEvent, TypeOK
  <2>5. TypeOK'
    BY <1>2, <2>3, <2>4 DEF RestoreAudit, TypeOK, history
  <2>6. JobInv'
    BY <2>3 DEF JobInv
  <2> QED BY <2>5, <2>6
<1>3. ASSUME RestoreReturn PROVE TypeOK' /\ JobInv'
  <2>1. job \in RestoreJob
    BY <1>3, JobType DEF RestoreReturn
  <2>2. Delivered("restore", job.ws, job.req, Restorable(job.ws, job.text)) \subseteq Delivery
    BY <2>1, DeliveredType DEF RestoreJob, Restorable
  <2>3. TypeOK'
    BY <1>3, <2>2 DEF RestoreReturn, TypeOK
  <2>4. JobInv'
    BY <1>3 DEF RestoreReturn, JobInv, Idle
  <2> QED BY <2>3, <2>4
<1> QED BY <1>1, <1>2, <1>3 DEF Restore

\* An argument that unmasking changes is a placeholder that has a row.
LEMMA DeanonymizedRows ==
    ASSUME NEW ws, NEW tool, NEW args \in ToolArgs, NEW k \in DeanonymizedKeys(ws, tool, args)
    PROVE  k \in ArgKeys /\ \E p \in Placeholders : args[k] = Ph(p) /\ HasRow(ws, p)
<1>1. k \in ArgKeys /\ args[k].kind = "ph" /\ HasRow(ws, args[k].ph)
  BY DEF DeanonymizedKeys, UnmaskToken
<1>2. args[k] \in Tokens
  BY <1>1, AnonymizerAssumption
<1>3. args[k] = Ph(args[k].ph)
  BY <1>1, <1>2 DEF Tokens, Surface, Ph, Defanged
<1> QED BY <1>1, <1>3 DEF HasRow

\* What a running tool call replaces still has a row.
LEMMA ToolRows ==
    ASSUME JobInv, job.op = "tool"
    PROVE  \A p \in {job.args[k].ph : k \in job.keys} : HasRow(job.ws, p)
<1>1. ASSUME NEW k \in job.keys PROVE HasRow(job.ws, job.args[k].ph)
  <2>1. PICK p \in Placeholders : job.args[k] = Ph(p) /\ HasRow(job.ws, p)
    BY DEF JobInv
  <2>2. job.args[k].ph = p
    BY <2>1 DEF Ph
  <2> QED BY <2>1, <2>2
<1> QED BY <1>1

LEMMA ToolType ==
    ASSUME TypeOK, JobInv, Tool
    PROVE  TypeOK' /\ JobInv'
<1>1. ASSUME NEW ws \in Workspaces, NEW tool \in Tools, NEW args \in ToolArgs,
             NEW m, ToolCall(ws, tool, args, m)
      PROVE  TypeOK' /\ JobInv'
  <2> DEFINE keys == DeanonymizedKeys(ws, tool, args)
             none == keys = {}
  <2>1. requests' = requests + 1 /\ requests' \in Requests /\ requests' \in 0..MaxRequests
    BY <1>1, AnonymizerAssumption DEF ToolCall, NewRequest, TypeOK, Requests
  <2>2. /\ job' = [op |-> "tool", ws |-> ws, tool |-> tool, args |-> args,
                   keys |-> keys, req |-> requests + 1, audited |-> none]
        /\ rows' = rows
    BY <1>1 DEF ToolCall
  <2>3. keys \subseteq ArgKeys /\ none \in BOOLEAN
    BY DEF DeanonymizedKeys
  <2>4. \A k \in keys : \E p \in Placeholders : args[k] = Ph(p) /\ HasRow(ws, p)
    BY DeanonymizedRows
  <2> HIDE DEF keys, none
  <2>5. job' \in ToolJob
    BY <2>1, <2>2, <2>3 DEF ToolJob
  <2>6. TypeOK'
    BY <1>1, <2>1, <2>5 DEF ToolCall, TypeOK, history
  <2>7. JobInv'
    BY <2>2, <2>4 DEF JobInv, HasRow
  <2> QED BY <2>6, <2>7
<1>2. ASSUME NEW ws \in Workspaces, NEW tool \in Tools, NEW args \in ToolArgs,
             NEW m, ToolCallMasked(ws, tool, args, m)
      PROVE  TypeOK' /\ JobInv'
  <2>1. requests' \in 0..MaxRequests
    BY <1>2, AnonymizerAssumption DEF ToolCallMasked, NewRequest, TypeOK
  <2>2. TypeOK'
    BY <1>2, <2>1 DEF ToolCallMasked, TypeOK, history
  <2>3. JobInv'
    BY <1>2 DEF ToolCallMasked, NewRequest, JobInv, Idle
  <2> QED BY <2>2, <2>3
<1>3. ASSUME ToolAudit PROVE TypeOK' /\ JobInv'
  <2>1. job \in ToolJob /\ job.op = "tool"
    BY <1>3, JobType DEF ToolAudit
  <2>2. audit' \subseteq AnonymizeEvent \cup RestoreEvent \cup ToolEvent
    BY <1>3, <2>1 DEF ToolAudit, ToolJob, ToolEvent, TypeOK
  <2>3. /\ job' \in ToolJob /\ job'.op = "tool" /\ job'.ws = job.ws
        /\ job'.keys = job.keys /\ job'.args = job.args
    BY <1>3, <2>1 DEF ToolAudit, ToolJob
  <2>4. TypeOK'
    BY <1>3, <2>2, <2>3 DEF ToolAudit, TypeOK, history
  <2>5. JobInv'
    BY <1>3, <2>1, <2>3 DEF ToolAudit, JobInv, HasRow
  <2> QED BY <2>4, <2>5
<1>4. ASSUME ToolReturn PROVE TypeOK' /\ JobInv'
  <2>1. job \in ToolJob /\ job.op = "tool"
    BY <1>4, JobType DEF ToolReturn
  <2>2. \A p \in {job.args[k].ph : k \in job.keys} : HasRow(job.ws, p)
    BY <2>1, ToolRows
  <2>3. Delivered("tool", job.ws, job.req, {job.args[k].ph : k \in job.keys}) \subseteq Delivery
    BY <2>1, <2>2, DeliveredType DEF ToolJob
  <2>4. TypeOK'
    BY <1>4, <2>3 DEF ToolReturn, TypeOK
  <2>5. JobInv'
    BY <1>4 DEF ToolReturn, JobInv, Idle
  <2> QED BY <2>4, <2>5
<1> QED BY <1>1, <1>2, <1>3, <1>4 DEF Tool, ToolStart

LEMMA RestoreStreamType ==
    ASSUME TypeOK, JobInv, RestoreStream
    PROVE  TypeOK' /\ JobInv'
<1> PICK st \in Streams :
      \/ \E ws \in Workspaces, text \in LlmTexts : StreamOpen(st, ws, text)
      \/ StreamChunk(st)
      \/ StreamEnd(st)
  BY DEF RestoreStream
<1>0. job = Idle /\ job' = Idle
  BY DEF StreamOpen, StreamChunk, StreamEnd, NewRequest
<1>1. JobInv'
  BY <1>0 DEF JobInv, Idle
<1>2. ASSUME NEW ws \in Workspaces, NEW text \in LlmTexts, StreamOpen(st, ws, text)
      PROVE  TypeOK'
  <2>1. requests' = requests + 1 /\ requests' \in Requests /\ requests' \in 0..MaxRequests
    BY <1>2, AnonymizerAssumption DEF StreamOpen, NewRequest, TypeOK, Requests
  <2>2. [ws |-> ws, req |-> requests + 1, todo |-> text] \in Stream
    BY <2>1, AnonymizerAssumption DEF Stream
  <2>3. stream' \in [Streams -> {Idle} \cup Stream]
    BY <1>2, <2>2 DEF StreamOpen, TypeOK
  <2> QED BY <1>2, <2>1, <2>3 DEF StreamOpen, TypeOK, history
<1>3. ASSUME StreamChunk(st) PROVE TypeOK'
  <2>1. stream[st] \in Stream /\ stream[st].todo # <<>>
    BY <1>3 DEF StreamChunk, TypeOK
  <2>2. /\ stream[st].ws \in Workspaces /\ stream[st].req \in Requests
        /\ Tail(stream[st].todo) \in Seq(Tokens)
    BY <2>1 DEF Stream
  <2>3. [stream[st] EXCEPT !.todo = Tail(@)] \in Stream
    BY <2>1, <2>2 DEF Stream
  <2>4. stream' \in [Streams -> {Idle} \cup Stream]
    BY <1>3, <2>3 DEF StreamChunk, TypeOK
  <2>5. Delivered("stream", stream[st].ws, stream[st].req,
                  Restorable(stream[st].ws, <<Head(stream[st].todo)>>)) \subseteq Delivery
    BY <2>2, DeliveredType DEF Restorable
  <2> QED BY <1>3, <2>4, <2>5 DEF StreamChunk, TypeOK
<1>4. ASSUME StreamEnd(st) PROVE TypeOK'
  BY <1>4 DEF StreamEnd, TypeOK, history
<1> QED BY <1>1, <1>2, <1>3, <1>4

\* A purge leaves every row of the workspace as it was or deletes it, and
\* touches no other workspace.
LEMMA PurgeRowsType ==
    ASSUME TypeOK, NEW ws \in Workspaces, NEW gone, PurgeRows(ws, gone)
    PROVE  /\ rows' \in [Workspaces -> [Placeholders -> Row \cup {NoRow}]]
           /\ \A v \in Workspaces : \A p \in Placeholders :
                 rows'[v][p] # NoRow => /\ rows'[v][p] = rows[v][p]
                                        /\ v = ws => p \notin gone
BY DEF TypeOK, PurgeRows

LEMMA PurgeType ==
    ASSUME TypeOK, JobInv, Purge
    PROVE  TypeOK' /\ JobInv'
<1> PICK ws \in Workspaces :
      \/ PurgeAll(ws)
      \/ \E session \in Sessions : PurgeSession(ws, session)
      \/ \E subject \in Surfaces : PurgeSubject(ws, subject)
  BY DEF Purge
<1>0. /\ job = Idle /\ job' = Idle /\ requests' \in 0..MaxRequests
      /\ UNCHANGED <<audit, mode, job, stream, replies, delivered, aborted, owners>>
      /\ Purged(ws)
  <2>1. /\ NewRequest /\ Purged(ws)
        /\ UNCHANGED <<audit, mode, job, stream, replies, delivered, aborted, owners>>
    BY DEF PurgeAll, PurgeSession, PurgeSubject
  <2> QED BY <2>1, AnonymizerAssumption DEF NewRequest, TypeOK
<1>1. JobInv'
  BY <1>0 DEF JobInv, Idle
<1>2. purged' \subseteq Requests
  BY <1>0 DEF Purged, TypeOK, Reply
<1>3. forgotten' \in [Workspaces -> SUBSET Surfaces]
  <2>1. \E S \in SUBSET Surfaces : forgotten' = [forgotten EXCEPT ![ws] = S]
    <3> forgotten[ws] \in SUBSET Surfaces
      BY DEF TypeOK
    <3>2. CASE PurgeAll(ws)
      BY <3>2 DEF PurgeAll
    <3>3. ASSUME NEW session \in Sessions, PurgeSession(ws, session)
          PROVE  \E S \in SUBSET Surfaces : forgotten' = [forgotten EXCEPT ![ws] = S]
      <4> WITNESS forgotten[ws] \cup
                    {s \in Surfaces : \A t \in Surfaces :
                        SameSubject(s, t) => owners[ws][t] \subseteq {session}} \in SUBSET Surfaces
      <4> QED BY <3>3 DEF PurgeSession
    <3>4. ASSUME NEW subject \in Surfaces, PurgeSubject(ws, subject)
          PROVE  \E S \in SUBSET Surfaces : forgotten' = [forgotten EXCEPT ![ws] = S]
      <4> WITNESS forgotten[ws] \cup {subject} \in SUBSET Surfaces
      <4> QED BY <3>4 DEF PurgeSubject
    <3> QED BY <3>2, <3>3, <3>4
  <2> QED BY <2>1 DEF TypeOK
<1>4. rows' \in [Workspaces -> [Placeholders -> Row \cup {NoRow}]]
  BY PurgeRowsType DEF PurgeAll, PurgeSession, PurgeSubject
<1>5. TypeOK'
  BY <1>0, <1>2, <1>3, <1>4 DEF TypeOK
<1> QED BY <1>1, <1>5

LEMMA EnvironmentType ==
    ASSUME TypeOK, JobInv, (\E m \in Modes : ModeChange(m)) \/ HandlerFails \/ Crash
    PROVE  TypeOK' /\ JobInv'
<1>1. ASSUME NEW m \in Modes, ModeChange(m) PROVE TypeOK' /\ JobInv'
  BY <1>1 DEF ModeChange, TypeOK, JobInv, HasRow, history
<1>2. ASSUME HandlerFails PROVE TypeOK' /\ JobInv'
  BY <1>2, JobType DEF HandlerFails, TypeOK, JobInv, Idle
<1>3. ASSUME Crash PROVE TypeOK' /\ JobInv'
  <2>1. aborted' \subseteq Requests
    BY <1>3, JobType DEF Crash, TypeOK
  <2> QED BY <1>3, <2>1 DEF Crash, TypeOK, JobInv, Idle, Modes
<1> QED BY <1>1, <1>2, <1>3

LEMMA NextType == TypeOK /\ JobInv /\ [Next]_vars => TypeOK' /\ JobInv'
BY AnonymizeType, RestoreType, ToolType, RestoreStreamType, PurgeType, EnvironmentType,
   StutterType DEF Next

\* Every reachable state of the sidecar is well typed: in particular every
\* original that leaves it and every row is a surface of some user's text,
\* and every placeholder given out is one the restorer recognises.
THEOREM TypeCorrect == Spec => [](TypeOK /\ JobInv)
<1>1. Init => TypeOK /\ JobInv
  BY InitType
<1>2. TypeOK /\ JobInv /\ [Next]_vars => (TypeOK /\ JobInv)'
  BY NextType
<1> QED BY <1>1, <1>2, PTL DEF Spec

----------------------------------------------------------------------------
(* Isolation and erasure.  WorkspaceIsolation and ForgottenGone are        *)
(* inductive together: a session purge forgets what only that session ever *)
(* stored, and that the row it tags is such a row is the isolation part.   *)

\* The originals that leave the sidecar in a step are those of rows it has.
LEMMA DeliveredFromRows ==
    ASSUME NEW via, NEW ws \in Workspaces, NEW req, NEW phs, \A p \in phs : HasRow(ws, p),
           NEW d \in Delivered(via, ws, req, phs)
    PROVE  /\ d.ws \in Workspaces /\ d.via = via /\ d.req = req /\ d.ph \in phs
           /\ d.ws = ws /\ HasRow(d.ws, d.ph) /\ d.s = rows[d.ws][d.ph].original
BY DEF Delivered

\* Storing a row and purging are the only steps that change the store, and
\* only the other steps let an original out.
LEMMA QuietStep ==
    ASSUME TypeOK, JobInv, [Next]_vars, ~AnonymizePut, ~Purge
    PROVE  /\ UNCHANGED <<rows, owners, forgotten>>
           /\ \A d \in delivered' \ delivered :
                 d.ws \in Workspaces /\ HasRow(d.ws, d.ph) /\ d.s = rows[d.ws][d.ph].original
<1>1. CASE RestoreReturn
  <2>1. job \in RestoreJob
    BY <1>1, JobType DEF RestoreReturn
  <2>2. \A p \in Restorable(job.ws, job.text) : HasRow(job.ws, p)
    BY DEF Restorable
  <2>3. job.ws \in Workspaces
    BY <2>1 DEF RestoreJob
  <2> QED BY <1>1, <2>2, <2>3, DeliveredFromRows DEF RestoreReturn
<1>2. CASE ToolReturn
  <2>1. job \in ToolJob /\ job.op = "tool"
    BY <1>2, JobType DEF ToolReturn
  <2>2. \A p \in {job.args[k].ph : k \in job.keys} : HasRow(job.ws, p)
    BY <2>1, ToolRows
  <2>3. job.ws \in Workspaces
    BY <2>1 DEF ToolJob
  <2> QED BY <1>2, <2>2, <2>3, DeliveredFromRows DEF ToolReturn
<1>3. ASSUME NEW st \in Streams, StreamChunk(st)
      PROVE  /\ UNCHANGED <<rows, owners, forgotten>>
             /\ \A d \in delivered' \ delivered :
                   d.ws \in Workspaces /\ HasRow(d.ws, d.ph) /\ d.s = rows[d.ws][d.ph].original
  <2>1. stream[st] \in Stream
    BY <1>3 DEF StreamChunk, TypeOK
  <2>2. stream[st].ws \in Workspaces
    BY <2>1 DEF Stream
  <2> DEFINE phs == Restorable(stream[st].ws, <<Head(stream[st].todo)>>)
  <2>3. \A p \in phs : HasRow(stream[st].ws, p)
    BY DEF Restorable
  <2>4. /\ UNCHANGED <<rows, owners, forgotten>>
        /\ delivered' = delivered \cup Delivered("stream", stream[st].ws, stream[st].req, phs)
    BY <1>3 DEF StreamChunk
  <2> HIDE DEF phs
  <2> QED BY <2>2, <2>3, <2>4, DeliveredFromRows
<1>4. ASSUME ~RestoreReturn, ~ToolReturn, \A st \in Streams : ~StreamChunk(st)
      PROVE  UNCHANGED <<rows, owners, forgotten, delivered>>
  <2>1. CASE UNCHANGED vars
    BY <2>1 DEF vars, history
  <2>2. CASE Anonymize
    BY <2>2 DEF Anonymize, AnonymizeStart, AnonymizeAudit, AnonymizeReturn, history
  <2>3. CASE Restore
    BY <1>4, <2>3 DEF Restore, RestoreStart, RestoreAudit, history
  <2>4. CASE Tool
    BY <1>4, <2>4 DEF Tool, ToolStart, ToolCall, ToolCallMasked, ToolAudit, history
  <2>5. CASE RestoreStream
    BY <1>4, <2>5 DEF RestoreStream, StreamOpen, StreamEnd, history
  <2>6. CASE (\E m \in Modes : ModeChange(m)) \/ HandlerFails \/ Crash
    BY <2>6 DEF ModeChange, HandlerFails, Crash, history
  <2> QED BY <2>1, <2>2, <2>3, <2>4, <2>5, <2>6 DEF Next
<1> QED BY <1>1, <1>2, <1>3, <1>4

\* What AnonymizePut does to the store, with the types of what it stores.
LEMMA PutStep ==
    ASSUME TypeOK, JobInv, AnonymizePut
    PROVE  \E i \in job.todo :
              LET s == job.text[i].s
                  p == PlaceholderAt(job.text, job.profile, job.mode, i)
              IN  /\ job \in AnonymizeJob /\ i \in 1..MaxText
                  /\ i \in Leaders(job.text, job.profile, job.mode)
                  /\ s \in Surfaces /\ p \in Placeholders
                  /\ job.ws \in Workspaces /\ job.session \in Sessions /\ job.req \in Requests
                  /\ rows'[job.ws][p] =
                        [original |-> s, session |-> job.session, req |-> job.req]
                  /\ \A v \in Workspaces : \A q \in Placeholders :
                        v # job.ws \/ q # p => rows'[v][q] = rows[v][q]
                  /\ job' = [job EXCEPT !.todo = @ \ {i}, !.cur = i]
                  /\ owners' = [owners EXCEPT ![job.ws][s] = @ \cup {job.session}]
                  /\ forgotten' = [forgotten EXCEPT ![job.ws] = {t \in @ : ~SameSubject(t, s)}]
                  /\ UNCHANGED <<audit, delivered, aborted>>
<1>1. job \in AnonymizeJob /\ job.op = "anonymize"
  BY JobType DEF AnonymizePut
<1>2. PICK i \in job.todo :
        /\ put(job.ws, PlaceholderAt(job.text, job.profile, job.mode, i), job.text[i].s,
               job.session, job.req)
        /\ job' = [job EXCEPT !.todo = @ \ {i}, !.cur = i]
        /\ owners' = [owners EXCEPT ![job.ws][job.text[i].s] = @ \cup {job.session}]
        /\ forgotten' = [forgotten EXCEPT ![job.ws] = {t \in @ : ~SameSubject(t, job.text[i].s)}]
        /\ UNCHANGED <<audit, delivered, aborted>>
  BY DEF AnonymizePut
<1>3. /\ job.ws \in Workspaces /\ job.session \in Sessions /\ job.req \in Requests
      /\ job.text \in Texts /\ job.profile \in Profiles /\ job.mode \in Modes
  BY <1>1, UserTextsTexts DEF AnonymizeJob
<1>4. i \in Leaders(job.text, job.profile, job.mode)
  BY <1>1, <1>2 DEF JobInv
<1>5. i \in Detected(job.text, job.profile, job.mode) /\ i \in 1..MaxText
  BY <1>3, <1>4, LeadersType
<1>6. /\ job.text[i].s \in Surfaces
      /\ PlaceholderAt(job.text, job.profile, job.mode, i) \in Placeholders
  BY <1>3, <1>5, DetectedType, PlaceholderAtType
<1> DEFINE s == job.text[i].s
           p == PlaceholderAt(job.text, job.profile, job.mode, i)
<1>7. /\ rows'[job.ws][p] = [original |-> s, session |-> job.session, req |-> job.req]
      /\ \A v \in Workspaces : \A q \in Placeholders :
            v # job.ws \/ q # p => rows'[v][q] = rows[v][q]
  BY <1>2, <1>3, <1>6, PutType
<1> WITNESS i \in job.todo
<1> QED BY <1>1, <1>2, <1>3, <1>4, <1>5, <1>6, <1>7

\* The part of WorkspaceIsolation that is about what was let out.
IsolatedDeliveries == \A d \in delivered : owners[d.ws][d.s] # {}

\* The part that is about the store.
IsolatedRows ==
    \A ws \in Workspaces : \A p \in Placeholders : HasRow(ws, p) =>
        rows[ws][p].session \in owners[ws][rows[ws][p].original]

LEMMA PutIsolated ==
    ASSUME TypeOK, JobInv, WorkspaceIsolation, ForgottenGone, AnonymizePut
    PROVE  WorkspaceIsolation' /\ ForgottenGone'
<1>1. PICK i \in job.todo :
        LET s == job.text[i].s
            p == PlaceholderAt(job.text, job.profile, job.mode, i)
        IN  /\ s \in Surfaces /\ p \in Placeholders
            /\ job.ws \in Workspaces /\ job.session \in Sessions /\ job.req \in Requests
            /\ rows'[job.ws][p] = [original |-> s, session |-> job.session, req |-> job.req]
            /\ \A v \in Workspaces : \A q \in Placeholders :
                  v # job.ws \/ q # p => rows'[v][q] = rows[v][q]
            /\ owners' = [owners EXCEPT ![job.ws][s] = @ \cup {job.session}]
            /\ forgotten' = [forgotten EXCEPT ![job.ws] = {t \in @ : ~SameSubject(t, s)}]
            /\ UNCHANGED delivered
  BY PutStep
<1> DEFINE s == job.text[i].s
           p == PlaceholderAt(job.text, job.profile, job.mode, i)
           w == job.ws
<1>2. \A v \in Workspaces : \A t \in Surfaces : owners[v][t] \subseteq owners'[v][t]
  BY <1>1 DEF TypeOK
<1>3. job.session \in owners'[w][s]
  BY <1>1 DEF TypeOK
<1>4. \A v \in Workspaces : forgotten'[v] \subseteq forgotten[v]
  BY <1>1 DEF TypeOK
<1>5. s \notin forgotten'[w]
  BY <1>1 DEF TypeOK, SameSubject
<1>6. IsolatedDeliveries'
  <2>1. \A d \in delivered : d.ws \in Workspaces /\ d.s \in Surfaces
    BY DEF TypeOK, Delivery
  <2> QED BY <1>1, <1>2, <2>1 DEF IsolatedDeliveries, WorkspaceIsolation
<1>7. ASSUME NEW v \in Workspaces, NEW q \in Placeholders, HasRow(v, q)'
      PROVE  /\ rows'[v][q].session \in owners'[v][rows'[v][q].original]
             /\ rows'[v][q].original \notin forgotten'[v]
  <2>1. CASE v = w /\ q = p
    BY <1>1, <1>3, <1>5, <2>1
  <2>2. CASE v # w \/ q # p
    <3>1. rows'[v][q] = rows[v][q] /\ HasRow(v, q)
      BY <1>1, <1>7, <2>2 DEF HasRow
    <3>2. rows[v][q].original \in Surfaces
      BY <3>1, RowType DEF Row
    <3>3. /\ rows[v][q].session \in owners[v][rows[v][q].original]
          /\ rows[v][q].original \notin forgotten[v]
      BY <3>1 DEF WorkspaceIsolation, ForgottenGone
    <3> HIDE DEF w, p, s
    <3> QED BY <1>2, <1>4, <3>1, <3>2, <3>3
  <2> QED BY <2>1, <2>2
<1> QED BY <1>6, <1>7 DEF IsolatedDeliveries, WorkspaceIsolation, ForgottenGone

LEMMA PurgeIsolated ==
    ASSUME TypeOK, JobInv, WorkspaceIsolation, ForgottenGone, Purge
    PROVE  WorkspaceIsolation' /\ ForgottenGone'
<1> PICK ws \in Workspaces :
      \/ PurgeAll(ws)
      \/ \E session \in Sessions : PurgeSession(ws, session)
      \/ \E subject \in Surfaces : PurgeSubject(ws, subject)
  BY DEF Purge
<1>1. UNCHANGED <<owners, delivered>>
  BY DEF PurgeAll, PurgeSession, PurgeSubject
<1>2. \A v \in Workspaces : \A p \in Placeholders :
         HasRow(v, p)' => HasRow(v, p) /\ rows'[v][p] = rows[v][p]
  BY PurgeRowsType DEF PurgeAll, PurgeSession, PurgeSubject, HasRow
<1>3. WorkspaceIsolation'
  BY <1>1, <1>2 DEF WorkspaceIsolation
<1>4. ASSUME NEW v \in Workspaces, NEW p \in Placeholders, HasRow(v, p)'
      PROVE  rows'[v][p].original \notin forgotten'[v]
  <2> DEFINE r == rows[v][p]
  <2>1. HasRow(v, p) /\ rows'[v][p] = r /\ r \in Row
    BY <1>2, <1>4, RowType
  <2>2. r.original \in Surfaces /\ r.original \notin forgotten[v] /\ r.session \in owners[v][r.original]
    BY <2>1 DEF Row, ForgottenGone, WorkspaceIsolation
  <2>3. CASE PurgeAll(ws)
    <3>1. v # ws
      BY <1>4, <2>1, <2>3 DEF PurgeAll, PurgeRows, HasRow, TypeOK
    <3>2. forgotten'[v] = forgotten[v]
      BY <2>3, <3>1 DEF PurgeAll, TypeOK
    <3> QED BY <2>1, <2>2, <3>2
  <2>4. ASSUME NEW session \in Sessions, PurgeSession(ws, session)
        PROVE  r.original \notin forgotten'[v]
    <3>1. v = ws => r.session # session
      BY <1>4, <2>1, <2>4 DEF PurgeSession, PurgeRows, HasRow, TypeOK
    <3>2. v = ws => ~(\A t \in Surfaces :
                         SameSubject(r.original, t) => owners[ws][t] \subseteq {session})
      BY <2>2, <3>1 DEF SameSubject
    <3> DEFINE only == {s \in Surfaces : \A t \in Surfaces :
                           SameSubject(s, t) => owners[ws][t] \subseteq {session}}
    <3>3. v = ws => r.original \notin only
      BY <3>2
    <3>4. forgotten' = [forgotten EXCEPT ![ws] = @ \cup only]
      BY <2>4 DEF PurgeSession
    <3> HIDE DEF only, r
    <3> QED BY <2>2, <3>3, <3>4 DEF TypeOK
  <2>5. ASSUME NEW subject \in Surfaces, PurgeSubject(ws, subject)
        PROVE  r.original \notin forgotten'[v]
    <3>1. v = ws => r.original # subject
      BY <1>4, <2>1, <2>5 DEF PurgeSubject, PurgeRows, HasRow, TypeOK
    <3>2. forgotten' = [forgotten EXCEPT ![ws] = @ \cup {subject}]
      BY <2>5 DEF PurgeSubject
    <3> HIDE DEF r
    <3> QED BY <2>2, <3>1, <3>2 DEF TypeOK
  <2> QED BY <2>1, <2>3, <2>4, <2>5
<1>5. ForgottenGone'
  BY <1>4 DEF ForgottenGone
<1> QED BY <1>3, <1>5

LEMMA NextIsolated ==
    TypeOK /\ JobInv /\ WorkspaceIsolation /\ ForgottenGone /\ [Next]_vars
        => WorkspaceIsolation' /\ ForgottenGone'
<1> SUFFICES ASSUME TypeOK, JobInv, WorkspaceIsolation, ForgottenGone, [Next]_vars
             PROVE  WorkspaceIsolation' /\ ForgottenGone'
  OBVIOUS
<1>1. CASE ~AnonymizePut /\ ~Purge
  <2>1. /\ UNCHANGED <<rows, owners, forgotten>>
        /\ \A d \in delivered' \ delivered :
              d.ws \in Workspaces /\ HasRow(d.ws, d.ph) /\ d.s = rows[d.ws][d.ph].original
    BY <1>1, QuietStep
  <2>2. ForgottenGone'
    BY <2>1 DEF ForgottenGone, HasRow
  <2>3. IsolatedDeliveries'
    <3>1. ASSUME NEW d \in delivered' PROVE owners'[d.ws][d.s] # {}
      <4>1. CASE d \in delivered
        BY <2>1, <4>1 DEF WorkspaceIsolation
      <4>2. CASE d \notin delivered
        BY <2>1, <4>2 DEF WorkspaceIsolation, HasRow
      <4> QED BY <4>1, <4>2
    <3> QED BY <3>1 DEF IsolatedDeliveries
  <2>4. IsolatedRows'
    BY <2>1 DEF IsolatedRows, WorkspaceIsolation, HasRow
  <2> QED BY <2>2, <2>3, <2>4 DEF WorkspaceIsolation, IsolatedDeliveries, IsolatedRows
<1> QED BY <1>1, PutIsolated, PurgeIsolated

LEMMA InitIsolated == Init => WorkspaceIsolation /\ ForgottenGone
BY DEF Init, WorkspaceIsolation, ForgottenGone, HasRow

\* For every number of workspaces and sessions, an original only comes back
\* in a workspace that stored it, and an erased one has no row left: one
\* SQLite file per workspace, and purge deletes by session tag or hash.
THEOREM IsolationAndErasure == Spec => [](WorkspaceIsolation /\ ForgottenGone)
<1> DEFINE I == TypeOK /\ JobInv /\ WorkspaceIsolation /\ ForgottenGone
<1>1. Init => I
  BY InitType, InitIsolated
<1>2. I /\ [Next]_vars => I'
  BY NextType, NextIsolated
<1>3. I => WorkspaceIsolation /\ ForgottenGone
  OBVIOUS
<1> HIDE DEF I
<1> QED BY <1>1, <1>2, <1>3, PTL DEF Spec

\* No step of any endpoint lets an erased original out, a chunk of a stream
\* opened before the purge included.
THEOREM ErasedStaysIn == Spec => ForgottenNotDelivered
<1> DEFINE I == TypeOK /\ JobInv /\ WorkspaceIsolation /\ ForgottenGone
           Step == \A d \in delivered' \ delivered : d.s \notin forgotten[d.ws]
<1>1. I /\ [Next]_vars => [Step]_vars
  <2> SUFFICES ASSUME I, [Next]_vars PROVE Step
    OBVIOUS
  <2>1. CASE ~AnonymizePut /\ ~Purge
    BY <2>1, QuietStep DEF ForgottenGone, HasRow
  <2>2. CASE AnonymizePut
    BY <2>2 DEF AnonymizePut
  <2>3. CASE Purge
    BY <2>3 DEF Purge, PurgeAll, PurgeSession, PurgeSubject
  <2> QED BY <2>1, <2>2, <2>3
<1>2. Init => I
  BY InitType, InitIsolated
<1>3. I /\ [Next]_vars => I'
  BY NextType, NextIsolated
<1>4. ForgottenNotDelivered <=> [][Step]_vars
  BY DEF ForgottenNotDelivered
<1> HIDE DEF I, Step
<1> QED BY <1>1, <1>2, <1>3, <1>4, PTL DEF Spec

----------------------------------------------------------------------------
(* The audit trail.  UnauditedOnlyIfAborted is not inductive: it must say  *)
(* which row the running request has still to audit, or the event it       *)
(* writes next might be another row's.  DeliveredAudited needs the part of *)
(* the trail the running restore or tool call has written so far.          *)

AnonymizeAudited(ws, p, q) ==
    \E e \in audit : e.type = "anonymize" /\ e.ws = ws /\ e.ph = p /\ e.req = q
RestoreAudited(ws, p, q) ==
    \E e \in audit : e.type = "restore" /\ e.ws = ws /\ e.req = q /\ e.ph = p
ToolAudited(ws, q) ==
    \E e \in audit : e.type = "tool_call_deanonymize" /\ e.ws = ws /\ e.req = q

\* The row is the one the running /anonymize has stored and not audited yet.
Pending(ws, p, q) ==
    /\ job.op = "anonymize" /\ job.cur # 0 /\ job.req = q /\ job.ws = ws
    /\ p = PlaceholderAt(job.text, job.profile, job.mode, job.cur)

RowAudit ==
    \A ws \in Workspaces : \A p \in Placeholders : HasRow(ws, p) =>
        LET q == rows[ws][p].req
        IN  AnonymizeAudited(ws, p, q) \/ q \in aborted \/ Pending(ws, p, q)

JobAudit ==
    /\ job.op = "restore" => \A p \in Restorable(job.ws, job.text) :
          p \in job.todo \/ RestoreAudited(job.ws, p, job.req)
    /\ job.op = "tool" /\ job.audited =>
          job.keys = {} \/ ToolAudited(job.ws, job.req)

AuditInv == RowAudit /\ JobAudit /\ DeliveredAudited

\* The audit only grows, so what was audited stays audited.
LEMMA AuditedMonotone ==
    ASSUME audit \subseteq audit'
    PROVE  /\ \A ws, p, q : AnonymizeAudited(ws, p, q) => AnonymizeAudited(ws, p, q)'
           /\ \A ws, p, q : RestoreAudited(ws, p, q) => RestoreAudited(ws, p, q)'
           /\ \A ws, q : ToolAudited(ws, q) => ToolAudited(ws, q)'
           /\ delivered' = delivered /\ DeliveredAudited => DeliveredAudited'
BY DEF AnonymizeAudited, RestoreAudited, ToolAudited, DeliveredAudited

\* Rows that were there before and requests that failed keep RowAudit, when no
\* row is pending.
LEMMA RowAuditKept ==
    ASSUME RowAudit, audit \subseteq audit', aborted \subseteq aborted',
           \A v \in Workspaces : \A p \in Placeholders :
              HasRow(v, p)' => HasRow(v, p) /\ rows'[v][p] = rows[v][p],
           \A v \in Workspaces : \A p \in Placeholders : \A q :
              Pending(v, p, q) => Pending(v, p, q)' \/ q \in aborted' \/ AnonymizeAudited(v, p, q)'
    PROVE  RowAudit'
BY AuditedMonotone DEF RowAudit

LEMMA AnonymizeAuditInv ==
    ASSUME TypeOK, JobInv, AuditInv, Anonymize
    PROVE  AuditInv'
<1>1. ASSUME NEW ws \in Workspaces, NEW session \in Sessions, NEW u \in UserRequests,
             AnonymizeStart(ws, session, u.profile, u.text)
      PROVE  AuditInv'
  <2>1. /\ UNCHANGED <<rows, audit, delivered, aborted>> /\ job.op = "idle"
        /\ job'.op = "anonymize"
    BY <1>1 DEF AnonymizeStart, NewRequest, history, Idle
  <2>2. RowAudit'
    BY <2>1, RowAuditKept DEF AuditInv, Pending, HasRow
  <2> QED BY <2>1, <2>2, AuditedMonotone DEF AuditInv, JobAudit
<1>2. ASSUME AnonymizePut PROVE AuditInv'
  <2>1. PICK i \in job.todo :
          LET p == PlaceholderAt(job.text, job.profile, job.mode, i)
          IN  /\ job \in AnonymizeJob /\ i \in 1..MaxText
              /\ p \in Placeholders /\ job.ws \in Workspaces
              /\ rows'[job.ws][p] =
                    [original |-> job.text[i].s, session |-> job.session, req |-> job.req]
              /\ \A v \in Workspaces : \A q \in Placeholders :
                    v # job.ws \/ q # p => rows'[v][q] = rows[v][q]
              /\ job' = [job EXCEPT !.todo = @ \ {i}, !.cur = i]
              /\ UNCHANGED <<audit, delivered, aborted>>
    BY <1>2, PutStep
  <2> DEFINE p == PlaceholderAt(job.text, job.profile, job.mode, i)
  <2>2. /\ job'.op = "anonymize" /\ job'.cur = i /\ job'.req = job.req /\ job'.ws = job.ws
        /\ job'.text = job.text /\ job'.profile = job.profile /\ job'.mode = job.mode
        /\ i # 0 /\ job.cur = 0 /\ job.op = "anonymize"
    <3>1. i # 0 /\ job.cur = 0 /\ job.op = "anonymize"
      BY <1>2, <2>1 DEF AnonymizePut
    <3>2. job' = [job EXCEPT !.todo = job.todo \ {i}, !.cur = i] /\ job \in AnonymizeJob
      BY <2>1
    <3> DEFINE T == job.todo \ {i}
    <3>3. job' = [job EXCEPT !.todo = T, !.cur = i]
      BY <3>2
    <3> HIDE DEF T
    <3>4. /\ job'.op = job.op /\ job'.ws = job.ws /\ job'.profile = job.profile
          /\ job'.text = job.text /\ job'.mode = job.mode /\ job'.req = job.req /\ job'.cur = i
      BY <3>2, <3>3 DEF AnonymizeJob
    <3> QED BY <3>1, <3>4
  <2>3. ASSUME NEW v \in Workspaces, NEW q \in Placeholders, HasRow(v, q)'
        PROVE  (LET r == rows[v][q].req
                IN  AnonymizeAudited(v, q, r) \/ r \in aborted \/ Pending(v, q, r))'
    <3>1. CASE v = job.ws /\ q = p
      <4>1. rows'[v][q].req = job'.req
        BY <2>1, <2>2, <3>1
      <4>2. Pending(v, q, rows[v][q].req)'
        BY <2>2, <3>1, <4>1 DEF Pending
      <4> QED BY <4>2
    <3>2. CASE v # job.ws \/ q # p
      <4>1. rows'[v][q] = rows[v][q] /\ HasRow(v, q)
        BY <2>1, <2>3, <3>2 DEF HasRow
      <4>2. ~Pending(v, q, rows[v][q].req)
        BY <2>2 DEF Pending
      <4>3. AnonymizeAudited(v, q, rows[v][q].req) \/ rows[v][q].req \in aborted
        BY <4>1, <4>2 DEF AuditInv, RowAudit
      <4> QED BY <2>1, <4>1, <4>3 DEF AnonymizeAudited
    <3> QED BY <3>1, <3>2
  <2>4. RowAudit'
    BY <2>3 DEF RowAudit
  <2> QED BY <2>1, <2>2, <2>4, AuditedMonotone DEF AuditInv, JobAudit
<1>3. ASSUME AnonymizeAudit PROVE AuditInv'
  <2>1. job \in AnonymizeJob /\ job.op = "anonymize"
    BY <1>3, JobType DEF AnonymizeAudit
  <2> DEFINE e == [type |-> "anonymize", ws |-> job.ws, req |-> job.req, mode |-> job.mode,
                   ph |-> PlaceholderAt(job.text, job.profile, job.mode, job.cur)]
  <2>2. /\ audit' = audit \cup {e} /\ UNCHANGED <<rows, delivered, aborted>>
        /\ job'.op = "anonymize"
    BY <1>3, <2>1 DEF AnonymizeAudit, AnonymizeJob, history
  <2>3. ASSUME NEW v \in Workspaces, NEW q \in Placeholders, NEW r, Pending(v, q, r)
        PROVE  AnonymizeAudited(v, q, r)'
    <3>1. e.type = "anonymize" /\ e.ws = v /\ e.ph = q /\ e.req = r
      BY <2>3 DEF Pending
    <3>2. e \in audit'
      BY <2>2
    <3> HIDE DEF e
    <3> QED BY <3>1, <3>2 DEF AnonymizeAudited
  <2> HIDE DEF e
  <2>4. audit \subseteq audit'
    BY <2>2
  <2>5. RowAudit'
    BY <2>2, <2>3, <2>4, RowAuditKept DEF AuditInv, HasRow
  <2> QED BY <2>2, <2>4, <2>5, AuditedMonotone DEF AuditInv, JobAudit
<1>4. ASSUME AnonymizeReturn PROVE AuditInv'
  <2>1. /\ UNCHANGED <<rows, audit, delivered, aborted>> /\ job.cur = 0
        /\ job'.op = "idle"
    BY <1>4 DEF AnonymizeReturn, Idle
  <2>2. RowAudit'
    BY <2>1, RowAuditKept DEF AuditInv, Pending, HasRow
  <2> QED BY <2>1, <2>2, AuditedMonotone DEF AuditInv, JobAudit
<1> QED BY <1>1, <1>2, <1>3, <1>4 DEF Anonymize

LEMMA RestoreAuditInv ==
    ASSUME TypeOK, JobInv, AuditInv, Restore
    PROVE  AuditInv'
<1>1. ASSUME NEW ws \in Workspaces, NEW text \in LlmTexts, RestoreStart(ws, text)
      PROVE  AuditInv'
  <2>1. /\ UNCHANGED <<rows, audit, delivered, aborted>> /\ job.op = "idle"
        /\ job'.op = "restore" /\ job'.todo = Restorable(ws, text)
        /\ job'.ws = ws /\ job'.text = text
    BY <1>1 DEF RestoreStart, NewRequest, history, Idle
  <2>2. RowAudit'
    BY <2>1, RowAuditKept DEF AuditInv, Pending, HasRow
  <2>3. JobAudit'
    BY <2>1 DEF JobAudit, Restorable, HasRow
  <2> QED BY <2>1, <2>2, <2>3, AuditedMonotone DEF AuditInv
<1>2. ASSUME RestoreAudit PROVE AuditInv'
  <2>1. job \in RestoreJob /\ job.op = "restore"
    BY <1>2, JobType DEF RestoreAudit
  <2>2. PICK p \in job.todo :
          /\ audit' = audit \cup {[type |-> "restore", ws |-> job.ws, ph |-> p, req |-> job.req]}
          /\ job' = [job EXCEPT !.todo = @ \ {p}]
          /\ UNCHANGED <<rows, delivered, aborted>>
    BY <1>2 DEF RestoreAudit, history
  <2>3. /\ job'.op = "restore" /\ job'.ws = job.ws /\ job'.text = job.text
        /\ job'.req = job.req /\ job'.todo = job.todo \ {p}
    BY <2>1, <2>2 DEF RestoreJob
  <2>4. audit \subseteq audit' /\ RestoreAudited(job.ws, p, job.req)'
    <3> DEFINE e == [type |-> "restore", ws |-> job.ws, ph |-> p, req |-> job.req]
    <3>1. e.type = "restore" /\ e.ws = job'.ws /\ e.ph = p /\ e.req = job'.req
      BY <2>3
    <3>2. e \in audit' /\ audit \subseteq audit'
      BY <2>2
    <3> HIDE DEF e
    <3> QED BY <3>1, <3>2 DEF RestoreAudited
  <2>5. RowAudit'
    BY <2>1, <2>2, <2>4, RowAuditKept DEF AuditInv, Pending, HasRow
  <2>6. JobAudit'
    BY <2>1, <2>2, <2>3, <2>4, AuditedMonotone DEF AuditInv, JobAudit, Restorable, HasRow
  <2> QED BY <2>2, <2>4, <2>5, <2>6, AuditedMonotone DEF AuditInv
<1>3. ASSUME RestoreReturn PROVE AuditInv'
  <2> DEFINE phs == Restorable(job.ws, job.text)
  <2>1. job \in RestoreJob /\ job.op = "restore" /\ job.ws \in Workspaces /\ job.todo = {}
    BY <1>3, JobType DEF RestoreReturn, RestoreJob
  <2>2. /\ UNCHANGED <<rows, audit, aborted>> /\ job'.op = "idle"
        /\ delivered' = delivered \cup Delivered("restore", job.ws, job.req, phs)
    BY <1>3 DEF RestoreReturn, Idle
  <2>3. RowAudit'
    BY <2>1, <2>2, RowAuditKept DEF AuditInv, Pending, HasRow
  <2>4. \A p \in phs : HasRow(job.ws, p) /\ RestoreAudited(job.ws, p, job.req)
    BY <2>1 DEF AuditInv, JobAudit, Restorable
  <2> HIDE DEF phs
  <2>5. \A d \in Delivered("restore", job.ws, job.req, phs) :
           d.via = "restore" /\ d.ws = job.ws /\ d.req = job.req /\ d.ph \in phs
    BY <2>1, <2>4, DeliveredFromRows
  <2>6. DeliveredAudited'
    BY <2>2, <2>4, <2>5 DEF AuditInv, DeliveredAudited, RestoreAudited
  <2> QED BY <2>2, <2>3, <2>6 DEF AuditInv, JobAudit
<1> QED BY <1>1, <1>2, <1>3 DEF Restore

LEMMA ToolAuditInv ==
    ASSUME TypeOK, JobInv, AuditInv, Tool
    PROVE  AuditInv'
<1>1. ASSUME NEW ws \in Workspaces, NEW tool \in Tools, NEW args \in ToolArgs,
             NEW m, ToolCall(ws, tool, args, m)
      PROVE  AuditInv'
  <2>1. /\ UNCHANGED <<rows, audit, delivered, aborted>> /\ job.op = "idle"
        /\ job'.op = "tool" /\ job'.audited = (job'.keys = {})
    BY <1>1 DEF ToolCall, NewRequest, history, Idle
  <2>2. RowAudit'
    BY <2>1, RowAuditKept DEF AuditInv, Pending, HasRow
  <2>3. JobAudit'
    BY <2>1 DEF JobAudit
  <2> QED BY <2>1, <2>2, <2>3, AuditedMonotone DEF AuditInv
<1>2. ASSUME NEW ws \in Workspaces, NEW tool \in Tools, NEW args \in ToolArgs,
             NEW m, ToolCallMasked(ws, tool, args, m)
      PROVE  AuditInv'
  <2>1. UNCHANGED <<rows, audit, delivered, aborted, job>> /\ job.op = "idle" /\ job'.op = "idle"
    BY <1>2 DEF ToolCallMasked, NewRequest, history, Idle
  <2>2. RowAudit'
    BY <2>1, RowAuditKept DEF AuditInv, Pending, HasRow
  <2> QED BY <2>1, <2>2, AuditedMonotone DEF AuditInv, JobAudit
<1>3. ASSUME ToolAudit PROVE AuditInv'
  <2>1. job \in ToolJob /\ job.op = "tool"
    BY <1>3, JobType DEF ToolAudit
  <2>2. job'.op = "tool" /\ job'.ws = job.ws /\ job'.req = job.req
    BY <1>3, <2>1 DEF ToolAudit, ToolJob
  <2>3. /\ UNCHANGED <<rows, delivered, aborted>> /\ audit \subseteq audit'
        /\ ToolAudited(job.ws, job.req)'
    <3> DEFINE e == [type |-> "tool_call_deanonymize", ws |-> job.ws,
                     tool |-> job.tool, req |-> job.req]
    <3>1. e.type = "tool_call_deanonymize" /\ e.ws = job'.ws /\ e.req = job'.req
      BY <2>2
    <3>2. /\ UNCHANGED <<rows, delivered, aborted>>
          /\ e \in audit' /\ audit \subseteq audit'
      BY <1>3 DEF ToolAudit, history
    <3> HIDE DEF e
    <3> QED BY <3>1, <3>2 DEF ToolAudited
  <2>4. RowAudit'
    BY <2>1, <2>3, RowAuditKept DEF AuditInv, Pending, HasRow
  <2>5. JobAudit'
    BY <2>2, <2>3 DEF JobAudit, ToolAudited
  <2> QED BY <2>3, <2>4, <2>5, AuditedMonotone DEF AuditInv
<1>4. ASSUME ToolReturn PROVE AuditInv'
  <2> DEFINE phs == {job.args[k].ph : k \in job.keys}
  <2>1. job \in ToolJob /\ job.op = "tool" /\ job.ws \in Workspaces /\ job.audited
    BY <1>4, JobType DEF ToolReturn, ToolJob
  <2>2. /\ UNCHANGED <<rows, audit, aborted>> /\ job'.op = "idle"
        /\ delivered' = delivered \cup Delivered("tool", job.ws, job.req, phs)
    BY <1>4 DEF ToolReturn, Idle
  <2>3. RowAudit'
    BY <2>1, <2>2, RowAuditKept DEF AuditInv, Pending, HasRow
  <2>4. phs = {} \/ ToolAudited(job.ws, job.req)
    BY <2>1 DEF AuditInv, JobAudit
  <2>5. \A p \in phs : HasRow(job.ws, p)
    BY <2>1, ToolRows
  <2> HIDE DEF phs
  <2>6. \A d \in Delivered("tool", job.ws, job.req, phs) :
           d.via = "tool" /\ d.ws = job.ws /\ d.req = job.req /\ d.ph \in phs
    BY <2>1, <2>5, DeliveredFromRows
  <2>7. DeliveredAudited'
    BY <2>2, <2>4, <2>6 DEF AuditInv, DeliveredAudited, ToolAudited
  <2> QED BY <2>2, <2>3, <2>7 DEF AuditInv, JobAudit
<1> QED BY <1>1, <1>2, <1>3, <1>4 DEF Tool, ToolStart

\* The remaining steps write no event and let out nothing that needs one.
LEMMA OtherAuditInv ==
    ASSUME TypeOK, JobInv, AuditInv,
           \/ RestoreStream \/ Purge \/ HandlerFails \/ Crash
           \/ \E m \in Modes : ModeChange(m)
           \/ UNCHANGED vars
    PROVE  AuditInv'
<1>1. CASE UNCHANGED vars \/ \E m \in Modes : ModeChange(m)
  <2>1. UNCHANGED <<rows, audit, delivered, aborted, job>>
    BY <1>1 DEF vars, history, ModeChange
  <2> QED BY <2>1 DEF AuditInv, RowAudit, JobAudit, DeliveredAudited, HasRow, Pending,
                      AnonymizeAudited, RestoreAudited, ToolAudited, Restorable
<1>2. CASE HandlerFails \/ Crash
  <2>1. /\ UNCHANGED <<rows, audit, delivered>> /\ job'.op = "idle"
        /\ job # Idle => aborted' = aborted \cup {job.req}
        /\ job = Idle => aborted' = aborted
    BY <1>2 DEF HandlerFails, Crash, Idle
  <2>2. ASSUME NEW v, NEW p, NEW q, Pending(v, p, q) PROVE q \in aborted'
    BY <2>1, <2>2 DEF Pending, Idle
  <2>3. aborted \subseteq aborted'
    BY <2>1
  <2>4. RowAudit'
    BY <2>1, <2>2, <2>3, RowAuditKept DEF AuditInv, HasRow
  <2> QED BY <2>1, <2>4, AuditedMonotone DEF AuditInv, JobAudit
<1>3. CASE Purge
  <2>1. PICK ws \in Workspaces :
          \/ PurgeAll(ws)
          \/ \E session \in Sessions : PurgeSession(ws, session)
          \/ \E subject \in Surfaces : PurgeSubject(ws, subject)
    BY <1>3 DEF Purge
  <2>2. UNCHANGED <<audit, delivered, aborted>> /\ job.op = "idle" /\ job'.op = "idle"
    <3>1. NewRequest /\ UNCHANGED <<audit, delivered, aborted, job>>
      BY <2>1 DEF PurgeAll, PurgeSession, PurgeSubject
    <3> QED BY <3>1 DEF NewRequest, Idle
  <2>3. \A v \in Workspaces : \A p \in Placeholders :
           HasRow(v, p)' => HasRow(v, p) /\ rows'[v][p] = rows[v][p]
    BY <2>1, PurgeRowsType DEF PurgeAll, PurgeSession, PurgeSubject, HasRow
  <2>4. RowAudit'
    BY <2>2, <2>3, RowAuditKept DEF AuditInv, Pending
  <2> QED BY <2>2, <2>4, AuditedMonotone DEF AuditInv, JobAudit
<1>4. CASE RestoreStream
  <2>1. PICK st \in Streams :
          \/ \E ws \in Workspaces, text \in LlmTexts : StreamOpen(st, ws, text)
          \/ StreamChunk(st)
          \/ StreamEnd(st)
    BY <1>4 DEF RestoreStream
  <2>2. UNCHANGED <<rows, audit, aborted>> /\ job.op = "idle" /\ job'.op = "idle"
    BY <2>1 DEF StreamOpen, StreamChunk, StreamEnd, NewRequest, Idle, history
  <2>3. RowAudit'
    BY <2>2, RowAuditKept DEF AuditInv, Pending, HasRow
  <2>4. \A d \in delivered' : d \in delivered \/ d.via = "stream"
    BY <2>1 DEF StreamOpen, StreamChunk, StreamEnd, history, Delivered
  <2>5. DeliveredAudited'
    BY <2>2, <2>4 DEF AuditInv, DeliveredAudited
  <2> QED BY <2>2, <2>3, <2>5 DEF AuditInv, JobAudit
<1> QED BY <1>1, <1>2, <1>3, <1>4

LEMMA InitAuditInv == Init => AuditInv
BY DEF Init, AuditInv, RowAudit, JobAudit, DeliveredAudited, HasRow, Idle

LEMMA NextAuditInv == TypeOK /\ JobInv /\ AuditInv /\ [Next]_vars => AuditInv'
BY AnonymizeAuditInv, RestoreAuditInv, ToolAuditInv, OtherAuditInv DEF Next

\* Whatever crash or failure hits between a row and its audit line, a row with
\* no anonymize event was written by a request that did not answer, and no
\* original leaves /restore or /tool_call/deanonymize before its event.
THEOREM AuditTrail == Spec => [](UnauditedOnlyIfAborted /\ DeliveredAudited)
<1> DEFINE I == TypeOK /\ JobInv /\ AuditInv
<1>1. Init => I
  BY InitType, InitAuditInv
<1>2. I /\ [Next]_vars => I'
  BY NextType, NextAuditInv
<1>3. I => UnauditedOnlyIfAborted /\ DeliveredAudited
  BY DEF AuditInv, RowAudit, UnauditedOnlyIfAborted, AnonymizeAudited, Pending
<1> HIDE DEF I
<1> QED BY <1>1, <1>2, <1>3, PTL DEF Spec

\* The part of AuditTrail about rows: a mapping without an anonymize event
\* (pipeline.py:288) comes from a request that died or is running.
THEOREM RowsAudited == Spec => []UnauditedOnlyIfAborted
BY AuditTrail, PTL

\* The part of IsolationAndErasure about erasure: what a purge forgot has no
\* row (mapping_store.py:178) until it is sent again.
THEOREM ErasedHasNoRow == Spec => []ForgottenGone
BY IsolationAndErasure, PTL

----------------------------------------------------------------------------
(* The mode that is reported is the mode that was used.                    *)

\* A profile that masks names masks every type the detectors report.
LEMMA NamesMaskAll ==
    ASSUME NEW profile \in Profiles, IsAllowed("NAME", profile), NEW t \in Types
    PROVE  IsAllowed(t, profile)
<1>1. profile \in {"strict", "balanced"}
  BY DEF Profiles, IsAllowed, mask_categories, CATEGORY_ALIASES, CRITICAL_CATEGORIES
<1> QED BY <1>1 DEF Profiles, IsAllowed, mask_categories, CATEGORY_ALIASES, ALL_CATEGORIES,
           Types

\* In full mode such a profile leaves no person in the masked text.
LEMMA FullModeHides ==
    ASSUME NEW text \in Texts, NEW profile \in Profiles, IsAllowed("NAME", profile),
           NEW i \in DOMAIN text, MaskText(text, profile, "full")[i].kind = "surface"
    PROVE  ~Person[MaskText(text, profile, "full")[i].s]
<1> DEFINE D == Detected(text, profile, "full")
<1>1. i \notin D /\ MaskText(text, profile, "full")[i] = Neutralise(text[i])
  BY DEF MaskText, Ph
<1>2. text[i].kind = "surface" /\ Neutralise(text[i]) = text[i]
  BY <1>1 DEF Neutralise, Defanged
<1>3. text[i].s \in Surfaces
  <2>1. text[i] \in Tokens
    BY DEF Texts
  <2> QED BY <1>2, <2>1, SurfaceOfToken
<1>4. ASSUME Person[text[i].s] PROVE FALSE
  <2>1. TypeIn(text[i].s, "full") \in Types
    <3>1. CASE Hits(text[i].s, "full") = {}
      BY <1>4, <3>1 DEF TypeIn, Types
    <3>2. CASE Hits(text[i].s, "full") # {}
      BY <1>3, <3>2, HitType DEF UsedTypes, Modes, Types
    <3> QED BY <3>1, <3>2
  <2>2. IsAllowed(TypeIn(text[i].s, "full"), profile)
    BY <2>1, NamesMaskAll
  <2>3. TypeIn(text[i].s, "full") # "none"
    BY <2>1 DEF Types
  <2> QED BY <1>1, <1>2, <2>2, <2>3 DEF Detected
<1> QED BY <1>1, <1>2, <1>4

\* The requests are told apart by their numbers, and the events of the running
\* request carry the mode it read when it started (pipeline.py:261).
ModeInv ==
    /\ ModeTruthful
    /\ \A r \in replies : r.req <= requests
    /\ \A e \in audit : e.type = "anonymize" => e.req <= requests
    /\ job.op = "anonymize" =>
          /\ job.req <= requests
          /\ \A r \in replies : r.req # job.req
          /\ \A e \in audit : e.type = "anonymize" /\ e.req = job.req => e.mode = job.mode

\* What all the other endpoints, failures and changes of the mode have in common.
Quiet ==
    /\ requests' \in Nat /\ requests <= requests'
    /\ replies' = replies /\ purged \subseteq purged'
    /\ \A e \in audit' : e \in audit \/ e.type # "anonymize"
    /\ job'.op = "anonymize" => job' = job /\ requests' = requests

\* A step that adds no reply, no anonymize event and no anonymize job keeps it.
LEMMA ModeKept ==
    ASSUME TypeOK, ModeInv, Quiet
    PROVE  ModeInv'
<1>1. \A r \in replies : r.req \in Nat
  BY DEF TypeOK, Reply, Requests
<1>2. \A e \in audit : e.req \in Nat
  BY DEF TypeOK, AnonymizeEvent, RestoreEvent, ToolEvent, Requests
<1>3. requests \in Nat
  BY DEF TypeOK
<1>4. ModeTruthful'
  BY DEF ModeInv, ModeTruthful, Quiet
<1>5. \A r \in replies' : r.req <= requests'
  BY <1>1, <1>3 DEF ModeInv, Quiet
<1>6. \A e \in audit' : e.type = "anonymize" => e.req <= requests'
  BY <1>2, <1>3 DEF ModeInv, Quiet
<1>7. job'.op = "anonymize" =>
          /\ job'.req <= requests'
          /\ \A r \in replies' : r.req # job'.req
          /\ \A e \in audit' : e.type = "anonymize" /\ e.req = job'.req => e.mode = job'.mode
  BY DEF ModeInv, Quiet
<1> QED BY <1>4, <1>5, <1>6, <1>7 DEF ModeInv

\* /anonymize: the job starts with the mode of that moment, its events and its
\* reply carry that mode whatever the watcher does meanwhile.
LEMMA AnonymizeMode ==
    ASSUME TypeOK, JobInv, ModeInv, Anonymize
    PROVE  ModeInv'
<1>0. /\ \A r \in replies : r.req \in Nat
      /\ \A e \in audit : e.req \in Nat
      /\ requests \in Nat
  BY DEF TypeOK, Reply, AnonymizeEvent, RestoreEvent, ToolEvent, Requests
<1>1. ASSUME NEW ws \in Workspaces, NEW session \in Sessions, NEW u \in UserRequests,
             AnonymizeStart(ws, session, u.profile, u.text)
      PROVE  ModeInv'
  <2>1. /\ requests' = requests + 1 /\ replies' = replies /\ audit' = audit
        /\ job'.op = "anonymize" /\ job'.req = requests + 1
    BY <1>1 DEF AnonymizeStart, NewRequest, history
  <2>2. ModeTruthful'
    BY <2>1 DEF ModeInv, ModeTruthful
  <2> QED BY <1>0, <2>1, <2>2 DEF ModeInv
<1>2. ASSUME AnonymizePut PROVE ModeInv'
  <2>1. PICK i \in job.todo : job' = [job EXCEPT !.todo = @ \ {i}, !.cur = i]
    BY <1>2 DEF AnonymizePut
  <2>2. job.op = "anonymize" /\ job \in AnonymizeJob
    BY <1>2, JobType DEF AnonymizePut
  <2>3. job'.op = job.op /\ job'.req = job.req /\ job'.mode = job.mode
    BY <2>1, <2>2 DEF AnonymizeJob
  <2>4. requests' = requests /\ replies' = replies /\ audit' = audit
    BY <1>2 DEF AnonymizePut
  <2>5. ModeTruthful'
    BY <2>4 DEF ModeInv, ModeTruthful
  <2> QED BY <2>2, <2>3, <2>4, <2>5 DEF ModeInv
<1>3. ASSUME AnonymizeAudit PROVE ModeInv'
  <2>1. job.op = "anonymize" /\ job \in AnonymizeJob
    BY <1>3, JobType DEF AnonymizeAudit
  <2>2. /\ requests' = requests /\ replies' = replies
        /\ \A e \in audit' : e \in audit \/ (e.req = job.req /\ e.mode = job.mode)
        /\ job' = [job EXCEPT !.cur = 0]
    BY <1>3 DEF AnonymizeAudit, history
  <2>3. job'.op = job.op /\ job'.req = job.req /\ job'.mode = job.mode
    BY <2>1, <2>2 DEF AnonymizeJob
  <2>4. ModeTruthful'
    BY <2>1, <2>2 DEF ModeInv, ModeTruthful
  <2> QED BY <2>1, <2>2, <2>3, <2>4 DEF ModeInv
<1>4. ASSUME AnonymizeReturn PROVE ModeInv'
  <2>1. job.op = "anonymize" /\ job \in AnonymizeJob
    BY <1>4, JobType DEF AnonymizeReturn
  <2>2. job.text \in Texts /\ job.profile \in Profiles /\ job.mode \in Modes /\ job.req \in Nat
    BY <2>1, UserTextsTexts DEF AnonymizeJob, Requests
  <2> DEFINE m == MaskText(job.text, job.profile, job.mode)
             new == [ws |-> job.ws, req |-> job.req, profile |-> job.profile,
                     text |-> job.text, masked |-> m, degraded |-> job.mode # "full"]
  <2>3. requests' = requests /\ audit' = audit /\ job' = Idle /\ replies' = replies \cup {new}
    BY <1>4 DEF AnonymizeReturn
  <2>4. /\ new.req = job.req /\ new.profile = job.profile /\ new.masked = m
        /\ new.degraded = (job.mode # "full")
    OBVIOUS
  <2> HIDE DEF new
  <2>5. ~new.degraded /\ IsAllowed("NAME", new.profile) =>
            \A i \in DOMAIN new.masked :
                new.masked[i].kind = "surface" => ~Person[new.masked[i].s]
    <3> SUFFICES ASSUME job.mode = "full", IsAllowed("NAME", job.profile),
                        NEW i \in DOMAIN m, m[i].kind = "surface"
                 PROVE  ~Person[m[i].s]
      BY <2>4
    <3>1. DOMAIN m = DOMAIN job.text
      BY <2>2, MaskTextType
    <3> QED BY <2>2, <3>1, FullModeHides
  <2>6. \A e \in audit : e.type = "anonymize" /\ e.req = new.req =>
            (e.mode # "full") = new.degraded
    BY <2>1, <2>4 DEF ModeInv
  <2>7. ModeTruthful'
    BY <2>3, <2>5, <2>6 DEF ModeInv, ModeTruthful
  <2>8. new.req <= requests
    BY <2>1, <2>4 DEF ModeInv
  <2> QED BY <2>3, <2>7, <2>8 DEF ModeInv, Idle
<1> QED BY <1>1, <1>2, <1>3, <1>4 DEF Anonymize

\* No other endpoint, failure or change of the mode adds a reply, an anonymize
\* event or an anonymize job, and only a purge changes the rows.
LEMMA OtherQuiet ==
    ASSUME TypeOK,
           \/ Restore \/ Tool \/ RestoreStream \/ Purge
           \/ \E m \in Modes : ModeChange(m)
           \/ HandlerFails \/ Crash \/ UNCHANGED vars
    PROVE  Quiet /\ (rows' = rows \/ Purge)
<1>0. requests \in Nat
  BY DEF TypeOK
<1>1. CASE Restore
  <2>1. ASSUME NEW ws \in Workspaces, NEW text \in LlmTexts, RestoreStart(ws, text)
        PROVE  Quiet /\ rows' = rows
    BY <1>0, <2>1 DEF Quiet, RestoreStart, NewRequest, history
  <2>2. ASSUME RestoreAudit PROVE Quiet /\ rows' = rows
    <3>1. PICK p \in job.todo :
            /\ audit' = audit \cup
                 {[type |-> "restore", ws |-> job.ws, ph |-> p, req |-> job.req]}
            /\ job' = [job EXCEPT !.todo = @ \ {p}]
      BY <2>2 DEF RestoreAudit
    <3>2. \A e \in audit' : e \in audit \/ e.type # "anonymize"
      BY <3>1
    <3>3. job \in RestoreJob
      BY <2>2, JobType DEF RestoreAudit
    <3>4. job'.op = "restore"
      BY <3>1, <3>3 DEF RestoreJob
    <3>5. UNCHANGED <<requests, replies, purged, rows>>
      BY <2>2 DEF RestoreAudit, history
    <3> QED BY <1>0, <3>2, <3>4, <3>5 DEF Quiet
  <2>3. ASSUME RestoreReturn PROVE Quiet /\ rows' = rows
    BY <1>0, <2>3 DEF Quiet, RestoreReturn, Idle
  <2> QED BY <1>1, <2>1, <2>2, <2>3 DEF Restore
<1>2. CASE Tool
  <2>1. ASSUME NEW ws \in Workspaces, NEW tool \in Tools, NEW args \in ToolArgs,
               ToolStart(ws, tool, args)
        PROVE  Quiet /\ rows' = rows
    <3>1. PICK m : ToolCall(ws, tool, args, m) \/ ToolCallMasked(ws, tool, args, m)
      BY <2>1 DEF ToolStart
    <3>2. NewRequest /\ UNCHANGED <<rows, audit, replies, purged>>
      BY <3>1 DEF ToolCall, ToolCallMasked, history
    <3>3. job'.op # "anonymize"
      BY <3>1 DEF ToolCall, ToolCallMasked, NewRequest, Idle
    <3> QED BY <1>0, <3>2, <3>3 DEF Quiet, NewRequest
  <2>2. ASSUME ToolAudit PROVE Quiet /\ rows' = rows
    <3>1. \A e \in audit' : e \in audit \/ e.type # "anonymize"
      BY <2>2 DEF ToolAudit
    <3>2. job \in ToolJob /\ job' = [job EXCEPT !.audited = TRUE]
      BY <2>2, JobType DEF ToolAudit
    <3>3. job'.op = "tool"
      BY <3>2 DEF ToolJob
    <3>4. UNCHANGED <<requests, replies, purged, rows>>
      BY <2>2 DEF ToolAudit, history
    <3> QED BY <1>0, <3>1, <3>3, <3>4 DEF Quiet
  <2>3. ASSUME ToolReturn PROVE Quiet /\ rows' = rows
    BY <1>0, <2>3 DEF Quiet, ToolReturn, Idle
  <2> QED BY <1>2, <2>1, <2>2, <2>3 DEF Tool
<1>3. CASE RestoreStream
  <2>1. PICK st \in Streams :
          \/ \E ws \in Workspaces, text \in LlmTexts : StreamOpen(st, ws, text)
          \/ StreamChunk(st)
          \/ StreamEnd(st)
    BY <1>3 DEF RestoreStream
  <2>2. /\ UNCHANGED <<rows, audit, replies, purged, job>>
        /\ NewRequest \/ requests' = requests
    BY <2>1 DEF StreamOpen, StreamChunk, StreamEnd, history
  <2> QED BY <1>0, <2>2 DEF Quiet, NewRequest, Idle
<1>4. CASE Purge
  <2>1. PICK ws \in Workspaces :
          \/ PurgeAll(ws)
          \/ \E session \in Sessions : PurgeSession(ws, session)
          \/ \E subject \in Surfaces : PurgeSubject(ws, subject)
    BY <1>4 DEF Purge
  <2>2. NewRequest /\ Purged(ws) /\ UNCHANGED <<audit, replies, job>>
    BY <2>1 DEF PurgeAll, PurgeSession, PurgeSubject
  <2> QED BY <1>0, <1>4, <2>2 DEF Quiet, NewRequest, Purged, Idle
<1>5. CASE \/ \E m \in Modes : ModeChange(m)
           \/ HandlerFails \/ Crash \/ UNCHANGED vars
  BY <1>0, <1>5 DEF Quiet, ModeChange, HandlerFails, Crash, vars, history, Idle
<1> QED BY <1>1, <1>2, <1>3, <1>4, <1>5

\* A reply that is not flagged degraded hides every name its profile masks, and
\* its audit events agree, although the watcher's thread may change the mode
\* at any step of the request (pipeline.py:261).
THEOREM ModeReported == Spec => []ModeTruthful
<1> DEFINE I == TypeOK /\ JobInv /\ ModeInv
<1>1. Init => I
  BY InitType DEF Init, ModeInv, ModeTruthful, Idle
<1>2. I /\ [Next]_vars => I'
  BY NextType, AnonymizeMode, OtherQuiet, ModeKept DEF Next
<1>3. I => ModeTruthful
  BY DEF ModeInv
<1> HIDE DEF I
<1> QED BY <1>1, <1>2, <1>3, PTL DEF Spec

----------------------------------------------------------------------------
(* The latest reply of a workspace restores to the caller's text.          *)

\* The row a reply needs for its leader l is there, and a row of a later
\* request is told by its number.
RowKept(r, m, l) ==
    LET p == PlaceholderAt(r.text, r.profile, m, l)
    IN  /\ HasRow(r.ws, p)
        /\ rows[r.ws][p].req >= r.req
        /\ rows[r.ws][p].req = r.req => rows[r.ws][p].original = r.text[l].s

\* The row of leader l of the running request has been written.
RowStored(l) ==
    LET p == PlaceholderAt(job.text, job.profile, job.mode, l)
    IN  /\ HasRow(job.ws, p)
        /\ rows[job.ws][p].req = job.req
        /\ rows[job.ws][p].original = job.text[l].s

\* A reply was masked in some mode, and has its rows until its workspace is purged.
ReplyKept(r) ==
    \E m \in Modes :
        /\ r.masked = MaskText(r.text, r.profile, m)
        /\ r.req \notin purged => \A l \in Leaders(r.text, r.profile, m) : RowKept(r, m, l)

RoundTripInv ==
    /\ \A r \in replies : r.req <= requests /\ ReplyKept(r)
    /\ job.op = "anonymize" =>
          /\ job.req = requests
          /\ \A r \in replies : r.req < job.req
          /\ \A l \in Leaders(job.text, job.profile, job.mode) \ job.todo : RowStored(l)

\* The fields of a reply and of the running job are texts, profiles and numbers.
LEMMA ReplyFields ==
    ASSUME TypeOK, NEW r \in replies
    PROVE  /\ r.text \in Texts /\ r.profile \in Profiles /\ r.ws \in Workspaces
           /\ r.req \in Nat
<1>1. r \in Reply
  BY DEF TypeOK
<1> QED BY <1>1, UserTextsTexts DEF Reply, Requests

LEMMA JobFields ==
    ASSUME TypeOK, job.op = "anonymize"
    PROVE  /\ job \in AnonymizeJob /\ job.text \in Texts /\ job.profile \in Profiles
           /\ job.mode \in Modes /\ job.ws \in Workspaces /\ job.session \in Sessions
           /\ job.req \in Requests /\ job.req \in Nat
BY JobType, UserTextsTexts DEF AnonymizeJob, Requests

\* The placeholder of a leader can be stored.
LEMMA LeaderPlaceholder ==
    ASSUME NEW text \in Texts, NEW profile \in Profiles, NEW m \in Modes,
           NEW l \in Leaders(text, profile, m)
    PROVE  /\ PlaceholderAt(text, profile, m, l) \in Placeholders
           /\ text[l].s \in Surfaces
BY LeadersType, PlaceholderAtType, DetectedType

\* Rows that stay, or are replaced by rows of a later request, keep a reply.
LEMMA ReplyStays ==
    ASSUME TypeOK, NEW r \in replies, ReplyKept(r), purged \subseteq purged',
           r.req \notin purged' => \A p \in Placeholders :
               \/ rows'[r.ws][p] = rows[r.ws][p]
               \/ HasRow(r.ws, p)' /\ rows'[r.ws][p].req \in Nat /\ rows'[r.ws][p].req > r.req
    PROVE  ReplyKept(r)'
<1>1. PICK m \in Modes :
        /\ r.masked = MaskText(r.text, r.profile, m)
        /\ r.req \notin purged => \A l \in Leaders(r.text, r.profile, m) : RowKept(r, m, l)
  BY DEF ReplyKept
<1>2. ASSUME r.req \notin purged', NEW l \in Leaders(r.text, r.profile, m)
      PROVE  RowKept(r, m, l)'
  <2> DEFINE p == PlaceholderAt(r.text, r.profile, m, l)
  <2>1. p \in Placeholders
    BY ReplyFields, LeaderPlaceholder
  <2>2. /\ HasRow(r.ws, p) /\ rows[r.ws][p].req >= r.req
        /\ rows[r.ws][p].req = r.req => rows[r.ws][p].original = r.text[l].s
    BY <1>1, <1>2 DEF RowKept
  <2>3. r.req \in Nat
    BY ReplyFields
  <2> HIDE DEF p
  <2>4. /\ HasRow(r.ws, p)' /\ rows'[r.ws][p].req >= r.req
        /\ rows'[r.ws][p].req = r.req => rows'[r.ws][p].original = r.text[l].s
    BY <1>2, <2>1, <2>2, <2>3 DEF HasRow
  <2> QED BY <2>4 DEF RowKept, p
<1> QED BY <1>1, <1>2 DEF ReplyKept

\* /anonymize stores the rows of its leaders one by one: no row of the request
\* replaces another, since its placeholders are injective, and those of earlier
\* requests that it replaces carry its number.
LEMMA AnonymizeRows ==
    ASSUME TypeOK, JobInv, RoundTripInv, Anonymize
    PROVE  RoundTripInv'
<1>0. requests \in Nat /\ \A r \in replies : r.req \in Nat
  BY ReplyFields DEF TypeOK
<1>1. ASSUME NEW ws \in Workspaces, NEW session \in Sessions, NEW u \in UserRequests,
             AnonymizeStart(ws, session, u.profile, u.text)
      PROVE  RoundTripInv'
  <2>1. /\ requests' = requests + 1 /\ UNCHANGED <<replies, rows, purged>>
        /\ job'.req = requests + 1
        /\ job'.todo = Leaders(job'.text, job'.profile, job'.mode)
    BY <1>1 DEF AnonymizeStart, NewRequest, history
  <2>2. \A r \in replies : ReplyKept(r)'
    BY <2>1, ReplyStays DEF RoundTripInv
  <2> QED BY <1>0, <2>1, <2>2 DEF RoundTripInv
<1>2. ASSUME AnonymizePut PROVE RoundTripInv'
  <2>1. job.op = "anonymize"
    BY <1>2 DEF AnonymizePut
  <2>2. PICK i \in job.todo :
          /\ put(job.ws, PlaceholderAt(job.text, job.profile, job.mode, i), job.text[i].s,
                 job.session, job.req)
          /\ job' = [job EXCEPT !.todo = @ \ {i}, !.cur = i]
    BY <1>2 DEF AnonymizePut
  <2> DEFINE L == Leaders(job.text, job.profile, job.mode)
             P(l) == PlaceholderAt(job.text, job.profile, job.mode, l)
  <2>3. UNCHANGED <<replies, requests, purged>>
    BY <1>2 DEF AnonymizePut
  <2>4. /\ job'.op = job.op /\ job'.req = job.req /\ job'.mode = job.mode /\ job'.ws = job.ws
        /\ job'.text = job.text /\ job'.profile = job.profile /\ job'.todo = job.todo \ {i}
    BY <2>1, <2>2, JobFields DEF AnonymizeJob
  <2>5. i \in L /\ P(i) \in Placeholders /\ job.text[i].s \in Surfaces
    BY <2>1, JobFields, LeaderPlaceholder DEF JobInv
  <2>6. /\ rows'[job.ws][P(i)] = [original |-> job.text[i].s, session |-> job.session,
                                  req |-> job.req]
        /\ \A v \in Workspaces : \A q \in Placeholders :
              v # job.ws \/ q # P(i) => rows'[v][q] = rows[v][q]
        /\ rows' \in [Workspaces -> [Placeholders -> Row \cup {NoRow}]]
    BY <2>1, <2>2, <2>5, JobFields, PutType
  <2>7. /\ rows'[job.ws][P(i)] # NoRow /\ rows'[job.ws][P(i)].req = job.req
        /\ rows'[job.ws][P(i)].original = job.text[i].s
    BY <2>6 DEF NoRow
  <2>8. ASSUME NEW r \in replies PROVE ReplyKept(r)'
    <3>1. r.req < job.req /\ job.req \in Nat /\ r.ws \in Workspaces /\ r.req \in Nat
      BY <2>1, ReplyFields, JobFields DEF RoundTripInv
    <3>2. \A p \in Placeholders :
             \/ rows'[r.ws][p] = rows[r.ws][p]
             \/ HasRow(r.ws, p)' /\ rows'[r.ws][p].req \in Nat /\ rows'[r.ws][p].req > r.req
      <4> HIDE DEF P
      <4>1. ASSUME NEW p \in Placeholders, p = P(i), r.ws = job.ws
            PROVE  HasRow(r.ws, p)' /\ rows'[r.ws][p].req \in Nat /\ rows'[r.ws][p].req > r.req
        BY <2>7, <3>1, <4>1 DEF HasRow
      <4> QED BY <2>6, <3>1, <4>1
    <3> QED BY <2>3, <3>2, ReplyStays DEF RoundTripInv
  <2>9. ASSUME NEW l \in L, l \notin job.todo \ {i}
        PROVE  /\ P(l) \in Placeholders /\ rows'[job.ws][P(l)] # NoRow
               /\ rows'[job.ws][P(l)].req = job.req
               /\ rows'[job.ws][P(l)].original = job.text[l].s
    <3>1. CASE l = i
      BY <2>5, <2>7, <3>1
    <3>2. CASE l # i
      <4>1. P(l) # P(i)
        BY <2>1, <2>5, <3>2, JobFields, LeadersType, LeaderOfLeader, PlaceholderInjective
      <4>2. P(l) \in Placeholders
        BY <2>1, JobFields, LeaderPlaceholder
      <4>3. /\ HasRow(job.ws, P(l)) /\ rows[job.ws][P(l)].req = job.req
            /\ rows[job.ws][P(l)].original = job.text[l].s
        BY <2>1, <2>9, <3>2 DEF RoundTripInv, RowStored
      <4>4. rows'[job.ws][P(l)] = rows[job.ws][P(l)]
        BY <2>1, <2>6, <4>1, <4>2, JobFields
      <4> HIDE DEF P
      <4> QED BY <4>2, <4>3, <4>4 DEF HasRow
    <3> QED BY <3>1, <3>2
  <2>10. \A l \in Leaders(job'.text, job'.profile, job'.mode) \ job'.todo : RowStored(l)'
    BY <2>4, <2>9 DEF RowStored, HasRow
  <2> QED BY <2>1, <2>3, <2>4, <2>8, <2>10 DEF RoundTripInv
<1>3. ASSUME AnonymizeAudit PROVE RoundTripInv'
  <2>1. job.op = "anonymize"
    BY <1>3 DEF AnonymizeAudit
  <2>2. UNCHANGED <<replies, requests, purged, rows>> /\ job' = [job EXCEPT !.cur = 0]
    BY <1>3 DEF AnonymizeAudit, history
  <2>3. /\ job'.op = job.op /\ job'.req = job.req /\ job'.mode = job.mode /\ job'.ws = job.ws
        /\ job'.text = job.text /\ job'.profile = job.profile /\ job'.todo = job.todo
    BY <2>1, <2>2, JobFields DEF AnonymizeJob
  <2>4. \A r \in replies : ReplyKept(r)'
    BY <2>2, ReplyStays DEF RoundTripInv
  <2>5. \A l \in Leaders(job'.text, job'.profile, job'.mode) \ job'.todo : RowStored(l)'
    BY <2>1, <2>2, <2>3 DEF RoundTripInv, RowStored, HasRow
  <2> QED BY <2>1, <2>2, <2>3, <2>4, <2>5 DEF RoundTripInv
<1>4. ASSUME AnonymizeReturn PROVE RoundTripInv'
  <2>1. job.op = "anonymize" /\ job.todo = {}
    BY <1>4 DEF AnonymizeReturn
  <2>2. PICK m \in Modes : m = job.mode
    BY <2>1, JobFields
  <2>3. PICK new : /\ replies' = replies \cup {new}
                   /\ new.ws = job.ws /\ new.req = job.req /\ new.profile = job.profile
                   /\ new.text = job.text
                   /\ new.masked = MaskText(job.text, job.profile, m)
    <3> DEFINE n == [ws |-> job.ws, req |-> job.req, profile |-> job.profile,
                     text |-> job.text,
                     masked |-> MaskText(job.text, job.profile, job.mode),
                     degraded |-> job.mode # "full"]
    <3>1. replies' = replies \cup {n}
      BY <1>4 DEF AnonymizeReturn
    <3>2. /\ n.ws = job.ws /\ n.req = job.req /\ n.profile = job.profile /\ n.text = job.text
          /\ n.masked = MaskText(job.text, job.profile, m)
      BY <2>2
    <3> HIDE DEF n
    <3> QED BY <3>1, <3>2
  <2>4. UNCHANGED <<requests, rows, purged>> /\ job' = Idle
    BY <1>4 DEF AnonymizeReturn
  <2>5. \A r \in replies : ReplyKept(r)'
    BY <2>4, ReplyStays DEF RoundTripInv
  <2>6. ReplyKept(new)'
    <3>1. ASSUME NEW l \in Leaders(new.text, new.profile, m) PROVE RowKept(new, m, l)'
      <4>1. RowStored(l)
        BY <2>1, <2>2, <2>3 DEF RoundTripInv
      <4>2. RowKept(new, m, l)
        BY <2>1, <2>2, <2>3, <4>1, JobFields DEF RowStored, RowKept
      <4> QED BY <2>4, <4>2 DEF RowKept, HasRow
    <3> QED BY <2>3, <3>1 DEF ReplyKept
  <2>7. new.req <= requests
    BY <1>0, <2>1, <2>3 DEF RoundTripInv
  <2> QED BY <2>3, <2>4, <2>5, <2>6, <2>7 DEF RoundTripInv, Idle
<1> QED BY <1>1, <1>2, <1>3, <1>4 DEF Anonymize

\* A purge marks every reply of its workspace and leaves the others' rows.
LEMMA PurgeReplies ==
    ASSUME TypeOK, Purge, NEW r \in replies, r.req \notin purged'
    PROVE  \A p \in Placeholders : rows'[r.ws][p] = rows[r.ws][p]
<1>1. PICK ws \in Workspaces :
        \/ PurgeAll(ws)
        \/ \E session \in Sessions : PurgeSession(ws, session)
        \/ \E subject \in Surfaces : PurgeSubject(ws, subject)
  BY DEF Purge
<1>2. Purged(ws) /\ \E gone : PurgeRows(ws, gone)
  BY <1>1 DEF PurgeAll, PurgeSession, PurgeSubject
<1>3. r.ws # ws
  BY <1>2 DEF Purged
<1> QED BY <1>2, <1>3, ReplyFields DEF PurgeRows, TypeOK

\* The other steps change no rows but those a purge deletes.
LEMMA OtherRows ==
    ASSUME TypeOK, RoundTripInv, Quiet, rows' = rows \/ Purge
    PROVE  RoundTripInv'
<1>1. requests \in Nat /\ \A r \in replies : r.req \in Nat
  BY ReplyFields DEF TypeOK
<1>2. ASSUME NEW r \in replies PROVE ReplyKept(r)'
  <2>1. r.req \notin purged' => \A p \in Placeholders : rows'[r.ws][p] = rows[r.ws][p]
    BY PurgeReplies
  <2> QED BY <2>1, ReplyStays DEF RoundTripInv, Quiet
<1>3. ASSUME job'.op = "anonymize" PROVE rows' = rows
  <2>1. job.op = "anonymize" /\ job' = job
    BY <1>3 DEF Quiet
  <2>2. ASSUME Purge PROVE FALSE
    <3>1. PICK ws \in Workspaces :
            \/ PurgeAll(ws)
            \/ \E session \in Sessions : PurgeSession(ws, session)
            \/ \E subject \in Surfaces : PurgeSubject(ws, subject)
      BY <2>2 DEF Purge
    <3>2. job = Idle
      BY <3>1 DEF PurgeAll, PurgeSession, PurgeSubject, NewRequest
    <3> QED BY <2>1, <3>2 DEF Idle
  <2> QED BY <2>2
<1>4. ASSUME job'.op = "anonymize"
      PROVE  \A l \in Leaders(job'.text, job'.profile, job'.mode) \ job'.todo : RowStored(l)'
  <2>1. job' = job /\ rows' = rows
    BY <1>3, <1>4 DEF Quiet
  <2> QED BY <1>4, <2>1 DEF RoundTripInv, RowStored, HasRow
<1> QED BY <1>1, <1>2, <1>4 DEF RoundTripInv, Quiet

\* Positions with one key name one subject.
LEMMA SameKeySameSubject ==
    ASSUME NEW text \in Texts, NEW profile \in Profiles, NEW m \in Modes,
           NEW i \in Detected(text, profile, m), NEW l \in Detected(text, profile, m),
           CacheKey(text[l].s, m) = CacheKey(text[i].s, m)
    PROVE  SameSubject(text[l].s, text[i].s)
<1> DEFINE a == text[l].s
           b == text[i].s
<1>1. a \in Surfaces /\ b \in Surfaces
  BY DetectedType
<1>2. TypeIn(a, m) # "none" /\ TypeIn(b, m) # "none"
  BY DEF Detected
<1> HIDE DEF a, b
<1>3. \A s \in Surfaces : TypeIn(s, m) = "NAME" => Person[s] /\ Hits(s, m) = {}
  BY HitType DEF TypeIn
<1>4. \A s \in Surfaces : Person[s] => Hits(Lemma[s], m) = {}
  BY NamesAreWords DEF Hits
<1>5. \A s \in Surfaces : Hits(s, m) = {} /\ TypeIn(s, m) # "none" => TypeIn(s, m) = "NAME"
  BY DEF TypeIn
<1>6. CacheKey(a, m) = CacheKey(b, m)
  BY DEF a, b
<1>7. SameSubject(a, b)
  BY <1>1, <1>2, <1>3, <1>4, <1>5, <1>6 DEF CacheKey, SameSubject
<1> QED BY <1>7 DEF a, b

\* A reply with its own rows restores to the caller's text.
LEMMA KeptRoundTrips ==
    ASSUME TypeOK, NEW r \in replies, ReplyKept(r), r.req \notin purged, ~Superseded(r)
    PROVE  RoundTrips(r)
<1>1. PICK m \in Modes :
        /\ r.masked = MaskText(r.text, r.profile, m)
        /\ \A l \in Leaders(r.text, r.profile, m) : RowKept(r, m, l)
  BY DEF ReplyKept
<1>2. r.text \in Texts /\ r.profile \in Profiles /\ r.ws \in Workspaces /\ r.req \in Nat
  BY ReplyFields
<1> DEFINE D == Detected(r.text, r.profile, m)
           back == Unmask(r.ws, r.masked)
<1>3. ASSUME NEW i \in DOMAIN r.text
      PROVE  back[i] = UnmaskToken(r.ws, r.masked[i])
  BY <1>1, <1>2, MaskTextType DEF Unmask
<1>4. ASSUME NEW i \in D
      PROVE  back[i].kind = "surface" /\ SameSubject(back[i].s, r.text[i].s)
  <2> DEFINE l == LeaderOf(r.text, r.profile, m, i)
             p == PlaceholderAt(r.text, r.profile, m, i)
  <2>1. /\ l \in Leaders(r.text, r.profile, m) /\ l \in D
        /\ CacheKey(r.text[l].s, m) = CacheKey(r.text[i].s, m)
    BY <1>2, LeaderOfType, LeadersType
  <2>2. PlaceholderAt(r.text, r.profile, m, l) = p
    BY <1>2, <2>1, LeaderOfLeader DEF PlaceholderAt
  <2>3. /\ HasRow(r.ws, p) /\ rows[r.ws][p].req >= r.req
        /\ rows[r.ws][p].req = r.req => rows[r.ws][p].original = r.text[l].s
    BY <1>1, <2>1, <2>2 DEF RowKept
  <2>4. p \in Placeholders /\ rows[r.ws][p].req \in Nat
    BY <1>2, <2>3, RowType DEF Row, Requests
  <2>5. rows[r.ws][p].original = r.text[l].s
    BY <1>2, <2>3, <2>4 DEF Superseded
  <2>6. i \in DOMAIN r.text /\ r.masked[i] = Ph(p)
    BY <1>1 DEF MaskText, Detected
  <2> HIDE DEF p, l
  <2>7. back[i] = Surface(r.text[l].s)
    BY <1>3, <2>3, <2>5, <2>6 DEF UnmaskToken, Ph
  <2>8. SameSubject(r.text[l].s, r.text[i].s)
    BY <1>2, <2>1, SameKeySameSubject
  <2> QED BY <2>7, <2>8 DEF Surface
<1>5. ASSUME NEW i \in DOMAIN r.text, i \notin D
      PROVE  back[i] = Neutralise(r.text[i])
  <2>1. r.masked[i] = Neutralise(r.text[i])
    BY <1>1, <1>5 DEF MaskText
  <2>2. Neutralise(r.text[i]).kind # "ph"
    BY DEF Neutralise, Defanged
  <2> QED BY <1>3, <2>1, <2>2 DEF UnmaskToken
<1>6. ASSUME NEW i \in DOMAIN r.text, r.text[i].kind = "surface", i \notin D
      PROVE  back[i].kind = "surface" /\ SameSubject(back[i].s, r.text[i].s)
  BY <1>5, <1>6 DEF Neutralise, SameSubject
<1>7. \A i \in D : r.text[i].kind = "surface"
  BY DEF Detected
<1> HIDE DEF D, back
<1> QED BY <1>4, <1>5, <1>6, <1>7 DEF RoundTrips, back

\* Whatever restores, tool calls, failures, crashes and calls to other
\* workspaces happen in between, the reply to the last request that stored
\* anything in a workspace restores to the text its caller sent
\* (Pipeline.anonymize, then Pipeline.restore).
THEOREM LatestRestores == Spec => []LatestRoundTrip
<1> DEFINE I == TypeOK /\ JobInv /\ RoundTripInv
<1>1. Init => I
  BY InitType DEF Init, RoundTripInv, Idle
<1>2. I /\ [Next]_vars => I'
  BY NextType, AnonymizeRows, OtherQuiet, OtherRows DEF Next
<1>3. I => LatestRoundTrip
  BY KeptRoundTrips DEF RoundTripInv, LatestRoundTrip
<1> HIDE DEF I
<1> QED BY <1>1, <1>2, <1>3, PTL DEF Spec
============================================================================
