----------------------------- MODULE ChatClient -----------------------------
(***************************************************************************)
(* The chat page of the web UI: ChatLayout.tsx, ws-client.ts and           *)
(* api/chat.ts.  A message is sent over a WebSocket of its own; when that  *)
(* fails, before or after the handshake, it is sent again as one REST      *)
(* request.  React's state updates, the socket's events and the user's     *)
(* clicks interleave; one task of the event loop, with the microtasks it   *)
(* leaves behind, is one action.                                           *)
(*                                                                         *)
(* The server is external: it may put any frame on the socket at any time, *)
(* also after an error or a "done" frame, and may close it or lose it.  A  *)
(* browser delivers no message event once the page has called close().     *)
(***************************************************************************)
EXTENDS Naturals, Sequences, SequencesExt

CONSTANTS Request,      \* one per click on "send"
          Session,
          MaxFrames,    \* bound on the frames a server puts on a socket
          NoSession

ASSUME ChatAssumption == /\ NoSession \notin Session
                         /\ MaxFrames \in Nat

VARIABLES sessions,   \* the sessions of the side bar
          activeId,   \* the session shown, the target of the next send
          messages,   \* the messages of each session
          busy,       \* the input is disabled
          error,      \* the error banner is shown
          phase,      \* where the send of each request stands
          socket,     \* the socket of each request, as the page left it
          target,     \* the session a request was sent in
          closure,    \* the messages of the render the click came from
          posted,     \* the messages a REST request carried
          sent,       \* the frames the server put on a request's socket
          got         \* how many of them the page has handled

vars == <<sessions, activeId, messages, busy, error, phase, socket, target,
          closure, posted, sent, got>>

\* A frame that is not JSON is handled like an "error" frame and counts as one;
\* "other" is any type the page does not know.
Frames == {"delta", "done", "error", "other", "close"}
Endings == {"done", "error", "close"}

Phases == {"unsent", "socket", "dropped", "rest", "over"}

\* What a text is made of: what the user typed, the delta in the at-th frame,
\* the answer of the REST request, or the generic error text.
Said(r) == [from |-> "user", req |-> r, at |-> 0]
Delta(r, i) == [from |-> "socket", req |-> r, at |-> i]
RestText(r) == [from |-> "rest", req |-> r, at |-> 0]
Generic(r) == [from |-> "generic", req |-> r, at |-> 0]

Question(r) == [req |-> r, role |-> "user", text |-> <<Said(r)>>,
                streaming |-> FALSE, error |-> FALSE]
EmptyAnswer(r) == [req |-> r, role |-> "assistant", text |-> <<>>,
                   streaming |-> TRUE, error |-> FALSE]

Init == /\ sessions = {}
        /\ activeId = NoSession
        /\ messages = [s \in Session |-> <<>>]
        /\ busy = FALSE
        /\ error = FALSE
        /\ phase = [r \in Request |-> "unsent"]
        /\ socket = [r \in Request |-> "none"]
        /\ target = [r \in Request |-> NoSession]
        /\ closure = [r \in Request |-> <<>>]
        /\ posted = [r \in Request |-> {}]
        /\ sent = [r \in Request |-> <<>>]
        /\ got = [r \in Request |-> 0]

-----------------------------------------------------------------------------
(* The user.                                                               *)

\* "New session": the button of the side bar, never disabled.
NewSession(s) == /\ s \notin sessions
                 /\ sessions' = sessions \union {s}
                 /\ activeId' = s
                 /\ UNCHANGED <<messages, busy, error, phase, socket, target,
                                closure, posted, sent, got>>

SelectSession(s) == /\ s \in sessions
                    /\ activeId' = s
                    /\ UNCHANGED <<sessions, messages, busy, error, phase, socket, target,
                                   closure, posted, sent, got>>

\* send() in the session shown, or in a new one when none is.  The input and
\* the examples are disabled while a send is under way.  The closure of the
\* click keeps the messages as they were rendered.
Send(r, s) ==
    /\ ~busy
    /\ phase[r] = "unsent"
    /\ IF activeId = NoSession THEN s \notin sessions ELSE s = activeId
    /\ sessions' = sessions \union {s}
    /\ activeId' = s
    /\ closure' = [closure EXCEPT ![r] = messages[s]]
    /\ messages' = [messages EXCEPT ![s] = @ \o <<Question(r), EmptyAnswer(r)>>]
    /\ busy' = TRUE
    /\ error' = FALSE
    /\ target' = [target EXCEPT ![r] = s]
    /\ phase' = [phase EXCEPT ![r] = "socket"]
    /\ UNCHANGED <<socket, posted, sent, got>>

-----------------------------------------------------------------------------
(* The two transports.                                                     *)

\* setMessages(m => ...): the assistant message of r is mapped by Change, in
\* the session r was sent in.
Answer(r, Change(_)) ==
    [messages EXCEPT ![target[r]] =
        [i \in DOMAIN @ |-> IF @[i].req = r /\ @[i].role = "assistant"
                              THEN Change(@[i]) ELSE @[i]]]

\* The socket opens and the message is sent on it.
Opened(r) == /\ phase[r] = "socket"
             /\ socket[r] = "none"
             /\ socket' = [socket EXCEPT ![r] = "open"]
             /\ UNCHANGED <<sessions, activeId, messages, busy, error, phase, target,
                            closure, posted, sent, got>>

\* messagesToApiPayload: failed answers and empty ones are left out.  The order
\* is that of the conversation and is not kept.
Payload(ms) == {m \in ms : ~m.error /\ (m.role = "user" \/ m.text # <<>>)}

\* The history without the assistant message of r.
Others(r, ms) == {m \in ToSet(ms) : ~(m.req = r /\ m.role = "assistant")}

\* A mutant of PostHistory: the history is that of the session shown now.
PostHistoryShown(r) ==
    /\ phase' = [phase EXCEPT ![r] = "rest"]
    /\ posted' = [posted EXCEPT ![r] = Payload(Others(r, messages[activeId]))]

\* sendViaRest up to its await: the history is that of the closure.
PostHistory(r) ==
    /\ phase' = [phase EXCEPT ![r] = "rest"]
    /\ posted' = [posted EXCEPT ![r] = Payload(Others(r, closure[r]))]

\* A mutant of ConnectFails: the error before the handshake does not reject connect().
ConnectFailsSilent(r) == /\ phase[r] = "socket"
                         /\ socket[r] = "none"
                         /\ socket' = [socket EXCEPT ![r] = "closed"]
                         /\ UNCHANGED <<sessions, activeId, messages, busy, error, phase,
                                        target, closure, posted, sent, got>>

\* The constructor throws, or the socket reports an error before it is open.
ConnectFails(r) == /\ phase[r] = "socket"
                   /\ socket[r] = "none"
                   /\ socket' = [socket EXCEPT ![r] = "closed"]
                   /\ PostHistory(r)
                   /\ UNCHANGED <<sessions, activeId, messages, busy, error, target,
                                  closure, sent, got>>

\* The next frame that the page has not handled; there are no more message
\* events once the page has closed the socket.
Receive(r, kinds) == /\ socket[r] = "open"
                     /\ got[r] < Len(sent[r])
                     /\ sent[r][got[r] + 1] \in kinds
                     /\ got' = [got EXCEPT ![r] = @ + 1]

Close(r) == socket' = [socket EXCEPT ![r] = "closed"]

OnDelta(r) ==
    /\ Receive(r, {"delta"})
    /\ messages' = Answer(r, LAMBDA m :
                             [m EXCEPT !.text = Append(@, Delta(r, got[r] + 1))])
    /\ UNCHANGED <<sessions, activeId, busy, error, phase, socket, target, closure,
                   posted, sent>>

\* A mutant of OnDone: the socket stays open when the answer is done.
OnDoneLeavesOpen(r) ==
    /\ Receive(r, {"done"})
    /\ messages' = Answer(r, LAMBDA m : [m EXCEPT !.streaming = FALSE])
    /\ phase' = [phase EXCEPT ![r] = "over"]
    /\ busy' = FALSE
    /\ UNCHANGED <<sessions, activeId, error, socket, target, closure, posted, sent>>

\* onDone: the answer is final, the socket is closed, the send ends.
OnDone(r) ==
    /\ Receive(r, {"done"})
    /\ messages' = Answer(r, LAMBDA m : [m EXCEPT !.streaming = FALSE])
    /\ Close(r)
    /\ phase' = [phase EXCEPT ![r] = "over"]
    /\ busy' = FALSE
    /\ UNCHANGED <<sessions, activeId, error, target, closure, posted, sent>>

\* A mutant of OnError: the socket stays open behind the REST request.
OnErrorLeavesOpen(r) ==
    /\ Receive(r, {"error"})
    /\ PostHistory(r)
    /\ UNCHANGED <<sessions, activeId, messages, busy, error, socket, target, closure,
                   sent>>

\* onError and, for a frame that is not JSON, onTransportError: the socket is
\* closed and the request goes out again over REST.
OnError(r) ==
    /\ Receive(r, {"error"})
    /\ Close(r)
    /\ PostHistory(r)
    /\ UNCHANGED <<sessions, activeId, messages, busy, error, target, closure, sent>>

\* A frame of an unknown type is ignored.
OnOther(r) ==
    /\ Receive(r, {"other"})
    /\ UNCHANGED <<sessions, activeId, messages, busy, error, phase, socket, target,
                   closure, posted, sent>>

\* The socket closes under a running answer: the listener only forgets the
\* socket, neither resolve nor reject is called.
OnClose(r) ==
    /\ Receive(r, {"close"})
    /\ Close(r)
    /\ phase' = [phase EXCEPT ![r] = "dropped"]
    /\ UNCHANGED <<sessions, activeId, messages, busy, error, target, closure, posted,
                   sent>>

RestAnswers(r) ==
    /\ phase[r] = "rest"
    /\ messages' = Answer(r, LAMBDA m : [m EXCEPT !.text = <<RestText(r)>>,
                                                  !.streaming = FALSE])
    /\ phase' = [phase EXCEPT ![r] = "over"]
    /\ busy' = FALSE
    /\ UNCHANGED <<sessions, activeId, error, socket, target, closure, posted, sent,
                   got>>

\* The fetch fails, the status is not ok or the body is not what it should be.
RestFails(r) ==
    /\ phase[r] = "rest"
    /\ error' = TRUE
    /\ messages' = Answer(r, LAMBDA m : [m EXCEPT !.text = <<Generic(r)>>,
                                                  !.streaming = FALSE,
                                                  !.error = TRUE])
    /\ phase' = [phase EXCEPT ![r] = "over"]
    /\ busy' = FALSE
    /\ UNCHANGED <<sessions, activeId, socket, target, closure, posted, sent, got>>

-----------------------------------------------------------------------------
(* The server (external).                                                  *)

Emit(r, frames) ==
    /\ socket[r] = "open"
    /\ sent' = [sent EXCEPT ![r] = frames]
    /\ UNCHANGED <<sessions, activeId, messages, busy, error, phase, socket, target,
                   closure, posted, got>>

\* Any frame but the closing one, also after an error or a "done".
ServerSends(r) == /\ Len(sent[r]) < MaxFrames
                  /\ "close" \notin ToSet(sent[r])
                  /\ \E f \in Frames \ {"close"} : Emit(r, Append(sent[r], f))

\* A server ends every answer it has begun.
ServerEnds(r) == /\ ToSet(sent[r]) \intersect Endings = {}
                 /\ \E f \in Endings : Emit(r, Append(sent[r], f))

\* The connection breaks; the frames in flight are lost.
ConnectionLost(r) == /\ "close" \notin ToSet(sent[r])
                     /\ Emit(r, Append(SubSeq(sent[r], 1, got[r]), "close"))

Page(r) == \/ Opened(r) \/ ConnectFails(r)
           \/ OnDelta(r) \/ OnDone(r) \/ OnError(r) \/ OnOther(r) \/ OnClose(r)
           \/ RestAnswers(r) \/ RestFails(r)

Next == \/ \E s \in Session : NewSession(s) \/ SelectSession(s)
        \/ \E r \in Request : \/ \E s \in Session : Send(r, s)
                              \/ Page(r)
                              \/ ServerSends(r)
                              \/ ServerEnds(r)
                              \/ ConnectionLost(r)

\* The event loop runs every task it has; a handshake and a fetch end, with an
\* answer or an error; a server that has taken a request ends its answer.
Fairness == \A r \in Request : WF_vars(Page(r)) /\ WF_vars(ServerEnds(r))

Spec == Init /\ [][Next]_vars
FairSpec == Spec /\ Fairness

-----------------------------------------------------------------------------
(* Properties.                                                             *)

Pieces == [from : {"user", "socket", "rest", "generic"}, req : Request,
           at : 0 .. MaxFrames + 1]
Message == [req : Request, role : {"user", "assistant"}, text : Seq(Pieces),
            streaming : BOOLEAN, error : BOOLEAN]

\* The variables of the page hold what their declarations in ChatLayout.tsx
\* say, and at most MaxFrames frames and an ending are on a socket.
TypeOK ==
    /\ sessions \subseteq Session
    /\ activeId \in sessions \union {NoSession}
    /\ messages \in [Session -> Seq(Message)]
    /\ busy \in BOOLEAN /\ error \in BOOLEAN
    /\ phase \in [Request -> Phases]
    /\ socket \in [Request -> {"none", "open", "closed"}]
    /\ target \in [Request -> Session \union {NoSession}]
    /\ closure \in [Request -> Seq(Message)]
    /\ posted \in [Request -> SUBSET Message]
    /\ sent \in [Request -> Seq(Frames)]
    /\ got \in [Request -> 0 .. MaxFrames + 1]
    /\ \A r \in Request : got[r] <= Len(sent[r]) /\ Len(sent[r]) <= MaxFrames + 1

\* The text t is that of the deltas among the first n frames of r's socket: all
\* of them, once each, in their order, and nothing else.
StreamedTo(r, frames, t, n) ==
    /\ \A j \in DOMAIN t : \E i \in 1 .. n : frames[i] = "delta" /\ t[j] = Delta(r, i)
    /\ \A i \in 1 .. n : frames[i] = "delta" => \E j \in DOMAIN t : t[j].at = i
    /\ \A j, k \in DOMAIN t : j < k => t[j].at < t[k].at

\* It is the text of every delta up to the first "done".
Streamed(r, frames, t) ==
    \E n \in DOMAIN frames : /\ frames[n] = "done"
                             /\ \A i \in 1 .. n - 1 : frames[i] # "done"
                             /\ StreamedTo(r, frames, t, n)

\* The state is well typed, and a finished answer comes whole from one
\* transport of its own request: every delta the server streamed before its
\* "done", in order, or the one REST answer, or the error text; deltas of a
\* socket that failed are never mixed into it, and none goes to the session
\* that happens to be shown (ChatLayout.tsx, onDelta to the end of send()).
AnswersWhole ==
    /\ TypeOK
    /\ \A s \in Session : \A m \in ToSet(messages[s]) :
           m.role = "assistant" /\ ~m.streaming =>
               /\ target[m.req] = s
               /\ \/ ~m.error /\ Streamed(m.req, sent[m.req], m.text)
                  \/ ~m.error /\ m.text = <<RestText(m.req)>>
                  \/ m.error /\ m.text = <<Generic(m.req)>>

\* What a REST request carries is the finished part of its own session: no
\* half-streamed answer, no failed one, nothing of another session, whatever
\* session is shown when the fallback begins (sendViaRest,
\* messagesToApiPayload).
HistoryFinished ==
    \A r \in Request : \A m \in posted[r] :
        /\ ~m.streaming /\ ~m.error
        /\ m.req = r => m.role = "user"
        /\ target[m.req] = target[r]

\* The conversation only grows: no step removes or reorders a message, and
\* once an answer is final no step changes it, late frames, retries and later
\* sends included.
FinalStays ==
    [][\A s \in Session : \A i \in DOMAIN messages[s] :
          /\ i \in DOMAIN messages'[s]
          /\ messages'[s][i].req = messages[s][i].req
          /\ ~messages[s][i].streaming => messages'[s][i] = messages[s][i]]_vars

\* Every send ends, and the input is enabled again, unless the socket was
\* closed before the answer was done; a send the close overtook is the only
\* one that leaves the page busy for good (ws-client.ts, the "close" listener).
EverySendEnds ==
    \A r \in Request : phase[r] = "socket" ~> \/ phase[r] = "over" /\ ~busy
                                              \/ phase[r] = "dropped"

\* The message that was typed is part of what the fallback posts
\* (tests/e2e/full-flow.spec.ts reads the last user message as the text sent).
FallbackCarriesText ==
    \A r \in Request : phase[r] = "rest" => Question(r) \in posted[r]
=============================================================================
