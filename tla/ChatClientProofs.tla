-------------------------- MODULE ChatClientProofs --------------------------
(***************************************************************************)
(* Proofs about the chat page, for any number of requests, sessions and    *)
(* frames: a finished answer is whole and stays as it is, and the fallback *)
(* carries only finished messages of its own session.  That every send     *)
(* ends is liveness and stays with TLC.                                    *)
(***************************************************************************)
EXTENDS ChatClient, SequenceTheorems, TLAPS

-----------------------------------------------------------------------------
(* The inductive invariant.                                                *)

\* A send that holds the input.
Active == {"socket", "dropped", "rest"}

\* The page is busy exactly while a send is under way, and at most one is.
BusyOK ==
    /\ busy <=> \E r \in Request : phase[r] \in Active
    /\ \A q, r \in Request : phase[q] \in Active /\ phase[r] \in Active => q = r

\* A socket that opened belongs to a send that waits on it; every other send
\* has closed its own, or has not begun.
SocketOK ==
    \A r \in Request :
        /\ socket[r] = "none" => sent[r] = <<>>
        /\ socket[r] = "open" => phase[r] = "socket"
        /\ phase[r] = "unsent" => socket[r] = "none" /\ closure[r] = <<>>
        /\ phase[r] \in {"dropped", "rest", "over"} => socket[r] = "closed"

\* The frames a send has handled while it waits on its socket end nothing, and
\* a socket at the bound has got its ending.
FramesOK ==
    \A r \in Request :
        /\ phase[r] = "socket" => \A i \in 1 .. got[r] : sent[r][i] \notin Endings
        /\ Len(sent[r]) > MaxFrames => sent[r][Len(sent[r])] \in Endings

\* What the text of a finished answer is, by the frames of its socket.
Whole(m, frames) == \/ ~m.error /\ Streamed(m.req, frames, m.text)
                    \/ ~m.error /\ m.text = <<RestText(m.req)>>
                    \/ m.error /\ m.text = <<Generic(m.req)>>

\* An answer is what the phase of its send says: it is streaming until the send
\* is over, holds the deltas among the first n frames while the send waits on
\* the socket, and is whole when the send is over.
AnswerOK(m, ph, frames, n) ==
    /\ m.streaming <=> ph # "over"
    /\ m.streaming => ~m.error
    /\ ph = "socket" => StreamedTo(m.req, frames, m.text, n)
    /\ ph = "over" => Whole(m, frames)

\* A message of session s belongs to a request that was sent in s.
MessageOK(s, m) ==
    /\ phase[m.req] # "unsent"
    /\ target[m.req] = s
    /\ m.role = "user" => ~m.streaming
    /\ m.role = "assistant" => AnswerOK(m, phase[m.req], sent[m.req], got[m.req])

MessagesOK == \A s \in Session : \A i \in DOMAIN messages[s] : MessageOK(s, messages[s][i])

\* What a click saw: finished messages of earlier requests of its session.
ClosureOK ==
    \A r \in Request : \A i \in DOMAIN closure[r] :
        /\ ~closure[r][i].streaming
        /\ closure[r][i].req # r
        /\ phase[closure[r][i].req] # "unsent"
        /\ target[closure[r][i].req] = target[r]

\* What the fallback carries is part of what the click saw.
PostedOK ==
    \A r \in Request : \A m \in posted[r] : ~m.error /\ m \in ToSet(closure[r])

PageInv == BusyOK /\ SocketOK /\ FramesOK
TextInv == MessagesOK /\ ClosureOK /\ PostedOK

IInv == TypeOK /\ PageInv /\ TextInv

-----------------------------------------------------------------------------
(* Sequences.                                                              *)

\* A function on 1 .. n is a sequence of its values.
LEMMA FunctionSeq ==
    ASSUME NEW S, NEW n \in Nat, NEW f \in [1 .. n -> S]
    PROVE  f \in Seq(S) /\ Len(f) = n /\ DOMAIN f = 1 .. n
OBVIOUS

\* What an element of a sequence is.
LEMMA ElementsTyped ==
    ASSUME NEW S, NEW q \in Seq(S), NEW i \in DOMAIN q
    PROVE  q[i] \in S
OBVIOUS

\* What ToSet collects.
LEMMA ToSetMember ==
    ASSUME NEW q, NEW m
    PROVE  m \in ToSet(q) <=> \E i \in DOMAIN q : q[i] = m
BY DEF ToSet

-----------------------------------------------------------------------------
(* The initial states.                                                     *)

\* Nothing has been sent.
LEMMA InitIInv == Init => IInv
<1>. SUFFICES ASSUME Init PROVE IInv
    OBVIOUS
<1>1. TypeOK
    <2>1. /\ sessions \subseteq Session
          /\ activeId \in sessions \union {NoSession}
          /\ busy \in BOOLEAN /\ error \in BOOLEAN
        BY DEF Init
    <2>2. /\ messages \in [Session -> Seq(Message)]
          /\ closure \in [Request -> Seq(Message)]
          /\ sent \in [Request -> Seq(Frames)]
        BY DEF Init
    <2>3. /\ phase \in [Request -> Phases]
          /\ socket \in [Request -> {"none", "open", "closed"}]
          /\ target \in [Request -> Session \union {NoSession}]
          /\ posted \in [Request -> SUBSET Message]
        BY DEF Init, Phases
    <2>4. /\ got \in [Request -> 0 .. MaxFrames + 1]
          /\ \A r \in Request : got[r] <= Len(sent[r]) /\ Len(sent[r]) <= MaxFrames + 1
        BY ChatAssumption DEF Init
    <2>. QED  BY <2>1, <2>2, <2>3, <2>4 DEF TypeOK
<1>2. PageInv
    BY ChatAssumption DEF Init, PageInv, BusyOK, SocketOK, FramesOK, Active
<1>3. TextInv
    BY DEF Init, TextInv, MessagesOK, ClosureOK, PostedOK
<1>. QED  BY <1>1, <1>2, <1>3 DEF IInv

-----------------------------------------------------------------------------
(* The assistant message of a request.                                     *)

\* The message that setMessages maps for r.
Mine(r, m) == m.req = r /\ m.role = "assistant"

\* OnDelta maps the assistant message of r and nothing else.
LEMMA OnDeltaMessages ==
    ASSUME IInv, NEW r \in Request, OnDelta(r)
    PROVE  /\ messages' \in [Session -> Seq(Message)]
           /\ \A s \in Session : DOMAIN messages'[s] = DOMAIN messages[s]
           /\ \A s \in Session : \A i \in DOMAIN messages[s] :
                 messages'[s][i] = IF Mine(r, messages[s][i])
                                     THEN [messages[s][i] EXCEPT !.text = Append(@, Delta(r, got[r] + 1))]
                                     ELSE messages[s][i]
<1>. DEFINE t == target[r]
            New(m) == [m EXCEPT !.text = Append(@, Delta(r, got[r] + 1))]
            Row == [i \in DOMAIN messages[t] |->
                       IF Mine(r, messages[t][i]) THEN New(messages[t][i])
                                                  ELSE messages[t][i]]
<1>1. messages \in [Session -> Seq(Message)]
    BY DEF IInv, TypeOK
<1>2. messages' = [messages EXCEPT ![t] = Row]
    BY DEF OnDelta, Answer, Mine
<1>3. \A m \in Message : New(m) \in Message
    <2>1. got[r] + 1 \in 0 .. MaxFrames + 1
        BY ChatAssumption DEF IInv, TypeOK, OnDelta, Receive
    <2>2. Delta(r, got[r] + 1) \in Pieces
        BY <2>1 DEF Delta, Pieces
    <2>. QED  BY <2>2 DEF Message
<1>4. ASSUME t \in Session PROVE Row \in Seq(Message) /\ DOMAIN Row = DOMAIN messages[t]
    <2>1. messages[t] \in Seq(Message)
        BY <1>1, <1>4
    <2>2. DOMAIN messages[t] = 1 .. Len(messages[t]) /\ Len(messages[t]) \in Nat
        BY <2>1
    <2>3. Row \in [1 .. Len(messages[t]) -> Message]
        BY <1>3, <2>1, <2>2, ElementsTyped
    <2>. HIDE DEF Row
    <2>. QED  BY <2>2, <2>3, FunctionSeq
<1>5. \A s \in Session : messages'[s] = IF s = t THEN Row ELSE messages[s]
    BY <1>1, <1>2
<1>6. messages' \in [Session -> Seq(Message)]
    BY <1>1, <1>2, <1>4
<1>7. \A s \in Session : DOMAIN messages'[s] = DOMAIN messages[s]
    BY <1>4, <1>5
<1>8. ASSUME NEW s \in Session, NEW i \in DOMAIN messages[s]
      PROVE  messages'[s][i] = IF Mine(r, messages[s][i]) THEN New(messages[s][i])
                                                         ELSE messages[s][i]
    <2>1. CASE s = t
        <3>1. messages'[s] = Row /\ i \in DOMAIN messages[t]
            BY <2>1, <1>5, <1>8
        <3>. HIDE DEF New
        <3>2. Row[i] = IF Mine(r, messages[t][i]) THEN New(messages[t][i]) ELSE messages[t][i]
            BY <3>1
        <3>. HIDE DEF Row
        <3>. QED  BY <2>1, <3>1, <3>2
    <2>2. CASE s # t
        <3>1. ~Mine(r, messages[s][i])
            BY <2>2, <1>8 DEF IInv, TextInv, MessagesOK, MessageOK, Mine
        <3>. QED  BY <2>2, <3>1, <1>5
    <2>. QED  BY <2>1, <2>2
<1>. QED  BY <1>6, <1>7, <1>8

\* OnDone maps the assistant message of r and nothing else.
LEMMA OnDoneMessages ==
    ASSUME IInv, NEW r \in Request, OnDone(r)
    PROVE  /\ messages' \in [Session -> Seq(Message)]
           /\ \A s \in Session : DOMAIN messages'[s] = DOMAIN messages[s]
           /\ \A s \in Session : \A i \in DOMAIN messages[s] :
                 messages'[s][i] = IF Mine(r, messages[s][i])
                                     THEN [messages[s][i] EXCEPT !.streaming = FALSE]
                                     ELSE messages[s][i]
<1>. DEFINE t == target[r]
            New(m) == [m EXCEPT !.streaming = FALSE]
            Row == [i \in DOMAIN messages[t] |->
                       IF Mine(r, messages[t][i]) THEN New(messages[t][i])
                                                  ELSE messages[t][i]]
<1>1. messages \in [Session -> Seq(Message)]
    BY DEF IInv, TypeOK
<1>2. messages' = [messages EXCEPT ![t] = Row]
    BY DEF OnDone, Answer, Mine
<1>3. \A m \in Message : New(m) \in Message
    BY DEF Message
<1>4. ASSUME t \in Session PROVE Row \in Seq(Message) /\ DOMAIN Row = DOMAIN messages[t]
    <2>1. messages[t] \in Seq(Message)
        BY <1>1, <1>4
    <2>2. DOMAIN messages[t] = 1 .. Len(messages[t]) /\ Len(messages[t]) \in Nat
        BY <2>1
    <2>3. Row \in [1 .. Len(messages[t]) -> Message]
        BY <1>3, <2>1, <2>2, ElementsTyped
    <2>. HIDE DEF Row
    <2>. QED  BY <2>2, <2>3, FunctionSeq
<1>5. \A s \in Session : messages'[s] = IF s = t THEN Row ELSE messages[s]
    BY <1>1, <1>2
<1>6. messages' \in [Session -> Seq(Message)]
    BY <1>1, <1>2, <1>4
<1>7. \A s \in Session : DOMAIN messages'[s] = DOMAIN messages[s]
    BY <1>4, <1>5
<1>8. ASSUME NEW s \in Session, NEW i \in DOMAIN messages[s]
      PROVE  messages'[s][i] = IF Mine(r, messages[s][i]) THEN New(messages[s][i])
                                                         ELSE messages[s][i]
    <2>1. CASE s = t
        <3>1. messages'[s] = Row /\ i \in DOMAIN messages[t]
            BY <2>1, <1>5, <1>8
        <3>. HIDE DEF New
        <3>2. Row[i] = IF Mine(r, messages[t][i]) THEN New(messages[t][i]) ELSE messages[t][i]
            BY <3>1
        <3>. HIDE DEF Row
        <3>. QED  BY <2>1, <3>1, <3>2
    <2>2. CASE s # t
        <3>1. ~Mine(r, messages[s][i])
            BY <2>2, <1>8 DEF IInv, TextInv, MessagesOK, MessageOK, Mine
        <3>. QED  BY <2>2, <3>1, <1>5
    <2>. QED  BY <2>1, <2>2
<1>. QED  BY <1>6, <1>7, <1>8

\* RestAnswers maps the assistant message of r and nothing else.
LEMMA RestAnswersMessages ==
    ASSUME IInv, NEW r \in Request, RestAnswers(r)
    PROVE  /\ messages' \in [Session -> Seq(Message)]
           /\ \A s \in Session : DOMAIN messages'[s] = DOMAIN messages[s]
           /\ \A s \in Session : \A i \in DOMAIN messages[s] :
                 messages'[s][i] = IF Mine(r, messages[s][i])
                                     THEN [messages[s][i] EXCEPT !.text = <<RestText(r)>>, !.streaming = FALSE]
                                     ELSE messages[s][i]
<1>. DEFINE t == target[r]
            New(m) == [m EXCEPT !.text = <<RestText(r)>>, !.streaming = FALSE]
            Row == [i \in DOMAIN messages[t] |->
                       IF Mine(r, messages[t][i]) THEN New(messages[t][i])
                                                  ELSE messages[t][i]]
<1>1. messages \in [Session -> Seq(Message)]
    BY DEF IInv, TypeOK
<1>2. messages' = [messages EXCEPT ![t] = Row]
    BY DEF RestAnswers, Answer, Mine
<1>3. \A m \in Message : New(m) \in Message
    <2>1. 0 \in 0 .. MaxFrames + 1
        BY ChatAssumption
    <2>2. RestText(r) \in Pieces
        BY <2>1 DEF RestText, Pieces
    <2>3. <<RestText(r)>> \in Seq(Pieces)
        BY <2>2
    <2>. QED  BY <2>3 DEF Message
<1>4. ASSUME t \in Session PROVE Row \in Seq(Message) /\ DOMAIN Row = DOMAIN messages[t]
    <2>1. messages[t] \in Seq(Message)
        BY <1>1, <1>4
    <2>2. DOMAIN messages[t] = 1 .. Len(messages[t]) /\ Len(messages[t]) \in Nat
        BY <2>1
    <2>3. Row \in [1 .. Len(messages[t]) -> Message]
        BY <1>3, <2>1, <2>2, ElementsTyped
    <2>. HIDE DEF Row
    <2>. QED  BY <2>2, <2>3, FunctionSeq
<1>5. \A s \in Session : messages'[s] = IF s = t THEN Row ELSE messages[s]
    BY <1>1, <1>2
<1>6. messages' \in [Session -> Seq(Message)]
    BY <1>1, <1>2, <1>4
<1>7. \A s \in Session : DOMAIN messages'[s] = DOMAIN messages[s]
    BY <1>4, <1>5
<1>8. ASSUME NEW s \in Session, NEW i \in DOMAIN messages[s]
      PROVE  messages'[s][i] = IF Mine(r, messages[s][i]) THEN New(messages[s][i])
                                                         ELSE messages[s][i]
    <2>1. CASE s = t
        <3>1. messages'[s] = Row /\ i \in DOMAIN messages[t]
            BY <2>1, <1>5, <1>8
        <3>. HIDE DEF New
        <3>2. Row[i] = IF Mine(r, messages[t][i]) THEN New(messages[t][i]) ELSE messages[t][i]
            BY <3>1
        <3>. HIDE DEF Row
        <3>. QED  BY <2>1, <3>1, <3>2
    <2>2. CASE s # t
        <3>1. ~Mine(r, messages[s][i])
            BY <2>2, <1>8 DEF IInv, TextInv, MessagesOK, MessageOK, Mine
        <3>. QED  BY <2>2, <3>1, <1>5
    <2>. QED  BY <2>1, <2>2
<1>. QED  BY <1>6, <1>7, <1>8

\* RestFails maps the assistant message of r and nothing else.
LEMMA RestFailsMessages ==
    ASSUME IInv, NEW r \in Request, RestFails(r)
    PROVE  /\ messages' \in [Session -> Seq(Message)]
           /\ \A s \in Session : DOMAIN messages'[s] = DOMAIN messages[s]
           /\ \A s \in Session : \A i \in DOMAIN messages[s] :
                 messages'[s][i] = IF Mine(r, messages[s][i])
                                     THEN [messages[s][i] EXCEPT !.text = <<Generic(r)>>, !.streaming = FALSE, !.error = TRUE]
                                     ELSE messages[s][i]
<1>. DEFINE t == target[r]
            New(m) == [m EXCEPT !.text = <<Generic(r)>>, !.streaming = FALSE, !.error = TRUE]
            Row == [i \in DOMAIN messages[t] |->
                       IF Mine(r, messages[t][i]) THEN New(messages[t][i])
                                                  ELSE messages[t][i]]
<1>1. messages \in [Session -> Seq(Message)]
    BY DEF IInv, TypeOK
<1>2. messages' = [messages EXCEPT ![t] = Row]
    BY DEF RestFails, Answer, Mine
<1>3. \A m \in Message : New(m) \in Message
    <2>1. 0 \in 0 .. MaxFrames + 1
        BY ChatAssumption
    <2>2. Generic(r) \in Pieces
        BY <2>1 DEF Generic, Pieces
    <2>3. <<Generic(r)>> \in Seq(Pieces)
        BY <2>2
    <2>. QED  BY <2>3 DEF Message
<1>4. ASSUME t \in Session PROVE Row \in Seq(Message) /\ DOMAIN Row = DOMAIN messages[t]
    <2>1. messages[t] \in Seq(Message)
        BY <1>1, <1>4
    <2>2. DOMAIN messages[t] = 1 .. Len(messages[t]) /\ Len(messages[t]) \in Nat
        BY <2>1
    <2>3. Row \in [1 .. Len(messages[t]) -> Message]
        BY <1>3, <2>1, <2>2, ElementsTyped
    <2>. HIDE DEF Row
    <2>. QED  BY <2>2, <2>3, FunctionSeq
<1>5. \A s \in Session : messages'[s] = IF s = t THEN Row ELSE messages[s]
    BY <1>1, <1>2
<1>6. messages' \in [Session -> Seq(Message)]
    BY <1>1, <1>2, <1>4
<1>7. \A s \in Session : DOMAIN messages'[s] = DOMAIN messages[s]
    BY <1>4, <1>5
<1>8. ASSUME NEW s \in Session, NEW i \in DOMAIN messages[s]
      PROVE  messages'[s][i] = IF Mine(r, messages[s][i]) THEN New(messages[s][i])
                                                         ELSE messages[s][i]
    <2>1. CASE s = t
        <3>1. messages'[s] = Row /\ i \in DOMAIN messages[t]
            BY <2>1, <1>5, <1>8
        <3>. HIDE DEF New
        <3>2. Row[i] = IF Mine(r, messages[t][i]) THEN New(messages[t][i]) ELSE messages[t][i]
            BY <3>1
        <3>. HIDE DEF Row
        <3>. QED  BY <2>1, <3>1, <3>2
    <2>2. CASE s # t
        <3>1. ~Mine(r, messages[s][i])
            BY <2>2, <1>8 DEF IInv, TextInv, MessagesOK, MessageOK, Mine
        <3>. QED  BY <2>2, <3>1, <1>5
    <2>. QED  BY <2>1, <2>2
<1>. QED  BY <1>6, <1>7, <1>8

-----------------------------------------------------------------------------
(* What happens to an answer.                                              *)

\* A delta is added: the text is that of one more frame.
LEMMA AnswerGrows ==
    ASSUME NEW m \in Message, NEW frames, NEW n \in Nat,
           AnswerOK(m, "socket", frames, n), frames[n + 1] = "delta"
    PROVE  AnswerOK([m EXCEPT !.text = Append(@, Delta(m.req, n + 1))], "socket", frames, n + 1)
<1>. DEFINE d == Delta(m.req, n + 1)
            t == m.text
            u == Append(t, d)
<1>1. t \in Seq(Pieces)
    BY DEF Message
<1>2. /\ Len(t) \in Nat /\ DOMAIN t = 1 .. Len(t)
      /\ DOMAIN u = 1 .. Len(t) + 1
      /\ \A j \in DOMAIN t : u[j] = t[j]
      /\ u[Len(t) + 1] = d
    BY <1>1
<1>3. StreamedTo(m.req, frames, t, n)
    BY DEF AnswerOK
<1>4. \A j \in DOMAIN t : t[j].at \in 1 .. n
    <2>1. \A i : Delta(m.req, i).at = i
        BY DEF Delta
    <2>. HIDE DEF t
    <2>2. \A j \in DOMAIN t : \E i \in 1 .. n : t[j] = Delta(m.req, i)
        BY <1>3 DEF StreamedTo
    <2>. QED  BY <2>1, <2>2
<1>5. d.at = n + 1
    BY DEF Delta
<1>. HIDE DEF d, t, u
<1>6. \A j \in DOMAIN u : \E i \in 1 .. n + 1 : frames[i] = "delta" /\ u[j] = Delta(m.req, i)
    <2>1. \A j \in DOMAIN t : \E i \in 1 .. n + 1 : frames[i] = "delta" /\ u[j] = Delta(m.req, i)
        BY <1>2, <1>3 DEF StreamedTo
    <2>2. frames[n + 1] = "delta" /\ u[Len(t) + 1] = Delta(m.req, n + 1)
        BY <1>2 DEF d
    <2>3. n + 1 \in 1 .. n + 1
        OBVIOUS
    <2>. QED  BY <2>1, <2>2, <2>3, <1>2
<1>7. \A i \in 1 .. n + 1 : frames[i] = "delta" => \E j \in DOMAIN u : u[j].at = i
    <2>1. \A i \in 1 .. n : frames[i] = "delta" => \E j \in DOMAIN u : u[j].at = i
        BY <1>2, <1>3 DEF StreamedTo
    <2>2. Len(t) + 1 \in DOMAIN u /\ u[Len(t) + 1].at = n + 1
        BY <1>2, <1>5
    <2>. QED  BY <2>1, <2>2
<1>8. \A j, k \in DOMAIN u : j < k => u[j].at < u[k].at
    <2>. SUFFICES ASSUME NEW j \in DOMAIN u, NEW k \in DOMAIN u, j < k
                  PROVE  u[j].at < u[k].at
        OBVIOUS
    <2>1. j \in DOMAIN t
        BY <1>2
    <2>2. CASE k \in DOMAIN t
        BY <1>2, <1>3, <2>1, <2>2 DEF StreamedTo
    <2>3. CASE k = Len(t) + 1
        <3>1. u[j].at \in 1 .. n /\ u[k].at = n + 1
            BY <1>2, <1>4, <1>5, <2>1, <2>3
        <3>. QED  BY <3>1
    <2>. QED  BY <1>2, <2>2, <2>3
<1>9. StreamedTo(m.req, frames, u, n + 1)
    BY <1>6, <1>7, <1>8 DEF StreamedTo
<1>10. [m EXCEPT !.text = u].text = u /\ [m EXCEPT !.text = u].req = m.req
       /\ [m EXCEPT !.text = u].streaming = m.streaming /\ [m EXCEPT !.text = u].error = m.error
    BY DEF Message
<1>11. [m EXCEPT !.text = Append(@, Delta(m.req, n + 1))] = [m EXCEPT !.text = u]
    BY DEF u, t, d
<1>. QED  BY <1>9, <1>10, <1>11 DEF AnswerOK

\* A frame of an unknown type adds nothing.
LEMMA AnswerSkips ==
    ASSUME NEW m \in Message, NEW frames, NEW n \in Nat,
           AnswerOK(m, "socket", frames, n), frames[n + 1] # "delta"
    PROVE  AnswerOK(m, "socket", frames, n + 1)
BY DEF AnswerOK, StreamedTo

\* A "done" after frames that ended nothing makes the answer whole.
LEMMA AnswerDone ==
    ASSUME NEW m \in Message, NEW frames \in Seq(Frames), NEW n \in Nat, n < Len(frames),
           AnswerOK(m, "socket", frames, n), frames[n + 1] = "done",
           \A i \in 1 .. n : frames[i] \notin Endings
    PROVE  AnswerOK([m EXCEPT !.streaming = FALSE], "over", frames, n + 1)
<1>1. StreamedTo(m.req, frames, m.text, n + 1)
    BY DEF AnswerOK, StreamedTo
<1>2. n + 1 \in DOMAIN frames /\ \A i \in 1 .. (n + 1) - 1 : frames[i] # "done"
    BY DEF Endings
<1>3. Streamed(m.req, frames, m.text)
    BY <1>1, <1>2 DEF Streamed
<1>4. ~m.error
    BY DEF AnswerOK
<1>. HIDE DEF Streamed
<1>. QED  BY <1>3, <1>4 DEF AnswerOK, Whole, Message

\* A send that leaves its socket leaves the answer streaming.
LEMMA AnswerLeft ==
    ASSUME NEW m, NEW frames, NEW n, NEW ph \in {"dropped", "rest"}, NEW k,
           AnswerOK(m, "socket", frames, n)
    PROVE  AnswerOK(m, ph, frames, k)
BY DEF AnswerOK

\* Frames the page has not handled do not matter.
LEMMA AnswerKept ==
    ASSUME NEW m, NEW frames, NEW others, NEW n \in Nat,
           AnswerOK(m, "socket", frames, n), \A i \in 1 .. n : others[i] = frames[i]
    PROVE  AnswerOK(m, "socket", others, n)
BY DEF AnswerOK, StreamedTo

\* The answer of the REST request, and the error text, are whole.
LEMMA AnswerByRest ==
    ASSUME NEW m \in Message, NEW frames, NEW n, AnswerOK(m, "rest", frames, n)
    PROVE  /\ AnswerOK([m EXCEPT !.text = <<RestText(m.req)>>, !.streaming = FALSE],
                       "over", frames, n)
           /\ AnswerOK([m EXCEPT !.text = <<Generic(m.req)>>, !.streaming = FALSE,
                                !.error = TRUE], "over", frames, n)
BY DEF AnswerOK, Whole, Message

\* A new answer is empty, as no frame has come.
LEMMA AnswerBegins ==
    ASSUME NEW r \in Request
    PROVE  AnswerOK(EmptyAnswer(r), "socket", <<>>, 0)
BY DEF AnswerOK, EmptyAnswer, StreamedTo
-----------------------------------------------------------------------------
(* Types are kept.                                                         *)

\* What the fallback carries comes from the closure and has no failed answer.
LEMMA CarriedFromClosure ==
    ASSUME TypeOK, NEW r \in Request
    PROVE  /\ Payload(Others(r, closure[r])) \subseteq Message
           /\ \A m \in Payload(Others(r, closure[r])) : ~m.error /\ m \in ToSet(closure[r])
<1>1. ToSet(closure[r]) \subseteq Message
    BY ElementsTyped DEF TypeOK, ToSet
<1>. QED  BY <1>1 DEF Payload, Others

\* A frame that is handled was on the socket.
LEMMA ReceiveType ==
    ASSUME TypeOK, NEW r \in Request, NEW kinds, Receive(r, kinds)
    PROVE  /\ got' \in [Request -> 0 .. MaxFrames + 1]
           /\ \A q \in Request : got'[q] <= Len(sent[q])
           /\ got[r] \in Nat /\ got'[r] = got[r] + 1 /\ got'[r] \in DOMAIN sent[r]
           /\ \A q \in Request : q # r => got'[q] = got[q]
<1>1. /\ got \in [Request -> 0 .. MaxFrames + 1] /\ MaxFrames \in Nat
      /\ sent[r] \in Seq(Frames) /\ Len(sent[r]) \in Nat
      /\ \A q \in Request : got[q] <= Len(sent[q]) /\ Len(sent[q]) <= MaxFrames + 1
    BY ChatAssumption DEF TypeOK
<1>2. got[r] < Len(sent[r]) /\ got' = [got EXCEPT ![r] = @ + 1]
    BY DEF Receive
<1>3. got[r] + 1 \in 0 .. MaxFrames + 1 /\ got[r] + 1 <= Len(sent[r])
    BY <1>1, <1>2
<1>. QED  BY <1>1, <1>2, <1>3

\* The clicks on a session.
LEMMA ClickType ==
    ASSUME IInv, NEW s \in Session, NewSession(s) \/ SelectSession(s)
    PROVE  TypeOK'
BY DEF IInv, TypeOK, NewSession, SelectSession

\* The handshake.
LEMMA OpenedType ==
    ASSUME IInv, NEW r \in Request, Opened(r)
    PROVE  TypeOK'
BY DEF IInv, TypeOK, Opened

\* A message that is sent has its type.
LEMMA SendType ==
    ASSUME IInv, NEW r \in Request, NEW s \in Session, Send(r, s)
    PROVE  TypeOK'
<1>1. Question(r) \in Message /\ EmptyAnswer(r) \in Message
    <2>1. 0 \in 0 .. MaxFrames + 1
        BY ChatAssumption
    <2>2. Said(r) \in Pieces
        BY <2>1 DEF Said, Pieces
    <2>3. <<Said(r)>> \in Seq(Pieces) /\ <<>> \in Seq(Pieces)
        BY <2>2
    <2>. QED  BY <2>3 DEF Question, EmptyAnswer, Message
<1>2. messages[s] \in Seq(Message) /\ messages[s] \o <<Question(r), EmptyAnswer(r)>> \in Seq(Message)
    BY <1>1 DEF IInv, TypeOK
<1>3. messages' \in [Session -> Seq(Message)] /\ closure' \in [Request -> Seq(Message)]
    BY <1>2 DEF IInv, TypeOK, Send
<1>4. /\ sessions' \subseteq Session
      /\ activeId' \in sessions' \union {NoSession}
      /\ busy' \in BOOLEAN /\ error' \in BOOLEAN
    BY DEF IInv, TypeOK, Send
<1>5. phase' \in [Request -> Phases] /\ target' \in [Request -> Session \union {NoSession}]
    BY DEF IInv, TypeOK, Send, Phases
<1>. QED  BY <1>3, <1>4, <1>5 DEF IInv, TypeOK, Send

\* The steps that end the wait on a socket without an answer.
LEMMA LeaveType ==
    ASSUME IInv, NEW r \in Request, ConnectFails(r) \/ OnError(r) \/ OnClose(r)
    PROVE  TypeOK'
<1>1. posted' \in [Request -> SUBSET Message]
    <2>1. \/ posted' = posted
          \/ posted' = [posted EXCEPT ![r] = Payload(Others(r, closure[r]))]
        BY DEF ConnectFails, OnError, OnClose, PostHistory
    <2>2. Payload(Others(r, closure[r])) \in SUBSET Message
        BY CarriedFromClosure DEF IInv
    <2>3. posted \in [Request -> SUBSET Message]
        BY DEF IInv, TypeOK
    <2>. QED  BY <2>1, <2>2, <2>3
<1>2. phase' \in [Request -> Phases] /\ socket' \in [Request -> {"none", "open", "closed"}]
    BY DEF IInv, TypeOK, ConnectFails, OnError, OnClose, PostHistory, Phases, Close
<1>3. UNCHANGED <<sessions, activeId, messages, busy, error, target, closure, sent>>
    BY DEF ConnectFails, OnError, OnClose
<1>4. /\ got' \in [Request -> 0 .. MaxFrames + 1]
      /\ \A q \in Request : got'[q] <= Len(sent[q])
    BY ReceiveType DEF IInv, TypeOK, ConnectFails, OnError, OnClose
<1>. QED  BY <1>1, <1>2, <1>3, <1>4 DEF IInv, TypeOK

\* A frame of an unknown type.
LEMMA OtherType ==
    ASSUME IInv, NEW r \in Request, OnOther(r)
    PROVE  TypeOK'
<1>1. /\ got' \in [Request -> 0 .. MaxFrames + 1]
      /\ \A q \in Request : got'[q] <= Len(sent[q])
    BY ReceiveType DEF IInv, OnOther
<1>. QED  BY <1>1 DEF IInv, TypeOK, OnOther

\* The steps that change an answer.
LEMMA AnswerType ==
    ASSUME IInv, NEW r \in Request,
           OnDelta(r) \/ OnDone(r) \/ RestAnswers(r) \/ RestFails(r)
    PROVE  TypeOK'
<1>1. messages' \in [Session -> Seq(Message)]
    BY OnDeltaMessages, OnDoneMessages, RestAnswersMessages, RestFailsMessages
<1>2. phase' \in [Request -> Phases] /\ socket' \in [Request -> {"none", "open", "closed"}]
    BY DEF IInv, TypeOK, OnDelta, OnDone, RestAnswers, RestFails, Phases, Close
<1>3. /\ got' \in [Request -> 0 .. MaxFrames + 1]
      /\ \A q \in Request : got'[q] <= Len(sent[q])
    BY ReceiveType DEF IInv, TypeOK, OnDelta, OnDone, RestAnswers, RestFails
<1>4. /\ UNCHANGED <<sessions, activeId, target, closure, posted, sent>>
      /\ busy' \in BOOLEAN /\ error' \in BOOLEAN
    BY DEF IInv, TypeOK, OnDelta, OnDone, RestAnswers, RestFails
<1>. QED  BY <1>1, <1>2, <1>3, <1>4 DEF IInv, TypeOK

-----------------------------------------------------------------------------
(* The server.                                                             *)

ServerStep(r) == ServerSends(r) \/ ServerEnds(r) \/ ConnectionLost(r)

\* A server step keeps the frames the page has handled, exceeds the bound by an
\* ending at most, and changes nothing but the frames of its own open socket.
LEMMA ServerFrames ==
    ASSUME IInv, NEW r \in Request, ServerStep(r)
    PROVE  /\ socket[r] = "open" /\ phase[r] = "socket"
           /\ sent' \in [Request -> Seq(Frames)]
           /\ \A q \in Request : q # r => sent'[q] = sent[q]
           /\ got[r] <= Len(sent'[r]) /\ Len(sent'[r]) <= MaxFrames + 1
           /\ \A i \in 1 .. got[r] : sent'[r][i] = sent[r][i]
           /\ Len(sent'[r]) > MaxFrames => sent'[r][Len(sent'[r])] \in Endings
           /\ UNCHANGED <<sessions, activeId, messages, busy, error, phase, socket,
                          target, closure, posted, got>>
<1>. DEFINE q == sent[r]
<1>1. /\ q \in Seq(Frames) /\ Len(q) \in Nat
      /\ got[r] \in 0 .. Len(q) /\ Len(q) <= MaxFrames + 1 /\ MaxFrames \in Nat
    BY ChatAssumption DEF IInv, TypeOK
<1>2. PICK frames : Emit(r, frames)
    BY DEF ServerStep, ServerSends, ServerEnds, ConnectionLost
<1>3. socket[r] = "open" /\ phase[r] = "socket"
    BY <1>2 DEF Emit, IInv, PageInv, SocketOK
<1>4. UNCHANGED <<sessions, activeId, messages, busy, error, phase, socket,
                  target, closure, posted, got>>
    BY <1>2 DEF Emit
<1>5. sent' = [sent EXCEPT ![r] = sent'[r]]
    BY <1>2 DEF Emit, IInv, TypeOK
<1>6. /\ \A i \in 1 .. got[r] : q[i] \notin Endings
      /\ Len(q) > MaxFrames => q[Len(q)] \in Endings
    BY <1>3 DEF IInv, PageInv, FramesOK
<1>7. got[r] <= MaxFrames
    BY <1>1, <1>6
<1>8. /\ sent'[r] \in Seq(Frames)
      /\ got[r] <= Len(sent'[r]) /\ Len(sent'[r]) <= MaxFrames + 1
      /\ \A i \in 1 .. got[r] : sent'[r][i] = q[i]
      /\ Len(sent'[r]) > MaxFrames => sent'[r][Len(sent'[r])] \in Endings
    <2>1. CASE ServerSends(r)
        <3>1. PICK f \in Frames : sent'[r] = Append(q, f)
            BY <2>1 DEF ServerSends, Emit, IInv, TypeOK
        <3>2. Len(q) < MaxFrames
            BY <2>1 DEF ServerSends
        <3>. HIDE DEF q
        <3>. QED  BY <1>1, <3>1, <3>2
    <2>2. CASE ServerEnds(r)
        <3>1. PICK f \in Endings : sent'[r] = Append(q, f)
            BY <2>2 DEF ServerEnds, Emit, IInv, TypeOK
        <3>2. \A i \in DOMAIN q : q[i] \notin Endings
            BY <2>2 DEF ServerEnds, ToSet
        <3>. HIDE DEF q
        <3>3. Len(q) <= MaxFrames
            BY <1>1, <1>6, <3>2
        <3>4. f \in Frames
            BY DEF Endings, Frames
        <3>. QED  BY <1>1, <3>1, <3>3, <3>4
    <2>3. CASE ConnectionLost(r)
        <3>1. sent'[r] = Append(SubSeq(q, 1, got[r]), "close")
            BY <2>3 DEF ConnectionLost, Emit, IInv, TypeOK
        <3>2. "close" \in Frames /\ "close" \in Endings
            BY DEF Frames, Endings
        <3>. DEFINE p == SubSeq(q, 1, got[r])
        <3>. HIDE DEF q
        <3>3. p \in Seq(Frames) /\ Len(p) = got[r] /\ \A i \in 1 .. got[r] : p[i] = q[i]
            BY <1>1
        <3>4. sent'[r] = Append(p, "close")
            BY <3>1
        <3>. HIDE DEF p
        <3>. QED  BY <1>1, <1>7, <3>2, <3>3, <3>4
    <2>. QED  BY <2>1, <2>2, <2>3 DEF ServerStep
<1>9. sent' \in [Request -> Seq(Frames)] /\ \A p \in Request : p # r => sent'[p] = sent[p]
    BY <1>5, <1>8 DEF IInv, TypeOK
<1>. QED  BY <1>3, <1>4, <1>8, <1>9

\* Its frames have their type.
LEMMA ServerType ==
    ASSUME IInv, NEW r \in Request, ServerStep(r)
    PROVE  TypeOK'
<1>1. \A q \in Request : got[q] <= Len(sent'[q]) /\ Len(sent'[q]) <= MaxFrames + 1
    <2>. TAKE q \in Request
    <2>1. CASE q = r
        BY <2>1, ServerFrames
    <2>2. CASE q # r
        BY <2>2, ServerFrames DEF IInv, TypeOK
    <2>. QED  BY <2>1, <2>2
<1>. QED  BY <1>1, ServerFrames DEF IInv, TypeOK
-----------------------------------------------------------------------------
(* The page: one send at a time, and no open socket behind it.             *)

\* The clicks on a session touch no send.
LEMMA ClickPage ==
    ASSUME IInv, NEW s \in Session, NewSession(s) \/ SelectSession(s)
    PROVE  PageInv'
BY DEF IInv, PageInv, BusyOK, SocketOK, FramesOK, NewSession, SelectSession

\* A send begins only when no other is under way.
LEMMA SendPage ==
    ASSUME IInv, NEW r \in Request, NEW s \in Session, Send(r, s)
    PROVE  PageInv'
<1>1. /\ phase' = [phase EXCEPT ![r] = "socket"] /\ phase \in [Request -> Phases]
      /\ phase[r] = "unsent" /\ ~busy /\ busy' = TRUE
      /\ UNCHANGED <<socket, sent, got>>
      /\ closure' = [closure EXCEPT ![r] = messages[s]]
      /\ closure \in [Request -> Seq(Message)]
    BY DEF IInv, TypeOK, Send
<1>2. BusyOK'
    BY <1>1 DEF IInv, PageInv, BusyOK, Active
<1>3. SocketOK'
    BY <1>1 DEF IInv, PageInv, SocketOK
<1>4. sent[r] = <<>> /\ got[r] = 0
    BY <1>1 DEF IInv, PageInv, SocketOK, TypeOK
<1>5. FramesOK'
    BY <1>1, <1>4 DEF IInv, PageInv, FramesOK
<1>. QED  BY <1>2, <1>3, <1>5 DEF PageInv

\* The handshake succeeds.
LEMMA OpenedPage ==
    ASSUME IInv, NEW r \in Request, Opened(r)
    PROVE  PageInv'
<1>1. BusyOK' /\ FramesOK'
    BY DEF IInv, PageInv, BusyOK, FramesOK, Opened
<1>2. SocketOK'
    BY DEF IInv, TypeOK, PageInv, SocketOK, Opened
<1>. QED  BY <1>1, <1>2 DEF PageInv

\* The wait on the socket ends, with an answer or without: the socket is closed.
LEMMA LeavePage ==
    ASSUME IInv, NEW r \in Request,
           ConnectFails(r) \/ OnError(r) \/ OnClose(r) \/ OnDone(r)
    PROVE  PageInv'
<1>1. phase[r] = "socket"
    BY DEF IInv, PageInv, SocketOK, ConnectFails, OnError, OnClose, OnDone, Receive
<1>2. PICK ph \in {"dropped", "rest", "over"} : phase' = [phase EXCEPT ![r] = ph]
    BY DEF ConnectFails, OnError, OnClose, OnDone, PostHistory
<1>3. socket' = [socket EXCEPT ![r] = "closed"]
    BY DEF ConnectFails, OnError, OnClose, OnDone, Close
<1>4. busy' = IF phase'[r] = "over" THEN FALSE ELSE busy
    BY DEF ConnectFails, OnError, OnClose, OnDone, PostHistory, IInv, TypeOK
<1>5. /\ UNCHANGED <<sent, closure>>
      /\ \A q \in Request : q # r => got'[q] = got[q]
    BY ReceiveType DEF IInv, ConnectFails, OnError, OnClose, OnDone
<1>6. phase \in [Request -> Phases] /\ socket \in [Request -> {"none", "open", "closed"}]
    BY DEF IInv, TypeOK
<1>7. /\ phase'[r] = ph /\ socket'[r] = "closed"
      /\ \A q \in Request : q # r => phase'[q] = phase[q] /\ socket'[q] = socket[q]
    BY <1>2, <1>3, <1>6
<1>8. \A q \in Request : q # r => phase[q] \notin Active
    BY <1>1 DEF IInv, PageInv, BusyOK, Active
<1>9. busy
    BY <1>1 DEF IInv, PageInv, BusyOK, Active
<1>10. BusyOK'
    BY <1>4, <1>7, <1>8, <1>9 DEF BusyOK, Active
<1>11. SocketOK'
    BY <1>5, <1>7, <1>3, <1>6 DEF IInv, PageInv, SocketOK
<1>12. FramesOK'
    BY <1>5, <1>7 DEF IInv, PageInv, FramesOK
<1>. QED  BY <1>10, <1>11, <1>12 DEF PageInv

\* A frame that ends nothing.
LEMMA FramePage ==
    ASSUME IInv, NEW r \in Request, OnDelta(r) \/ OnOther(r)
    PROVE  PageInv'
<1>1. BusyOK' /\ SocketOK'
    BY DEF IInv, PageInv, BusyOK, SocketOK, OnDelta, OnOther
<1>2. /\ got[r] \in Nat /\ got'[r] = got[r] + 1
      /\ \A q \in Request : q # r => got'[q] = got[q]
    BY ReceiveType DEF IInv, OnDelta, OnOther
<1>3. sent[r][got[r] + 1] \notin Endings
    BY DEF OnDelta, OnOther, Receive, Endings
<1>4. UNCHANGED <<phase, sent>>
    BY DEF OnDelta, OnOther
<1>5. FramesOK'
    BY <1>2, <1>3, <1>4 DEF IInv, PageInv, FramesOK
<1>. QED  BY <1>1, <1>5 DEF PageInv

\* The REST request is settled, and the send with it.
LEMMA RestPage ==
    ASSUME IInv, NEW r \in Request, RestAnswers(r) \/ RestFails(r)
    PROVE  PageInv'
<1>1. /\ phase[r] = "rest" /\ phase' = [phase EXCEPT ![r] = "over"]
      /\ phase \in [Request -> Phases]
      /\ busy' = FALSE /\ UNCHANGED <<socket, closure, sent, got>>
    BY DEF IInv, TypeOK, RestAnswers, RestFails
<1>2. \A q \in Request : phase'[q] \notin Active
    BY <1>1 DEF IInv, PageInv, BusyOK, Active
<1>3. BusyOK'
    BY <1>1, <1>2 DEF BusyOK
<1>4. SocketOK'
    BY <1>1 DEF IInv, PageInv, SocketOK
<1>5. FramesOK'
    BY <1>1 DEF IInv, PageInv, FramesOK
<1>. QED  BY <1>3, <1>4, <1>5 DEF PageInv

\* The server touches only the frames of an open socket.
LEMMA ServerPage ==
    ASSUME IInv, NEW r \in Request, ServerStep(r)
    PROVE  PageInv'
<1>1. BusyOK'
    BY ServerFrames DEF IInv, PageInv, BusyOK
<1>2. SocketOK'
    BY ServerFrames DEF IInv, PageInv, SocketOK
<1>3. FramesOK'
    BY ServerFrames DEF IInv, PageInv, FramesOK
<1>. QED  BY <1>1, <1>2, <1>3 DEF PageInv
-----------------------------------------------------------------------------
(* The conversation.                                                       *)

\* A message of the conversation, its type, and that it is as it should be.
LEMMA MessageTyped ==
    ASSUME IInv, NEW s \in Session, NEW i \in DOMAIN messages[s]
    PROVE  /\ messages[s][i] \in Message
           /\ messages[s][i].req \in Request
           /\ MessageOK(s, messages[s][i])
<1>1. messages[s] \in Seq(Message)
    BY DEF IInv, TypeOK
<1>2. messages[s][i] \in Message
    BY <1>1, ElementsTyped
<1>. QED  BY <1>2 DEF Message, IInv, TextInv, MessagesOK

\* The same for a message of a closure.
LEMMA ClosureTyped ==
    ASSUME TypeOK, NEW r \in Request, NEW i \in DOMAIN closure[r]
    PROVE  closure[r][i] \in Message /\ closure[r][i].req \in Request
<1>1. closure[r] \in Seq(Message)
    BY DEF TypeOK
<1>2. closure[r][i] \in Message
    BY <1>1, ElementsTyped
<1>. QED  BY <1>2 DEF Message

\* What the clicks saw stays finished, whatever a send under way does.
LEMMA HistoryKept ==
    ASSUME IInv, UNCHANGED <<target, closure>>,
           \A q \in Request : phase[q] # "unsent" => phase'[q] # "unsent",
           \A q \in Request : \/ posted'[q] = posted[q]
                              \/ posted'[q] = Payload(Others(q, closure[q]))
    PROVE  ClosureOK' /\ PostedOK'
<1>1. ClosureOK'
    <2>. SUFFICES ASSUME NEW q \in Request, NEW i \in DOMAIN closure[q]
                  PROVE  /\ ~closure[q][i].streaming
                         /\ closure[q][i].req # q
                         /\ phase'[closure[q][i].req] # "unsent"
                         /\ target[closure[q][i].req] = target[q]
        BY DEF ClosureOK
    <2>1. closure[q][i].req \in Request
        BY ClosureTyped DEF IInv
    <2>. QED  BY <2>1 DEF IInv, TextInv, ClosureOK
<1>2. PostedOK'
    BY CarriedFromClosure DEF IInv, TextInv, PostedOK
<1>. QED  BY <1>1, <1>2

\* The user's clicks and the handshake leave the conversation alone.
LEMMA QuietText ==
    ASSUME IInv, UNCHANGED <<messages, phase, target, closure, posted, sent, got>>
    PROVE  TextInv'
BY DEF IInv, TextInv, MessagesOK, MessageOK, ClosureOK, PostedOK

\* The frames, and a send that leaves its socket, do not touch the messages.
LEMMA UntouchedText ==
    ASSUME IInv, NEW r \in Request,
           OnOther(r) \/ ConnectFails(r) \/ OnError(r) \/ OnClose(r) \/ ServerStep(r)
    PROVE  TextInv'
<1>1. UNCHANGED <<messages, target, closure>> /\ phase[r] = "socket"
    BY ServerFrames DEF IInv, PageInv, SocketOK, OnOther, ConnectFails, OnError, OnClose,
                        Receive
<1>2. /\ \A q \in Request : q # r => /\ phase'[q] = phase[q]
                                     /\ sent'[q] = sent[q] /\ got'[q] = got[q]
      /\ phase'[r] \in {"socket", "dropped", "rest"}
    <2>1. CASE ServerStep(r)
        BY <2>1, <1>1, ServerFrames
    <2>2. CASE OnOther(r)
        BY <2>2, <1>1, ReceiveType DEF IInv, OnOther
    <2>3. CASE ConnectFails(r)
        BY <2>3 DEF IInv, TypeOK, ConnectFails, PostHistory
    <2>4. CASE OnError(r) \/ OnClose(r)
        <3>1. UNCHANGED sent /\ \A q \in Request : q # r => got'[q] = got[q]
            BY <2>4, ReceiveType DEF IInv, OnError, OnClose
        <3>2. \E ph \in {"dropped", "rest"} : phase' = [phase EXCEPT ![r] = ph]
            BY <2>4 DEF OnError, OnClose, PostHistory
        <3>. QED  BY <3>1, <3>2 DEF IInv, TypeOK
    <2>. QED  BY <2>1, <2>2, <2>3, <2>4
<1>3. \A q \in Request : \/ posted'[q] = posted[q]
                         \/ posted'[q] = Payload(Others(q, closure[q]))
    BY ServerFrames DEF IInv, TypeOK, OnOther, ConnectFails, OnError, OnClose, PostHistory
<1>4. ClosureOK' /\ PostedOK'
    <2>1. \A q \in Request : phase[q] # "unsent" => phase'[q] # "unsent"
        BY <1>1, <1>2
    <2>. QED  BY <2>1, <1>1, <1>3, HistoryKept
<1>5. ASSUME NEW m \in Message, m.req = r, AnswerOK(m, phase[r], sent[r], got[r])
      PROVE  AnswerOK(m, phase'[r], sent'[r], got'[r])
    <2>1. CASE ServerStep(r)
        <3>1. /\ got[r] \in Nat /\ phase'[r] = "socket" /\ got'[r] = got[r]
              /\ \A i \in 1 .. got[r] : sent'[r][i] = sent[r][i]
            BY <2>1, <1>1, ServerFrames DEF IInv, TypeOK
        <3>. QED  BY <3>1, <1>1, <1>5, AnswerKept
    <2>2. CASE OnOther(r)
        <3>1. /\ got[r] \in Nat /\ got'[r] = got[r] + 1 /\ UNCHANGED <<phase, sent>>
              /\ sent[r][got[r] + 1] # "delta"
            BY <2>2, ReceiveType DEF IInv, OnOther, Receive
        <3>. QED  BY <3>1, <1>1, <1>5, AnswerSkips
    <2>3. CASE ConnectFails(r) \/ OnError(r) \/ OnClose(r)
        <3>1. phase'[r] \in {"dropped", "rest"} /\ UNCHANGED sent
            BY <2>3 DEF IInv, TypeOK, ConnectFails, OnError, OnClose, PostHistory
        <3>. QED  BY <3>1, <1>1, <1>5, AnswerLeft
    <2>. QED  BY <2>1, <2>2, <2>3
<1>6. MessagesOK'
    <2>. SUFFICES ASSUME NEW s \in Session, NEW i \in DOMAIN messages[s]
                  PROVE  MessageOK(s, messages[s][i])'
        BY <1>1 DEF MessagesOK
    <2>1. PICK m \in Message : m = messages[s][i]
        BY MessageTyped
    <2>2. m.req \in Request /\ MessageOK(s, m) /\ messages'[s][i] = m
        BY <2>1, <1>1, MessageTyped
    <2>3. ASSUME m.req # r PROVE MessageOK(s, m)'
        BY <2>2, <2>3, <1>1, <1>2 DEF MessageOK
    <2>4. ASSUME m.req = r PROVE MessageOK(s, m)'
        BY <2>2, <2>4, <1>1, <1>2, <1>5 DEF MessageOK
    <2>. QED  BY <2>2, <2>3, <2>4 DEF MessageOK
<1>. QED  BY <1>4, <1>6 DEF TextInv
\* A step that maps the answer of r: what it makes of the answer, given what it
\* makes of the phase and of the frames.
LEMMA AnsweredText ==
    ASSUME IInv, NEW r \in Request, UNCHANGED <<target, closure, posted>>,
           phase'[r] \in {"socket", "over"},
           \A q \in Request : q # r => /\ phase'[q] = phase[q]
                                       /\ sent'[q] = sent[q] /\ got'[q] = got[q],
           \A s \in Session : DOMAIN messages'[s] = DOMAIN messages[s],
           \A s \in Session : \A i \in DOMAIN messages[s] :
               /\ ~Mine(r, messages[s][i]) => messages'[s][i] = messages[s][i]
               /\ Mine(r, messages[s][i]) =>
                     /\ Mine(r, messages'[s][i])
                     /\ AnswerOK(messages'[s][i], phase'[r], sent'[r], got'[r])
    PROVE  TextInv'
<1>1. ClosureOK' /\ PostedOK'
    BY HistoryKept
<1>2. ASSUME NEW s \in Session, NEW i \in DOMAIN messages[s]
      PROVE  MessageOK(s, messages[s][i])'
    <2>1. PICK m \in Message : m = messages[s][i]
        BY MessageTyped
    <2>2. m.req \in Request /\ MessageOK(s, m)
        BY <2>1, MessageTyped
    <2>3. CASE Mine(r, m)
        <3>1. PICK n : n = messages'[s][i]
            OBVIOUS
        <3>2. n.req = r /\ n.role = "assistant" /\ AnswerOK(n, phase'[r], sent'[r], got'[r])
            BY <2>1, <2>3, <3>1 DEF Mine
        <3>3. target'[r] = s
            BY <2>2, <2>3 DEF MessageOK, Mine
        <3>4. phase'[r] # "unsent"
            OBVIOUS
        <3>. HIDE DEF AnswerOK
        <3>. QED  BY <3>1, <3>2, <3>3, <3>4 DEF MessageOK
    <2>4. CASE ~Mine(r, m)
        <3>1. messages'[s][i] = m
            BY <2>1, <2>4
        <3>2. CASE m.req = r
            BY <3>1, <3>2, <2>1, <2>2, <2>4 DEF MessageOK, Mine
        <3>3. CASE m.req # r
            BY <3>1, <3>3, <2>1, <2>2 DEF MessageOK
        <3>. QED  BY <3>2, <3>3
    <2>. QED  BY <2>1, <2>3, <2>4
<1>3. MessagesOK'
    BY <1>2 DEF MessagesOK
<1>. QED  BY <1>1, <1>3 DEF TextInv

\* The text grows by the delta that was handled.
LEMMA OnDeltaText ==
    ASSUME IInv, NEW r \in Request, OnDelta(r)
    PROVE  TextInv'
<1>1. /\ got[r] \in Nat /\ got'[r] = got[r] + 1
      /\ \A q \in Request : q # r => got'[q] = got[q]
    BY ReceiveType DEF IInv, OnDelta
<1>2. UNCHANGED <<phase, sent, target, closure, posted>> /\ phase[r] = "socket"
      /\ sent[r][got[r] + 1] = "delta"
    BY DEF IInv, PageInv, SocketOK, OnDelta, Receive
<1>3. ASSUME NEW s \in Session, NEW i \in DOMAIN messages[s], Mine(r, messages[s][i])
      PROVE  /\ Mine(r, messages'[s][i])
             /\ AnswerOK(messages'[s][i], phase'[r], sent'[r], got'[r])
    <2>1. PICK m \in Message : m = messages[s][i]
        BY MessageTyped
    <2>2. m.req = r /\ m.role = "assistant" /\ AnswerOK(m, "socket", sent[r], got[r])
        BY <1>2, <1>3, <2>1, MessageTyped DEF Mine, MessageOK
    <2>3. messages'[s][i] = [m EXCEPT !.text = Append(@, Delta(m.req, got[r] + 1))]
        BY <1>3, <2>1, <2>2, OnDeltaMessages
    <2>4. AnswerOK(messages'[s][i], "socket", sent[r], got[r] + 1)
        BY <1>1, <1>2, <2>2, <2>3, AnswerGrows
    <2>5. Mine(r, messages'[s][i])
        BY <2>2, <2>3 DEF Mine, Message
    <2>. QED  BY <1>1, <1>2, <2>4, <2>5
<1>. HIDE DEF Mine, AnswerOK
<1>4. \A s \in Session : \A i \in DOMAIN messages[s] :
          ~Mine(r, messages[s][i]) => messages'[s][i] = messages[s][i]
    BY OnDeltaMessages
<1>5. \A s \in Session : DOMAIN messages'[s] = DOMAIN messages[s]
    BY OnDeltaMessages
<1>. QED  BY <1>1, <1>2, <1>3, <1>4, <1>5, AnsweredText

\* The answer is whole when "done" is the first ending that was handled.
LEMMA OnDoneText ==
    ASSUME IInv, NEW r \in Request, OnDone(r)
    PROVE  TextInv'
<1>1. /\ got[r] \in Nat /\ got'[r] = got[r] + 1
      /\ \A q \in Request : q # r => got'[q] = got[q]
    BY ReceiveType DEF IInv, OnDone
<1>2. /\ UNCHANGED <<sent, target, closure, posted>> /\ phase[r] = "socket"
      /\ sent[r][got[r] + 1] = "done" /\ got[r] < Len(sent[r]) /\ sent[r] \in Seq(Frames)
    BY DEF IInv, TypeOK, PageInv, SocketOK, OnDone, Receive
<1>3. phase'[r] = "over" /\ \A q \in Request : q # r => phase'[q] = phase[q]
    BY DEF IInv, TypeOK, OnDone
<1>4. \A i \in 1 .. got[r] : sent[r][i] \notin Endings
    BY <1>2 DEF IInv, PageInv, FramesOK
<1>5. ASSUME NEW s \in Session, NEW i \in DOMAIN messages[s], Mine(r, messages[s][i])
      PROVE  /\ Mine(r, messages'[s][i])
             /\ AnswerOK(messages'[s][i], phase'[r], sent'[r], got'[r])
    <2>1. PICK m \in Message : m = messages[s][i]
        BY MessageTyped
    <2>2. m.req = r /\ m.role = "assistant" /\ AnswerOK(m, "socket", sent[r], got[r])
        BY <1>2, <1>5, <2>1, MessageTyped DEF Mine, MessageOK
    <2>3. messages'[s][i] = [m EXCEPT !.streaming = FALSE]
        BY <1>5, <2>1, OnDoneMessages
    <2>4. AnswerOK(messages'[s][i], "over", sent[r], got[r] + 1)
        BY <1>1, <1>2, <1>4, <2>2, <2>3, AnswerDone
    <2>5. Mine(r, messages'[s][i])
        BY <2>2, <2>3 DEF Mine, Message
    <2>. QED  BY <1>1, <1>2, <1>3, <2>4, <2>5
<1>. HIDE DEF Mine, AnswerOK
<1>6. \A s \in Session : \A i \in DOMAIN messages[s] :
          ~Mine(r, messages[s][i]) => messages'[s][i] = messages[s][i]
    BY OnDoneMessages
<1>7. \A s \in Session : DOMAIN messages'[s] = DOMAIN messages[s]
    BY OnDoneMessages
<1>. QED  BY <1>1, <1>2, <1>3, <1>5, <1>6, <1>7, AnsweredText

\* The REST answer, or the error text, takes the place of what was streamed.
LEMMA SettledText ==
    ASSUME IInv, NEW r \in Request, RestAnswers(r) \/ RestFails(r)
    PROVE  TextInv'
<1>1. UNCHANGED <<sent, target, closure, posted, got>> /\ phase[r] = "rest"
    BY DEF RestAnswers, RestFails
<1>2. phase'[r] = "over" /\ \A q \in Request : q # r => phase'[q] = phase[q]
    BY DEF IInv, TypeOK, RestAnswers, RestFails
<1>3. ASSUME NEW s \in Session, NEW i \in DOMAIN messages[s], Mine(r, messages[s][i])
      PROVE  /\ Mine(r, messages'[s][i])
             /\ AnswerOK(messages'[s][i], phase'[r], sent'[r], got'[r])
    <2>1. PICK m \in Message : m = messages[s][i]
        BY MessageTyped
    <2>2. m.req = r /\ m.role = "assistant" /\ AnswerOK(m, "rest", sent[r], got[r])
        BY <1>1, <1>3, <2>1, MessageTyped DEF Mine, MessageOK
    <2>3. \/ messages'[s][i] = [m EXCEPT !.text = <<RestText(m.req)>>, !.streaming = FALSE]
          \/ messages'[s][i] = [m EXCEPT !.text = <<Generic(m.req)>>, !.streaming = FALSE,
                                        !.error = TRUE]
        BY <1>3, <2>1, <2>2, RestAnswersMessages, RestFailsMessages
    <2>4. AnswerOK(messages'[s][i], "over", sent[r], got[r])
        <3>1. /\ AnswerOK([m EXCEPT !.text = <<RestText(m.req)>>, !.streaming = FALSE],
                          "over", sent[r], got[r])
              /\ AnswerOK([m EXCEPT !.text = <<Generic(m.req)>>, !.streaming = FALSE,
                                   !.error = TRUE], "over", sent[r], got[r])
            BY <2>2, AnswerByRest
        <3>. HIDE DEF AnswerOK
        <3>. QED  BY <2>3, <3>1, Zenon
    <2>5. Mine(r, messages'[s][i])
        BY <2>2, <2>3 DEF Mine, Message
    <2>. QED  BY <1>1, <1>2, <2>4, <2>5
<1>. HIDE DEF Mine, AnswerOK
<1>4. \A s \in Session : \A i \in DOMAIN messages[s] :
          ~Mine(r, messages[s][i]) => messages'[s][i] = messages[s][i]
    BY RestAnswersMessages, RestFailsMessages
<1>5. \A s \in Session : DOMAIN messages'[s] = DOMAIN messages[s]
    BY RestAnswersMessages, RestFailsMessages
<1>. QED  BY <1>1, <1>2, <1>3, <1>4, <1>5, AnsweredText
\* A new message goes to the end of its session; the click saw only finished
\* messages of it, as the page was not busy.
LEMMA SendText ==
    ASSUME IInv, NEW r \in Request, NEW s \in Session, Send(r, s)
    PROVE  TextInv'
<1>. DEFINE q == messages[s]
            w == q \o <<Question(r), EmptyAnswer(r)>>
<1>1. /\ phase[r] = "unsent" /\ ~busy
      /\ phase \in [Request -> Phases] /\ phase' = [phase EXCEPT ![r] = "socket"]
      /\ target \in [Request -> Session \union {NoSession}]
      /\ target' = [target EXCEPT ![r] = s]
      /\ closure \in [Request -> Seq(Message)] /\ closure' = [closure EXCEPT ![r] = q]
      /\ messages \in [Session -> Seq(Message)] /\ messages' = [messages EXCEPT ![s] = w]
      /\ UNCHANGED <<posted, sent, got>>
    BY DEF IInv, TypeOK, Send
<1>2. sent[r] = <<>> /\ got[r] = 0 /\ closure[r] = <<>>
    BY <1>1 DEF IInv, PageInv, SocketOK, TypeOK
<1>3. /\ phase'[r] = "socket" /\ target'[r] = s
      /\ \A p \in Request : p # r => phase'[p] = phase[p] /\ target'[p] = target[p]
    BY <1>1
<1>4. ASSUME NEW z \in Session, NEW i \in DOMAIN messages[z]
      PROVE  /\ messages[z][i].req \in Request /\ messages[z][i].req # r
             /\ ~messages[z][i].streaming
    <2>1. PICK m \in Message : m = messages[z][i] /\ m.req \in Request /\ MessageOK(z, m)
        BY MessageTyped
    <2>2. m.req # r
        BY <1>1, <2>1 DEF MessageOK
    <2>3. phase[m.req] \notin Active /\ phase[m.req] # "unsent"
        BY <1>1, <2>1 DEF MessageOK, IInv, PageInv, BusyOK
    <2>4. phase[m.req] = "over"
        BY <1>1, <2>1, <2>3 DEF Phases, Active
    <2>5. m.role \in {"user", "assistant"}
        BY DEF Message
    <2>6. ~m.streaming
        BY <2>1, <2>4, <2>5 DEF MessageOK, AnswerOK
    <2>. QED  BY <2>1, <2>2, <2>6
<1>5. /\ q \in Seq(Message) /\ Len(q) \in Nat /\ DOMAIN q = 1 .. Len(q)
      /\ DOMAIN w = 1 .. Len(q) + 2
      /\ \A i \in 1 .. Len(q) : w[i] = q[i]
      /\ w[Len(q) + 1] = Question(r) /\ w[Len(q) + 2] = EmptyAnswer(r)
    BY <1>1
<1>6. \A z \in Session : messages'[z] = IF z = s THEN w ELSE messages[z]
    BY <1>1
<1>. HIDE DEF w
<1>7. ASSUME NEW z \in Session, NEW i \in DOMAIN messages[z]
      PROVE  /\ phase'[messages[z][i].req] # "unsent"
             /\ target'[messages[z][i].req] = z
             /\ messages[z][i].role = "user" => ~messages[z][i].streaming
             /\ messages[z][i].role = "assistant" =>
                   AnswerOK(messages[z][i], phase'[messages[z][i].req],
                            sent'[messages[z][i].req], got'[messages[z][i].req])
    <2>1. PICK m \in Message : m = messages[z][i] /\ m.req \in Request /\ MessageOK(z, m)
        BY MessageTyped
    <2>2. m.req # r
        BY <1>4, <2>1
    <2>. QED  BY <2>1, <2>2, <1>1, <1>3 DEF MessageOK
<1>8. /\ Question(r).req = r /\ Question(r).role = "user" /\ ~Question(r).streaming
      /\ EmptyAnswer(r).req = r /\ EmptyAnswer(r).role = "assistant"
    BY DEF Question, EmptyAnswer
<1>9. AnswerOK(EmptyAnswer(r), phase'[r], sent'[r], got'[r])
    <2>1. phase'[r] = "socket" /\ sent'[r] = <<>> /\ got'[r] = 0
        BY <1>1, <1>2, <1>3
    <2>. QED  BY <2>1, AnswerBegins
<1>10. MessagesOK'
    <2>. SUFFICES ASSUME NEW z \in Session, NEW i \in DOMAIN messages'[z]
                  PROVE  MessageOK(z, messages[z][i])'
        BY DEF MessagesOK
    <2>1. CASE i \in DOMAIN messages[z]
        <3>1. messages'[z][i] = messages[z][i]
            BY <1>5, <1>6, <2>1
        <3>. QED  BY <1>7, <2>1, <3>1 DEF MessageOK
    <2>2. CASE i \notin DOMAIN messages[z]
        <3>1. z = s /\ (messages'[z][i] = Question(r) \/ messages'[z][i] = EmptyAnswer(r))
            <4>1. z = s /\ i \in DOMAIN w /\ i \notin DOMAIN q /\ messages'[z][i] = w[i]
                BY <1>6, <2>2
            <4>. HIDE DEF q
            <4>2. i = Len(q) + 1 \/ i = Len(q) + 2
                BY <1>5, <4>1
            <4>3. CASE i = Len(q) + 1
                BY <1>5, <4>1, <4>3
            <4>4. CASE i = Len(q) + 2
                BY <1>5, <4>1, <4>4
            <4>. QED  BY <4>2, <4>3, <4>4
        <3>2. PICK m : m = messages'[z][i]
            OBVIOUS
        <3>. HIDE DEF AnswerOK
        <3>3. CASE m = Question(r)
            BY <3>1, <3>2, <3>3, <1>3, <1>8 DEF MessageOK
        <3>4. CASE m = EmptyAnswer(r)
            BY <3>1, <3>2, <3>4, <1>3, <1>8, <1>9 DEF MessageOK
        <3>. QED  BY <3>1, <3>2, <3>3, <3>4
    <2>. QED  BY <2>1, <2>2
<1>11. ClosureOK'
    <2>. SUFFICES ASSUME NEW p \in Request, NEW i \in DOMAIN closure'[p]
                  PROVE  /\ ~closure'[p][i].streaming
                         /\ closure'[p][i].req # p
                         /\ phase'[closure'[p][i].req] # "unsent"
                         /\ target'[closure'[p][i].req] = target'[p]
        BY DEF ClosureOK
    <2>1. CASE p = r
        <3>1. closure'[p] = q
            BY <1>1, <2>1
        <3>. QED  BY <1>3, <1>4, <1>7, <2>1, <3>1
    <2>2. CASE p # r
        <3>1. closure'[p] = closure[p]
            BY <1>1, <2>2
        <3>2. PICK m : m = closure[p][i] /\ m.req \in Request
            BY <3>1, ClosureTyped DEF IInv
        <3>3. ~m.streaming /\ m.req # p /\ phase[m.req] # "unsent" /\ target[m.req] = target[p]
            BY <3>1, <3>2 DEF IInv, TextInv, ClosureOK
        <3>4. m.req # r
            BY <1>1, <3>3
        <3>. QED  BY <1>3, <2>2, <3>1, <3>2, <3>3, <3>4
    <2>. QED  BY <2>1, <2>2
<1>12. PostedOK'
    <2>. SUFFICES ASSUME NEW p \in Request, NEW m \in posted[p]
                  PROVE  ~m.error /\ m \in ToSet(closure'[p])
        BY <1>1 DEF PostedOK
    <2>1. ~m.error /\ m \in ToSet(closure[p])
        BY DEF IInv, TextInv, PostedOK
    <2>2. p # r
        BY <1>2, <2>1 DEF ToSet
    <2>. QED  BY <1>1, <2>1, <2>2
<1>. QED  BY <1>10, <1>11, <1>12 DEF TextInv
-----------------------------------------------------------------------------
(* The theorems.                                                           *)

\* Every step keeps the invariant.
LEMMA NextIInv == IInv /\ [Next]_vars => IInv'
<1>. SUFFICES ASSUME IInv, [Next]_vars PROVE IInv'
    OBVIOUS
<1>1. CASE UNCHANGED vars
    BY <1>1 DEF vars, IInv, TypeOK, PageInv, BusyOK, SocketOK, FramesOK, TextInv,
                MessagesOK, MessageOK, ClosureOK, PostedOK
<1>2. ASSUME NEW s \in Session, NewSession(s) \/ SelectSession(s) PROVE IInv'
    <2>1. UNCHANGED <<messages, phase, target, closure, posted, sent, got>>
        BY <1>2 DEF NewSession, SelectSession
    <2>. QED  BY <1>2, <2>1, ClickType, ClickPage, QuietText DEF IInv
<1>3. ASSUME NEW r \in Request, NEW s \in Session, Send(r, s) PROVE IInv'
    BY <1>3, SendType, SendPage, SendText DEF IInv
<1>4. ASSUME NEW r \in Request, Opened(r) PROVE IInv'
    <2>1. UNCHANGED <<messages, phase, target, closure, posted, sent, got>>
        BY <1>4 DEF Opened
    <2>. QED  BY <1>4, <2>1, OpenedType, OpenedPage, QuietText DEF IInv
<1>5. ASSUME NEW r \in Request, ConnectFails(r) \/ OnError(r) \/ OnClose(r) PROVE IInv'
    BY <1>5, LeaveType, LeavePage, UntouchedText DEF IInv
<1>6. ASSUME NEW r \in Request, OnOther(r) PROVE IInv'
    BY <1>6, OtherType, FramePage, UntouchedText DEF IInv
<1>7. ASSUME NEW r \in Request, OnDelta(r) PROVE IInv'
    BY <1>7, AnswerType, FramePage, OnDeltaText DEF IInv
<1>8. ASSUME NEW r \in Request, OnDone(r) PROVE IInv'
    BY <1>8, AnswerType, LeavePage, OnDoneText DEF IInv
<1>9. ASSUME NEW r \in Request, RestAnswers(r) \/ RestFails(r) PROVE IInv'
    BY <1>9, AnswerType, RestPage, SettledText DEF IInv
<1>10. ASSUME NEW r \in Request, ServerStep(r) PROVE IInv'
    BY <1>10, ServerType, ServerPage, UntouchedText DEF IInv
<1>. QED
    BY <1>1, <1>2, <1>3, <1>4, <1>5, <1>6, <1>7, <1>8, <1>9, <1>10
    DEF Next, Page, ServerStep

\* The invariant holds throughout.
LEMMA ChatInvariant == Spec => []IInv
BY InitIInv, NextIInv, PTL DEF Spec

\* The input is disabled exactly while a send is under way, at most one send is,
\* and no socket is open behind a send that has left it (ChatLayout.tsx, busy).
THEOREM OneSendAtATime == Spec => [](BusyOK /\ SocketOK)
<1>1. IInv => BusyOK /\ SocketOK
    BY DEF IInv, PageInv
<1>. QED  BY <1>1, ChatInvariant, PTL

\* A finished answer comes whole from one transport of its own request, and
\* into the session it was asked in: every delta before the "done" in order, or
\* the one REST answer, or the error text (ChatLayout.tsx, send).
THEOREM AnswersAreWhole == Spec => []AnswersWhole
<1>1. IInv => AnswersWhole
    <2>. SUFFICES ASSUME IInv, NEW s \in Session, NEW m \in ToSet(messages[s]),
                         m.role = "assistant", ~m.streaming
                  PROVE  target[m.req] = s /\ Whole(m, sent[m.req])
        BY DEF AnswersWhole, IInv, Whole
    <2>1. PICK i \in DOMAIN messages[s] : messages[s][i] = m
        BY ToSetMember
    <2>2. MessageOK(s, m)
        BY <2>1, MessageTyped
    <2>. QED  BY <2>2 DEF MessageOK, AnswerOK
<1>. QED  BY <1>1, ChatInvariant, PTL

\* What a fallback carries is finished, of its own session and of requests
\* before its own.
LEMMA CarriedIsEarlier ==
    ASSUME IInv, NEW r \in Request, NEW m \in posted[r]
    PROVE  ~m.streaming /\ ~m.error /\ m.req # r /\ target[m.req] = target[r]
<1>1. ~m.error /\ m \in ToSet(closure[r])
    BY DEF IInv, TextInv, PostedOK
<1>2. PICK i \in DOMAIN closure[r] : closure[r][i] = m
    BY <1>1, ToSetMember
<1>. QED  BY <1>1, <1>2 DEF IInv, TextInv, ClosureOK

\* The REST fallback carries finished messages of its own session only, and not
\* the answer it is to replace, whatever session is shown when it begins
\* (ChatLayout.tsx, sendViaRest).
THEOREM HistoryIsFinished == Spec => []HistoryFinished
<1>1. IInv => HistoryFinished
    BY CarriedIsEarlier DEF HistoryFinished
<1>. QED  BY <1>1, ChatInvariant, PTL

\* No fallback carries the message that was typed, however the sends, frames
\* and sessions interleave: the closure sendViaRest reads is older than it, so
\* what FallbackCarriesText asks for fails in every fallback and not in some
\* (ChatLayout.tsx, sendViaRest).
THEOREM FallbackLacksText ==
    Spec => [](\A r \in Request : Question(r) \notin posted[r])
<1>1. IInv => \A r \in Request : Question(r) \notin posted[r]
    BY CarriedIsEarlier DEF Question
<1>. QED  BY <1>1, ChatInvariant, PTL

\* The conversation only grows, and no late frame, fallback or later send
\* changes an answer that is final (ChatLayout.tsx, the setMessages calls).
THEOREM FinalMessagesStay == Spec => FinalStays
<1>. DEFINE Stays == \A s \in Session : \A i \in DOMAIN messages[s] :
                        /\ i \in DOMAIN messages'[s]
                        /\ messages'[s][i].req = messages[s][i].req
                        /\ ~messages[s][i].streaming => messages'[s][i] = messages[s][i]
<1>1. IInv /\ [Next]_vars => [Stays]_vars
    <2>. SUFFICES ASSUME IInv, Next, NEW s \in Session, NEW i \in DOMAIN messages[s]
                  PROVE  /\ i \in DOMAIN messages'[s]
                         /\ messages'[s][i].req = messages[s][i].req
                         /\ ~messages[s][i].streaming => messages'[s][i] = messages[s][i]
        OBVIOUS
    <2>1. PICK m \in Message : m = messages[s][i] /\ m.req \in Request /\ MessageOK(s, m)
        BY MessageTyped
    <2>2. CASE UNCHANGED messages
        BY <2>2
    <2>3. ASSUME NEW r \in Request, NEW z \in Session, Send(r, z)
          PROVE  i \in DOMAIN messages'[s] /\ messages'[s][i] = messages[s][i]
        <3>1. messages' = [messages EXCEPT ![z] = @ \o <<Question(r), EmptyAnswer(r)>>]
            BY <2>3 DEF Send
        <3>2. messages \in [Session -> Seq(Message)]
            BY DEF IInv, TypeOK
        <3>3. CASE s = z
            <4>1. messages'[s] = messages[s] \o <<Question(r), EmptyAnswer(r)>>
                BY <3>1, <3>2, <3>3
            <4>2. messages[s] \in Seq(Message)
                BY <3>2
            <4>. QED  BY <4>1, <4>2
        <3>4. CASE s # z
            BY <3>1, <3>2, <3>4
        <3>. QED  BY <3>3, <3>4
    <2>4. ASSUME NEW r \in Request,
                 OnDelta(r) \/ OnDone(r) \/ RestAnswers(r) \/ RestFails(r)
          PROVE  /\ i \in DOMAIN messages'[s]
                 /\ messages'[s][i].req = messages[s][i].req
                 /\ ~messages[s][i].streaming => messages'[s][i] = messages[s][i]
        <3>1. phase[r] # "over"
            BY <2>4 DEF IInv, PageInv, SocketOK, OnDelta, OnDone, Receive, RestAnswers,
                        RestFails
        <3>2. Mine(r, m) => m.streaming
            BY <2>1, <3>1 DEF Mine, MessageOK, AnswerOK
        <3>3. i \in DOMAIN messages'[s]
            BY <2>4, OnDeltaMessages, OnDoneMessages, RestAnswersMessages, RestFailsMessages
        <3>4. ~Mine(r, m) => messages'[s][i] = m
            BY <2>1, <2>4, OnDeltaMessages, OnDoneMessages, RestAnswersMessages,
               RestFailsMessages
        <3>5. messages'[s][i].req = m.req
            <4>1. CASE OnDelta(r)
                <5>1. \/ messages'[s][i] = m
                      \/ messages'[s][i] = [m EXCEPT !.text = Append(@, Delta(r, got[r] + 1))]
                    BY <2>1, <4>1, OnDeltaMessages
                <5>. QED  BY <5>1 DEF Message
            <4>2. CASE OnDone(r)
                <5>1. \/ messages'[s][i] = m
                      \/ messages'[s][i] = [m EXCEPT !.streaming = FALSE]
                    BY <2>1, <4>2, OnDoneMessages
                <5>. QED  BY <5>1 DEF Message
            <4>3. CASE RestAnswers(r)
                <5>1. \/ messages'[s][i] = m
                      \/ messages'[s][i] = [m EXCEPT !.text = <<RestText(r)>>, !.streaming = FALSE]
                    BY <2>1, <4>3, RestAnswersMessages
                <5>. QED  BY <5>1 DEF Message
            <4>4. CASE RestFails(r)
                <5>1. \/ messages'[s][i] = m
                      \/ messages'[s][i] = [m EXCEPT !.text = <<Generic(r)>>, !.streaming = FALSE,
                                                    !.error = TRUE]
                    BY <2>1, <4>4, RestFailsMessages
                <5>. QED  BY <5>1 DEF Message
            <4>. QED  BY <2>4, <4>1, <4>2, <4>3, <4>4
        <3>. QED  BY <2>1, <3>2, <3>3, <3>4, <3>5
    <2>5. CASE \E z \in Session : NewSession(z) \/ SelectSession(z)
        BY <2>2, <2>5 DEF NewSession, SelectSession
    <2>6. ASSUME NEW r \in Request,
                 \/ Opened(r) \/ ConnectFails(r) \/ OnError(r) \/ OnOther(r) \/ OnClose(r)
                 \/ ServerSends(r) \/ ServerEnds(r) \/ ConnectionLost(r)
          PROVE  UNCHANGED messages
        BY <2>6 DEF Opened, ConnectFails, OnError, OnOther, OnClose, ServerSends,
                    ServerEnds, ConnectionLost, Emit
    <2>. QED  BY <2>2, <2>3, <2>4, <2>5, <2>6 DEF Next, Page
<1>. HIDE DEF Stays
<1>2. Spec => [][Stays]_vars
    BY <1>1, ChatInvariant, PTL DEF Spec
<1>. QED  BY <1>2 DEF FinalStays, Stays
=============================================================================
