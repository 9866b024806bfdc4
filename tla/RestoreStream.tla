--------------------------- MODULE RestoreStream ----------------------------
(* restoreStream of the privacy plugin (stream-restorer.ts) in front of    *)
(* the unmasker of the sidecar: two carry buffers in series.  The request  *)
(* is half duplex and api.py reads its body before it answers, so nothing  *)
(* is restored before the source has ended.  A "direct" response is one to *)
(* another client of /restore_stream, which cuts its chunks anywhere.      *)
EXTENDS StreamUnmasker

VARIABLES
    phase,   \* "direct", "posting" (the body) or "posted"
    read,    \* how much of the answer the source has delivered
    cuts,    \* the positions at which the posted chunks end
    taken    \* how many of those chunks the sidecar has been fed

client == <<phase, read, cuts, taken>>
allVars == <<vars, client>>

RestoreInit ==
    /\ Init
    /\ phase \in {"direct", "posting"}
    /\ read = 0
    /\ cuts = <<>>
    /\ taken = 0

\* How much of the answer has been posted; the rest of what was read is carry.
Posted == IF cuts = <<>> THEN 0 ELSE cuts[Len(cuts)]

Post(b) == cuts' = IF b > Posted THEN Append(cuts, b) ELSE cuts

\* A mutant of SourceChunk: nothing is held back.
SourceChunkPlain(n) ==
    /\ phase = "posting" /\ status = "open"
    /\ read + n <= Len(text)
    /\ read' = read + n
    /\ Post(read + n)
    /\ UNCHANGED <<vars, phase, taken>>

\* The source delivers a chunk: it is posted up to a "<" near its end that no
\* ">" follows.
SourceChunk(n) ==
    /\ phase = "posting" /\ status = "open"
    /\ read + n <= Len(text)
    /\ read' = read + n
    /\ Post(Boundary(Posted, read + n))
    /\ UNCHANGED <<vars, phase, taken>>

\* A mutant of SourceEnds: the carry is not flushed.
SourceEndsDropping ==
    /\ phase = "posting" /\ status = "open"
    /\ phase' = "posted"
    /\ UNCHANGED <<vars, read, cuts, taken>>

\* The source ends: the carry is posted as it is, then the end event.
SourceEnds ==
    /\ phase = "posting" /\ status = "open"
    /\ Post(read)
    /\ phase' = "posted"
    /\ UNCHANGED <<vars, read, taken>>

\* The source throws, or the timeout of the request fires: before the body is
\* complete, or between two events of the response.
ClientFails ==
    /\ phase # "direct" /\ status = "open"
    /\ status' = "failed"
    /\ UNCHANGED <<text, fed, sent, restored, hallucinated, client>>

\* The sidecar answers the complete body, chunk by chunk.
AnswerChunk ==
    /\ phase = "posted"
    /\ taken < Len(cuts)
    /\ Feed(cuts[taken + 1] - fed)
    /\ taken' = taken + 1
    /\ UNCHANGED <<phase, read, cuts>>

AnswerEnd ==
    /\ phase = "posted"
    /\ taken = Len(cuts)
    /\ Finish
    /\ UNCHANGED client

DirectClient == phase = "direct" /\ Next /\ UNCHANGED client

RestoreNext ==
    \/ \E n \in 1..Len(text) : SourceChunk(n)
    \/ SourceEnds
    \/ ClientFails
    \/ AnswerChunk
    \/ AnswerEnd
    \/ DirectClient

RestoreSpec == RestoreInit /\ [][RestoreNext]_allVars

-----------------------------------------------------------------------------
(* Properties.                                                             *)

\* No chunk of the request ends inside a placeholder, whatever the chunks of
\* the model are (stream-restorer.ts:11-13), except the last, when the answer
\* itself breaks off there.
WireCutsClean ==
    \A i \in DOMAIN cuts :
        \/ Abstract!CleanCut(cuts[i])
        \/ phase = "posted" /\ i = Len(cuts) /\ cuts[i] = read

\* A response that ended has shown all that the source delivered, the carry of
\* either buffer included.
SourceComplete == phase = "posted" /\ status = "ended" => sent = read
=============================================================================
