--------------------------- MODULE StreamUnmasker ---------------------------
(***************************************************************************)
(* StreamUnmasker of pii/streaming.py, as the generator of /restore_stream *)
(* in api.py drives it: the answer arrives in chunks cut anywhere, and a   *)
(* carry buffer keeps back what may be the beginning of a placeholder.     *)
(* The buffer holds positions sent+1..fed of the answer.                   *)
(***************************************************************************)
EXTENDS Naturals, Sequences

CONSTANTS
    Shapes, Known, Answers,   \* as in RestoredStream
    CARRY_BUFFER_SIZE

\* <TYPE_DIGITS>: one "<", in front, and one ">", at the end.  The longest
\* placeholder has 18 characters and the buffer 32; one character less than
\* the longest placeholder would do.
ASSUME StreamAssumption ==
    /\ CARRY_BUFFER_SIZE \in Nat
    /\ Known \subseteq Shapes
    /\ \A a \in Answers : a \in Seq(STRING)
    /\ \A sh \in Shapes :
          /\ sh \in Seq(STRING) /\ Len(sh) > 1 /\ Len(sh) <= CARRY_BUFFER_SIZE + 1
          /\ \A k \in 1..Len(sh) : sh[k] = "<" <=> k = 1
          /\ \A k \in 1..Len(sh) : sh[k] = ">" <=> k = Len(sh)

VARIABLES
    text,          \* the answer
    fed,           \* how much of it the chunks so far have brought
    sent,          \* how much of it feed and flush have returned
    restored,      \* the placeholders replaced in what they returned
    hallucinated,  \* the set the terminal event reports
    status         \* "open", "ended" (end event) or "failed" (error event)

vars == <<text, fed, sent, restored, hallucinated, status>>

Occurrences(a, b) ==
    {o \in [at : (a + 1)..b, shape : Shapes] :
        /\ o.at + Len(o.shape) - 1 <= b
        /\ \A k \in 1..Len(o.shape) : text[o.at + k - 1] = o.shape[k]}

TypeOK ==
    /\ text \in Answers
    /\ fed \in 0..Len(text)
    /\ sent \in 0..fed
    /\ restored \subseteq Occurrences(0, Len(text))
    /\ hallucinated \subseteq Shapes
    /\ status \in {"open", "ended", "failed"}

Init ==
    /\ text \in Answers
    /\ fed = 0
    /\ sent = 0
    /\ restored = {}
    /\ hallucinated = {}
    /\ status = "open"

\* unmask_text on the text from a+1 to b, with the lookup that remembers what
\* it did not find.
Unmask(a, b) ==
    /\ restored' = restored \cup {o \in Occurrences(a, b) : o.shape \in Known}
    /\ hallucinated' = hallucinated \cup
          {o.shape : o \in {q \in Occurrences(a, b) : q.shape \notin Known}}

\* Mutant: the search is not limited to the tail.
OpeningsWhole(a, b) == {i \in (a + 1)..b : text[i] = "<"}

\* The "<" in the last CARRY_BUFFER_SIZE characters of the text from a+1 to b.
Openings(a, b) ==
    {i \in (a + 1)..b : i + CARRY_BUFFER_SIZE > b /\ text[i] = "<"}

\* Mutant: a tail with a "<" is only carried if it holds no ">" at all.
BoundaryAnyClose(a, b) ==
    IF Openings(a, b) = {} \/ \E j \in (a + 1)..b : text[j] = ">" THEN b
    ELSE (CHOOSE i \in Openings(a, b) : \A j \in Openings(a, b) : j <= i) - 1

\* How far feed emits: before the last "<" that no ">" follows, else to the end.
Boundary(a, b) ==
    IF Openings(a, b) = {} THEN b
    ELSE LET last_lt == CHOOSE i \in Openings(a, b) : \A j \in Openings(a, b) : j <= i
         IN  IF \E j \in last_lt..b : text[j] = ">" THEN b ELSE last_lt - 1

\* A chunk event of n characters; an empty chunk changes nothing.
Feed(n) ==
    /\ status = "open"
    /\ fed + n <= Len(text)
    /\ fed' = fed + n
    /\ sent' = Boundary(sent, fed + n)
    /\ Unmask(sent, Boundary(sent, fed + n))
    /\ UNCHANGED <<text, status>>

\* Mutant: the carry is dropped at the end of the stream.
FinishDropping ==
    /\ status = "open"
    /\ status' = "ended"
    /\ UNCHANGED <<text, fed, sent, restored, hallucinated>>

\* The end event, or the end of the body without one: flush, then "end".
Finish ==
    /\ status = "open"
    /\ Unmask(sent, fed)
    /\ sent' = fed
    /\ status' = "ended"
    /\ UNCHANGED <<text, fed>>

\* An event that is not JSON, not an object or of an unknown type: the error
\* event ends the response and the carry is dropped.
ProtocolError ==
    /\ status = "open"
    /\ status' = "failed"
    /\ UNCHANGED <<text, fed, sent, restored, hallucinated>>

Next ==
    \/ \E n \in 1..Len(text) : Feed(n)
    \/ Finish
    \/ ProtocolError

Spec == Init /\ [][Next]_vars

----------------------------------------------------------------------------
(* Properties.                                                             *)

Abstract == INSTANCE RestoredStream WITH shown <- sent

\* However the answer is cut into chunks, the client sees what restoring the
\* whole answer at once would show, up to a point that is never inside a
\* placeholder: the module implements RestoredStream.
Implements == Abstract!Spec

\* At the end event everything that was fed has been shown, restored as a
\* whole, and the placeholders without a row are reported, all of them.
EndComplete ==
    status = "ended" =>
        /\ sent = fed
        /\ restored = {o \in Occurrences(0, fed) : o.shape \in Known}
        /\ hallucinated = {o.shape : o \in {q \in Occurrences(0, fed) : q.shape \notin Known}}

\* While the stream is open no more than CARRY_BUFFER_SIZE characters are
\* kept back, and what is kept back could still become a placeholder: it
\* begins with "<" and holds no ">".
BoundedCarry ==
    status = "open" /\ sent < fed =>
        /\ fed - sent <= CARRY_BUFFER_SIZE
        /\ text[sent + 1] = "<"
        /\ \A i \in (sent + 1)..fed : text[i] # ">"
============================================================================
