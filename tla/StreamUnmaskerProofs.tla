------------------------ MODULE StreamUnmaskerProofs ------------------------
(* The carry buffer for every answer, every way to cut it into chunks and  *)
(* every set of placeholders that fits the buffer.  Correct output so far  *)
(* is not inductive: the invariant adds that the point up to which the     *)
(* answer was emitted lies inside no placeholder of the answer, the part   *)
(* of it that has not arrived yet included.                                *)
(*                                                                         *)
(* Then the pair of buffers, the plugin's in front of the sidecar's.  The  *)
(* sidecar is fed what the plugin posted, so its invariant is kept as it   *)
(* is; added is that the plugin cuts its posts as the sidecar cuts its     *)
(* output, and that the sidecar is fed exactly the posts.                  *)
EXTENDS RestoreStream, WellFoundedInduction, TLAPS

\* Position c lies inside no placeholder of the answer.
CleanCut(c) ==
    \A o \in Occurrences(0, Len(text)) : o.at > c \/ o.at + Len(o.shape) - 1 <= c

\* What restoring positions 1..c at once would replace and report.
KnownUpTo(c) == {o \in Occurrences(0, c) : o.shape \in Known}
UnknownUpTo(c) == {o.shape : o \in {q \in Occurrences(0, c) : q.shape \notin Known}}

\* The sidecar's buffer: what it has emitted is restored, and ends inside no
\* placeholder.
Inv ==
    /\ TypeOK
    /\ restored = KnownUpTo(sent) /\ hallucinated = UnknownUpTo(sent)
    /\ status = "open" => CleanCut(sent)
    /\ status = "ended" => sent = fed
    /\ BoundedCarry

----------------------------------------------------------------------------

\* A non-empty set of naturals with an upper bound has a greatest element.
LEMMA MaxExists ==
    ASSUME NEW b \in Nat, NEW S \in SUBSET (0..b), S # {}
    PROVE  \E k \in S : \A j \in S : j <= k
<1> DEFINE R == OpToRel(<, Nat)
           T == {n \in Nat : \E i \in S : n = b - i}
<1>1. T \subseteq Nat /\ T # {}
  <2>1. PICK i \in S : TRUE
    OBVIOUS
  <2>2. b - i \in Nat
    BY <2>1
  <2> QED BY <2>1, <2>2
<1>2. \E x \in T : \A y \in T : ~(<<y, x>> \in R)
  <2>1. IsWellFoundedOn(R, Nat)
    BY NatLessThanWellFounded
  <2> HIDE DEF R, T
  <2> QED BY <1>1, <2>1, WFMin
<1>3. PICK x \in T : \A y \in T : ~(<<y, x>> \in R)
  BY <1>2
<1>4. PICK i \in S : x = b - i
  OBVIOUS
<1>5. ASSUME NEW j \in S PROVE j <= i
  <2>1. b - j \in T
    OBVIOUS
  <2>2. ~(<<b - j, x>> \in R)
    BY <1>3, <2>1
  <2>3. ~(b - j < x)
    BY <2>1, <2>2 DEF OpToRel
  <2> QED BY <1>4, <2>3
<1> QED BY <1>5

\* The shape of an occurrence, position by position.
LEMMA OccurrenceShape ==
    ASSUME NEW a \in Nat, NEW b \in Nat, NEW o \in Occurrences(a, b)
    PROVE  /\ o.at \in Nat /\ o.at > a /\ Len(o.shape) \in Nat /\ Len(o.shape) > 1
           /\ o.at + Len(o.shape) - 1 <= b
           /\ Len(o.shape) <= CARRY_BUFFER_SIZE + 1
           /\ text[o.at] = "<" /\ text[o.at + Len(o.shape) - 1] = ">"
           /\ \A i \in (o.at + 1)..(o.at + Len(o.shape) - 1) : text[i] # "<"
           /\ \A i \in o.at..(o.at + Len(o.shape) - 2) : text[i] # ">"
<1> DEFINE sh == o.shape
           n == Len(o.shape)
<1>1. o.at \in (a + 1)..b /\ sh \in Shapes
  BY DEF Occurrences
<1>2. /\ o.at + n - 1 <= b
      /\ \A k \in 1..n : text[o.at + k - 1] = sh[k]
  BY DEF Occurrences
<1>3. /\ sh \in Seq(STRING) /\ n > 1 /\ n <= CARRY_BUFFER_SIZE + 1
      /\ \A k \in 1..n : sh[k] = "<" <=> k = 1
      /\ \A k \in 1..n : sh[k] = ">" <=> k = n
  BY <1>1, StreamAssumption
<1>4. n \in Nat /\ o.at \in Nat /\ o.at > a
  BY <1>1, <1>3
<1> HIDE DEF n, sh
<1>5. \A i \in o.at..(o.at + n - 1) :
         i - o.at + 1 \in 1..n /\ text[i] = sh[i - o.at + 1]
  <2> SUFFICES ASSUME NEW i \in o.at..(o.at + n - 1)
               PROVE  i - o.at + 1 \in 1..n /\ text[i] = sh[i - o.at + 1]
    OBVIOUS
  <2>1. i - o.at + 1 \in 1..n /\ o.at + (i - o.at + 1) - 1 = i
    BY <1>4
  <2> QED BY <1>2, <2>1
<1>6. text[o.at] = "<" /\ text[o.at + n - 1] = ">"
  <2>1. o.at \in o.at..(o.at + n - 1) /\ o.at - o.at + 1 = 1
        /\ o.at + n - 1 \in o.at..(o.at + n - 1) /\ (o.at + n - 1) - o.at + 1 = n
        /\ 1 \in 1..n /\ n \in 1..n
    BY <1>3, <1>4
  <2>2. text[o.at] = sh[1] /\ text[o.at + n - 1] = sh[n]
    BY <1>5, <2>1
  <2> QED BY <1>3, <2>1, <2>2
<1>7. ASSUME NEW i \in (o.at + 1)..(o.at + n - 1) PROVE text[i] # "<"
  <2>1. i \in o.at..(o.at + n - 1) /\ i - o.at + 1 # 1
    BY <1>4
  <2>2. i - o.at + 1 \in 1..n /\ text[i] = sh[i - o.at + 1]
    BY <1>5, <2>1
  <2> QED BY <1>3, <2>1, <2>2
<1>8. ASSUME NEW i \in o.at..(o.at + n - 2) PROVE text[i] # ">"
  <2>1. i \in o.at..(o.at + n - 1) /\ i - o.at + 1 # n
    BY <1>4
  <2>2. i - o.at + 1 \in 1..n /\ text[i] = sh[i - o.at + 1]
    BY <1>5, <2>1
  <2> QED BY <1>3, <2>1, <2>2
<1> QED BY <1>2, <1>3, <1>4, <1>6, <1>7, <1>8 DEF n

\* Beyond a clean cut, the occurrences are those before it and those after it.
LEMMA OccurrencesSplit ==
    ASSUME text \in Answers, NEW a \in Nat, NEW c \in Nat, a <= c, c <= Len(text), CleanCut(a)
    PROVE  Occurrences(0, c) = Occurrences(0, a) \cup Occurrences(a, c)
<1>1. Len(text) \in Nat
  BY StreamAssumption
<1>2. ASSUME NEW o \in Occurrences(0, c) PROVE o \in Occurrences(0, a) \cup Occurrences(a, c)
  <2>1. o.at \in 1..c /\ o.at + Len(o.shape) - 1 <= c /\ Len(o.shape) \in Nat /\ Len(o.shape) > 1
    BY <1>2, OccurrenceShape DEF Occurrences
  <2>2. o \in Occurrences(0, Len(text))
    BY <1>1, <1>2, <2>1 DEF Occurrences
  <2>3. o.at > a \/ o.at + Len(o.shape) - 1 <= a
    BY <2>2 DEF CleanCut
  <2> QED BY <1>2, <2>1, <2>3 DEF Occurrences
<1>3. ASSUME NEW o \in Occurrences(0, a) PROVE o \in Occurrences(0, c)
  <2>1. o.at \in 1..a /\ o.at + Len(o.shape) - 1 <= a /\ Len(o.shape) \in Nat
    BY <1>3, OccurrenceShape DEF Occurrences
  <2> QED BY <1>3, <2>1 DEF Occurrences
<1>4. ASSUME NEW o \in Occurrences(a, c) PROVE o \in Occurrences(0, c)
  BY <1>4 DEF Occurrences
<1> QED BY <1>2, <1>3, <1>4

\* feed stops at a clean cut: a placeholder over its end would begin with a
\* "<" inside the searched tail, the last one, with no ">" after it.
LEMMA BoundaryClean ==
    ASSUME text \in Answers, NEW a \in Nat, NEW b \in Nat, a <= b, b <= Len(text), CleanCut(a)
    PROVE  /\ Boundary(a, b) \in a..b
           /\ CleanCut(Boundary(a, b))
           /\ Boundary(a, b) < b =>
                 /\ b - Boundary(a, b) <= CARRY_BUFFER_SIZE
                 /\ text[Boundary(a, b) + 1] = "<"
                 /\ \A i \in (Boundary(a, b) + 1)..b : text[i] # ">"
<1> DEFINE S == Openings(a, b)
           lt == CHOOSE i \in S : \A j \in S : j <= i
           c == Boundary(a, b)
<1>1. Len(text) \in Nat /\ CARRY_BUFFER_SIZE \in Nat
  BY StreamAssumption
<1>2. S \in SUBSET (0..b)
  BY DEF Openings
<1>3. S # {} => lt \in S /\ \A j \in S : j <= lt
  <2>1. S # {} => \E i \in S : \A j \in S : j <= i
    <3> HIDE DEF S
    <3> QED BY <1>2, MaxExists
  <2> HIDE DEF S
  <2> QED BY <2>1
<1>4. S # {} => lt \in (a + 1)..b /\ lt + CARRY_BUFFER_SIZE > b /\ text[lt] = "<"
  BY <1>3 DEF Openings
<1>5. c = IF S = {} THEN b ELSE IF \E j \in lt..b : text[j] = ">" THEN b ELSE lt - 1
  BY DEF Boundary
<1>6. \A i \in (a + 1)..b : i + CARRY_BUFFER_SIZE > b /\ text[i] = "<" => i \in S
  BY DEF Openings
<1> HIDE DEF S, lt, c
<1>7. c \in a..b
  BY <1>4, <1>5
<1>8. ASSUME NEW o \in Occurrences(0, Len(text)), o.at <= c, o.at + Len(o.shape) - 1 > c
      PROVE  FALSE
  <2> DEFINE e == o.at + Len(o.shape) - 1
  <2>1. /\ o.at \in Nat /\ o.at > 0 /\ Len(o.shape) \in Nat /\ Len(o.shape) > 1
        /\ Len(o.shape) <= CARRY_BUFFER_SIZE + 1 /\ text[o.at] = "<"
        /\ \A i \in (o.at + 1)..e : text[i] # "<"
        /\ \A i \in o.at..(e - 1) : text[i] # ">"
    BY <1>1, OccurrenceShape
  <2>2. e \in Nat /\ e > c /\ o.at <= c
    BY <1>8, <2>1
  <2>3. o.at > a
    BY <1>7, <1>8, <2>1, <2>2 DEF CleanCut
  <2>4. CASE c = b
    <3>1. o.at \in S
      BY <1>1, <1>6, <2>1, <2>2, <2>3, <2>4
    <3>2. lt \in S /\ o.at <= lt /\ lt \in (a + 1)..b /\ text[lt] = "<"
      BY <1>3, <1>4, <3>1
    <3>3. lt = o.at
      BY <2>1, <2>2, <2>4, <3>2, SMTT(20)
    <3>4. ~ \E j \in lt..b : text[j] = ">"
      BY <2>1, <2>2, <2>4, <3>3
    <3>5. c = lt - 1
      BY <1>5, <3>1, <3>4
    <3> QED BY <2>4, <3>2, <3>5
  <2>5. CASE c # b
    <3>1. S # {} /\ c = lt - 1 /\ lt \in (a + 1)..b /\ text[lt] = "<"
      BY <1>4, <1>5, <2>5
    <3>2. lt \in (o.at + 1)..e
      BY <2>1, <2>2, <3>1
    <3> QED BY <2>1, <3>1, <3>2
  <2> QED BY <2>4, <2>5
<1>9. CleanCut(c)
  <2>1. \A o \in Occurrences(0, Len(text)) :
           o.at \in Nat /\ o.at + Len(o.shape) - 1 \in Nat
    BY <1>1, OccurrenceShape
  <2> QED BY <1>7, <1>8, <2>1 DEF CleanCut
<1>10. c < b => /\ b - c <= CARRY_BUFFER_SIZE /\ text[c + 1] = "<"
                /\ \A i \in (c + 1)..b : text[i] # ">"
  <2> SUFFICES ASSUME c < b PROVE /\ b - c <= CARRY_BUFFER_SIZE /\ text[c + 1] = "<"
                                  /\ \A i \in (c + 1)..b : text[i] # ">"
    OBVIOUS
  <2>1. S # {} /\ c = lt - 1 /\ ~ \E j \in lt..b : text[j] = ">"
    BY <1>5
  <2>2. lt \in Nat /\ lt + CARRY_BUFFER_SIZE > b /\ text[lt] = "<" /\ c + 1 = lt
    BY <1>4, <2>1
  <2> QED BY <1>1, <2>1, <2>2
<1> QED BY <1>7, <1>9, <1>10 DEF c

----------------------------------------------------------------------------
(* The invariant.                                                          *)

\* Nothing is emitted at first.
LEMMA InitInv == Init => Inv
<1> SUFFICES ASSUME Init PROVE Inv
  OBVIOUS
<1>1. text \in Answers /\ Len(text) \in Nat
  BY StreamAssumption DEF Init
<1>2. Occurrences(0, 0) = {}
  BY DEF Occurrences
<1>3. TypeOK
  BY <1>1 DEF Init, TypeOK
<1>4. CleanCut(0)
  BY <1>1, OccurrenceShape DEF CleanCut
<1> QED BY <1>2, <1>3, <1>4 DEF Init, Inv, KnownUpTo, UnknownUpTo, BoundedCarry

\* Unmasking the text between two cuts brings the output to the second one.
LEMMA UnmaskUpTo ==
    ASSUME TypeOK, restored = KnownUpTo(sent), hallucinated = UnknownUpTo(sent),
           CleanCut(sent), NEW c \in Nat, sent <= c, c <= Len(text), Unmask(sent, c)
    PROVE  /\ restored' = {o \in Occurrences(0, c) : o.shape \in Known}
           /\ hallucinated' = {o.shape : o \in {q \in Occurrences(0, c) : q.shape \notin Known}}
           /\ restored' \subseteq Occurrences(0, Len(text))
           /\ hallucinated' \subseteq Shapes
<1>1. Len(text) \in Nat /\ sent \in Nat /\ text \in Answers
  BY StreamAssumption DEF TypeOK
<1>2. Occurrences(0, c) = Occurrences(0, sent) \cup Occurrences(sent, c)
  BY <1>1, OccurrencesSplit
<1>3. Occurrences(0, c) \subseteq Occurrences(0, Len(text))
  <2>1. ASSUME NEW o \in Occurrences(0, c) PROVE o \in Occurrences(0, Len(text))
    <3>1. o.at \in 1..c /\ o.at + Len(o.shape) - 1 <= c /\ Len(o.shape) \in Nat
      BY <2>1, OccurrenceShape DEF Occurrences
    <3> QED BY <1>1, <2>1, <3>1 DEF Occurrences
  <2> QED BY <2>1
<1>4. \A o \in Occurrences(0, c) : o.shape \in Shapes
  BY DEF Occurrences
<1>5. restored' = {o \in Occurrences(0, c) : o.shape \in Known}
  BY <1>2 DEF Unmask, KnownUpTo
<1>6. hallucinated' = {o.shape : o \in {q \in Occurrences(0, c) : q.shape \notin Known}}
  BY <1>2 DEF Unmask, UnknownUpTo
<1> QED BY <1>3, <1>4, <1>5, <1>6

\* A chunk is fed: what is emitted ends at a clean cut.
LEMMA FeedInv ==
    ASSUME Inv, NEW n \in 1..Len(text), Feed(n)
    PROVE  Inv' /\ Abstract!Show(sent') /\ sent' \in sent..Len(text)
<1> DEFINE b == fed + n
           c == Boundary(sent, b)
<1>1. /\ TypeOK /\ status = "open" /\ CleanCut(sent)
      /\ restored = KnownUpTo(sent) /\ hallucinated = UnknownUpTo(sent)
  BY DEF Inv, Feed
<1>2. /\ text \in Answers /\ Len(text) \in Nat /\ sent \in Nat /\ fed \in Nat /\ sent <= fed
      /\ b \in Nat /\ b <= Len(text) /\ sent <= b
  BY <1>1, StreamAssumption DEF TypeOK, Feed
<1>3. /\ c \in sent..b /\ CleanCut(c)
      /\ c < b => /\ b - c <= CARRY_BUFFER_SIZE /\ text[c + 1] = "<"
                  /\ \A i \in (c + 1)..b : text[i] # ">"
  BY <1>1, <1>2, BoundaryClean
<1>4. /\ fed' = b /\ sent' = c /\ Unmask(sent, c) /\ text' = text /\ status' = status
  BY DEF Feed
<1> HIDE DEF b, c
<1>5. c \in Nat /\ sent <= c /\ c <= Len(text) /\ c <= b
  BY <1>2, <1>3
<1>6. /\ restored' = {o \in Occurrences(0, c) : o.shape \in Known}
      /\ hallucinated' = {o.shape : o \in {q \in Occurrences(0, c) : q.shape \notin Known}}
      /\ restored' \subseteq Occurrences(0, Len(text)) /\ hallucinated' \subseteq Shapes
  BY <1>1, <1>4, <1>5, UnmaskUpTo
<1>7. TypeOK'
  BY <1>1, <1>2, <1>4, <1>5, <1>6 DEF TypeOK, Occurrences
<1>8. CleanCut(sent)' /\ BoundedCarry'
  BY <1>3, <1>4 DEF CleanCut, Occurrences, BoundedCarry
<1>9. restored' = KnownUpTo(sent)' /\ hallucinated' = UnknownUpTo(sent)'
  BY <1>4, <1>6 DEF KnownUpTo, UnknownUpTo, Occurrences
<1>10. Abstract!Show(sent')
  BY <1>1, <1>3, <1>4, <1>6
     DEF Abstract!Show, Abstract!CleanCut, Abstract!Restorable, Abstract!Occurrences,
         CleanCut, Occurrences
<1>11. status' = "open"
  BY <1>1, <1>4
<1> QED BY <1>2, <1>4, <1>5, <1>7, <1>8, <1>9, <1>10, <1>11 DEF Inv

\* The rest is flushed.
LEMMA FinishInv ==
    ASSUME Inv, Finish
    PROVE  Inv' /\ Abstract!End(sent') /\ sent' \in sent..Len(text)
<1>1. /\ TypeOK /\ status = "open" /\ CleanCut(sent)
      /\ restored = KnownUpTo(sent) /\ hallucinated = UnknownUpTo(sent)
  BY DEF Inv, Finish
<1>2. /\ Len(text) \in Nat /\ sent \in Nat /\ fed \in Nat /\ sent <= fed /\ fed <= Len(text)
  BY <1>1, StreamAssumption DEF TypeOK
<1>3. /\ sent' = fed /\ fed' = fed /\ text' = text /\ status' = "ended" /\ Unmask(sent, fed)
  BY DEF Finish
<1>4. /\ restored' = {o \in Occurrences(0, fed) : o.shape \in Known}
      /\ hallucinated' = {o.shape : o \in {q \in Occurrences(0, fed) : q.shape \notin Known}}
      /\ restored' \subseteq Occurrences(0, Len(text)) /\ hallucinated' \subseteq Shapes
  BY <1>1, <1>2, <1>3, UnmaskUpTo
<1>5. TypeOK'
  BY <1>1, <1>2, <1>3, <1>4 DEF TypeOK, Occurrences
<1>6. restored' = KnownUpTo(sent)' /\ hallucinated' = UnknownUpTo(sent)'
  BY <1>3, <1>4 DEF KnownUpTo, UnknownUpTo, Occurrences
<1>7. Abstract!End(sent')
  BY <1>1, <1>3, <1>4 DEF Abstract!End, Abstract!Restorable, Abstract!Occurrences, Occurrences
<1> QED BY <1>2, <1>3, <1>5, <1>6, <1>7 DEF Inv, BoundedCarry

\* The stream breaks off.
LEMMA ProtocolErrorInv ==
    ASSUME Inv, ProtocolError
    PROVE  Inv' /\ Abstract!Fail
<1>1. Inv'
  BY DEF Inv, ProtocolError, TypeOK, KnownUpTo, UnknownUpTo, Occurrences, BoundedCarry
<1>2. Abstract!Fail
  BY DEF ProtocolError, Abstract!Fail
<1> QED BY <1>1, <1>2

\* Nothing changes.
LEMMA StutterInv == Inv /\ UNCHANGED vars => Inv'
BY DEF Inv, vars, TypeOK, KnownUpTo, UnknownUpTo, Occurrences, CleanCut, BoundedCarry

\* Every step keeps the invariant.
LEMMA NextInv == Inv /\ [Next]_vars => Inv'
BY FeedInv, FinishInv, ProtocolErrorInv, StutterInv DEF Next

\* For every answer and every chunking: at the end event the output is that
\* of one unmask_text over the whole answer, the report of hallucinated
\* placeholders is complete, and never more than the buffer is kept back.
THEOREM StreamCorrect == Spec => [](TypeOK /\ EndComplete /\ BoundedCarry)
<1>1. Inv => TypeOK /\ EndComplete /\ BoundedCarry
  BY DEF Inv, EndComplete, KnownUpTo, UnknownUpTo
<1> QED BY <1>1, InitInv, NextInv, PTL DEF Spec

\* The part of StreamCorrect about the carry (streaming.py:89): it is bounded
\* and can only be the head of a placeholder.
THEOREM CarryBounded == Spec => []BoundedCarry
BY StreamCorrect, PTL

\* The carry buffer implements the abstract stream, which knows nothing of
\* chunks and buffers.
THEOREM StreamRefines == Spec => Implements
<1>1. Init => Abstract!Init
  BY DEF Init, Abstract!Init
<1>2. Inv /\ [Next]_vars => [Abstract!Next]_(Abstract!vars)
  <2> SUFFICES ASSUME Inv, [Next]_vars PROVE Abstract!Next \/ UNCHANGED Abstract!vars
    OBVIOUS
  <2>1. ASSUME NEW n \in 1..Len(text), Feed(n) PROVE Abstract!Next
    BY <2>1, FeedInv DEF Abstract!Next
  <2>2. CASE Finish
    BY <2>2, FinishInv DEF Abstract!Next
  <2>3. CASE ProtocolError
    BY <2>3, ProtocolErrorInv DEF Abstract!Next
  <2>4. CASE UNCHANGED vars
    BY <2>4 DEF vars, Abstract!vars
  <2> QED BY <2>1, <2>2, <2>3, <2>4 DEF Next
<1> QED BY <1>1, <1>2, InitInv, NextInv, PTL DEF Spec, Implements, Abstract!Spec
----------------------------------------------------------------------------
(* The plugin's buffer in front of the sidecar's (RestoreStream).          *)

\* How much of the posted chunks the sidecar has been fed.
TakenUpTo == IF taken = 0 THEN 0 ELSE cuts[taken]

\* The chunks of the request grow, within what the source has delivered.
CutsInv ==
    /\ read \in 0..Len(text)
    /\ cuts \in Seq(Nat)
    /\ taken \in 0..Len(cuts)
    /\ \A i \in DOMAIN cuts : cuts[i] \in 1..read
    /\ \A i, j \in DOMAIN cuts : i < j => cuts[i] < cuts[j]
    /\ phase \in {"direct", "posting", "posted"}

\* The request is half duplex: the sidecar is fed nothing before the body is
\* complete, then chunk after chunk of it, and ends after the last.
DuplexInv ==
    /\ phase = "posting" => /\ taken = 0 /\ fed = 0 /\ status # "ended"
                            /\ CleanCut(Posted)
    /\ phase = "posted" => /\ fed = TakenUpTo /\ Posted = read
                           /\ status = "ended" => taken = Len(cuts)

\* The inductive invariant of the pair.
RestoreInv == Inv /\ CutsInv /\ DuplexInv /\ WireCutsClean

\* What Posted is of a body that grew by one chunk, or not.
LEMMA PostEffect ==
    ASSUME CutsInv, Len(text) \in Nat, NEW b \in Nat, NEW r \in 0..Len(text),
           read <= r, Posted <= b, b <= r, Post(b)
    PROVE  /\ cuts' \in Seq(Nat)
           /\ Len(cuts) <= Len(cuts')
           /\ Posted' = b
           /\ \A i \in DOMAIN cuts' : cuts'[i] \in 1..r
           /\ \A i, j \in DOMAIN cuts' : i < j => cuts'[i] < cuts'[j]
           /\ \A i \in DOMAIN cuts' : \/ i \in DOMAIN cuts /\ cuts'[i] = cuts[i]
                                      \/ i = Len(cuts') /\ cuts'[i] = b
<1>1. /\ cuts \in Seq(Nat) /\ \A i \in DOMAIN cuts : cuts[i] \in 1..read
      /\ \A i, j \in DOMAIN cuts : i < j => cuts[i] < cuts[j]
      /\ read \in Nat
  BY DEF CutsInv
<1>2. /\ Posted \in Nat
      /\ \A i \in DOMAIN cuts : cuts[i] <= Posted
  <2>1. CASE cuts = <<>>
    BY <2>1 DEF Posted
  <2>2. CASE cuts # <<>>
    <3>1. Posted = cuts[Len(cuts)] /\ Len(cuts) \in DOMAIN cuts
      BY <1>1, <2>2 DEF Posted
    <3>2. \A i \in DOMAIN cuts : i < Len(cuts) \/ i = Len(cuts)
      BY <1>1
    <3> QED BY <1>1, <3>1, <3>2
  <2> QED BY <2>1, <2>2
<1>3. CASE b > Posted
  <2>1. cuts' = Append(cuts, b)
    BY <1>3 DEF Post
  <2>2. /\ cuts' \in Seq(Nat) /\ Len(cuts') = Len(cuts) + 1 /\ DOMAIN cuts' = 1..(Len(cuts) + 1)
        /\ cuts' # <<>> /\ cuts'[Len(cuts')] = b
        /\ \A i \in DOMAIN cuts' : i # Len(cuts') => i \in DOMAIN cuts /\ cuts'[i] = cuts[i]
    BY <1>1, <2>1, SMTT(20)
  <2>3. Posted' = b
    BY <2>2 DEF Posted
  <2>4. \A i \in DOMAIN cuts' : cuts'[i] \in 1..r
    BY <1>1, <1>2, <1>3, <2>2, SMTT(20)
  <2>5. ASSUME NEW i \in DOMAIN cuts', NEW j \in DOMAIN cuts', i < j
        PROVE  cuts'[i] < cuts'[j]
    <3>1. i # Len(cuts') /\ i \in DOMAIN cuts /\ cuts'[i] = cuts[i]
      BY <1>1, <2>2, <2>5, SMTT(20)
    <3>2. CASE j = Len(cuts')
      BY <1>1, <1>2, <1>3, <2>2, <3>1, <3>2
    <3>3. CASE j # Len(cuts')
      BY <1>1, <2>2, <2>5, <3>1, <3>3
    <3> QED BY <3>2, <3>3
  <2> QED BY <1>1, <2>2, <2>3, <2>4, <2>5
<1>4. CASE ~(b > Posted)
  <2>1. cuts' = cuts /\ Posted = b
    BY <1>2, <1>4 DEF Post
  <2> QED BY <1>1, <2>1 DEF Posted
<1> QED BY <1>3, <1>4

\* A cut is clean for the plugin when it is clean for the sidecar: both look for
\* the same placeholders.
LEMMA WireCut == \A c : Abstract!CleanCut(c) <=> CleanCut(c)
BY DEF Abstract!CleanCut, Abstract!Occurrences, CleanCut, Occurrences

\* A chunk of the model arrives: the plugin posts up to a clean cut.
LEMMA SourceChunkInv ==
    ASSUME RestoreInv, NEW n \in 1..Len(text), SourceChunk(n)
    PROVE  RestoreInv'
<1> DEFINE b == Boundary(Posted, read + n)
<1>1. /\ Inv /\ CutsInv /\ DuplexInv /\ WireCutsClean /\ TypeOK
  BY DEF RestoreInv, Inv
<1>2. /\ phase = "posting" /\ status = "open" /\ read + n <= Len(text)
      /\ read' = read + n /\ Post(b) /\ UNCHANGED <<vars, phase, taken>>
  BY DEF SourceChunk
<1>3. /\ text \in Answers /\ Len(text) \in Nat /\ read \in Nat /\ n \in Nat
  BY <1>1, StreamAssumption DEF TypeOK, CutsInv
<1>4. Posted \in 0..read /\ CleanCut(Posted)
  <2>1. cuts # <<>> => Len(cuts) \in DOMAIN cuts
    BY <1>1 DEF CutsInv
  <2> QED BY <1>1, <1>2, <1>3, <2>1 DEF CutsInv, DuplexInv, Posted
<1>5. b \in Posted..(read + n) /\ CleanCut(b)
  BY <1>2, <1>3, <1>4, BoundaryClean
<1> HIDE DEF b
<1>6. /\ cuts' \in Seq(Nat) /\ Len(cuts) <= Len(cuts') /\ Posted' = b
      /\ \A i \in DOMAIN cuts' : cuts'[i] \in 1..(read + n)
      /\ \A i, j \in DOMAIN cuts' : i < j => cuts'[i] < cuts'[j]
      /\ \A i \in DOMAIN cuts' : \/ i \in DOMAIN cuts /\ cuts'[i] = cuts[i]
                                 \/ i = Len(cuts') /\ cuts'[i] = b
  <2>1. /\ b \in Nat /\ read + n \in 0..Len(text) /\ read <= read + n
        /\ Posted <= b /\ b <= read + n
    BY <1>2, <1>3, <1>4, <1>5
  <2> QED BY <1>1, <1>2, <1>3, <2>1, PostEffect
<1>7. Inv'
  BY <1>1, <1>2, StutterInv
<1>8. text' = text /\ status' = status /\ fed' = fed
  BY <1>2 DEF vars
<1>9. CutsInv'
  BY <1>1, <1>2, <1>3, <1>6, <1>8 DEF CutsInv
<1>10. DuplexInv'
  <2>1. CleanCut(Posted)'
    BY <1>5, <1>6, <1>8 DEF CleanCut, Occurrences
  <2> QED BY <1>1, <1>2, <1>8, <2>1 DEF DuplexInv
<1>11. WireCutsClean'
  <2>1. \A i \in DOMAIN cuts' : CleanCut(cuts'[i])
    BY <1>1, <1>2, <1>5, <1>6, WireCut DEF WireCutsClean
  <2> QED BY <1>8, <2>1
          DEF WireCutsClean, Abstract!CleanCut, Abstract!Occurrences, CleanCut, Occurrences
<1> QED BY <1>7, <1>9, <1>10, <1>11 DEF RestoreInv

\* The source ends: the plugin posts its carry, and the body of the request is
\* complete.
LEMMA SourceEndsInv ==
    ASSUME RestoreInv, SourceEnds
    PROVE  RestoreInv'
<1>1. /\ Inv /\ CutsInv /\ DuplexInv /\ WireCutsClean /\ TypeOK
  BY DEF RestoreInv, Inv
<1>2. /\ phase = "posting" /\ status = "open" /\ phase' = "posted"
      /\ Post(read) /\ UNCHANGED <<vars, read, taken>>
  BY DEF SourceEnds
<1>3. /\ Len(text) \in Nat /\ read \in Nat /\ read \in 0..Len(text)
  BY <1>1, StreamAssumption DEF TypeOK, CutsInv
<1>4. Posted \in Nat /\ Posted <= read
  <2>1. cuts # <<>> => Len(cuts) \in DOMAIN cuts
    BY <1>1 DEF CutsInv
  <2> QED BY <1>1, <1>3, <2>1 DEF CutsInv, Posted
<1>5. /\ cuts' \in Seq(Nat) /\ Len(cuts) <= Len(cuts') /\ Posted' = read
      /\ \A i \in DOMAIN cuts' : cuts'[i] \in 1..read
      /\ \A i, j \in DOMAIN cuts' : i < j => cuts'[i] < cuts'[j]
      /\ \A i \in DOMAIN cuts' : \/ i \in DOMAIN cuts /\ cuts'[i] = cuts[i]
                                 \/ i = Len(cuts') /\ cuts'[i] = read
  BY <1>1, <1>2, <1>3, <1>4, PostEffect
<1>6. Inv'
  BY <1>1, <1>2, StutterInv
<1>7. text' = text /\ status' = status /\ fed' = fed
  BY <1>2 DEF vars
<1>8. CutsInv'
  BY <1>1, <1>2, <1>3, <1>5, <1>7 DEF CutsInv
<1>9. DuplexInv'
  BY <1>1, <1>2, <1>5, <1>7 DEF DuplexInv, TakenUpTo
<1>10. WireCutsClean'
  <2>1. \A i \in DOMAIN cuts' : CleanCut(cuts'[i]) \/ (i = Len(cuts') /\ cuts'[i] = read)
    BY <1>1, <1>2, <1>5, WireCut DEF WireCutsClean
  <2> QED BY <1>2, <1>7, <2>1
          DEF WireCutsClean, Abstract!CleanCut, Abstract!Occurrences, CleanCut, Occurrences
<1> QED BY <1>6, <1>8, <1>9, <1>10 DEF RestoreInv

\* An action of the sidecar keeps what is known of the request.
LEMMA RequestKept ==
    ASSUME CutsInv, WireCutsClean, text' = text, UNCHANGED <<phase, read, cuts>>,
           taken' \in 0..Len(cuts)
    PROVE  CutsInv' /\ WireCutsClean'
<1>1. CutsInv'
  BY DEF CutsInv
<1>2. WireCutsClean'
  BY DEF WireCutsClean, Abstract!CleanCut, Abstract!Occurrences
<1> QED BY <1>1, <1>2

\* The request fails, and the stream with it.
LEMMA ClientFailsInv ==
    ASSUME RestoreInv, ClientFails
    PROVE  RestoreInv' /\ ProtocolError
<1>1. /\ Inv /\ CutsInv /\ DuplexInv /\ WireCutsClean
  BY DEF RestoreInv
<1>2. ProtocolError /\ UNCHANGED client
  BY DEF ClientFails, ProtocolError
<1>3. Inv'
  BY <1>1, <1>2, ProtocolErrorInv
<1>4. CutsInv' /\ WireCutsClean'
  BY <1>1, <1>2, RequestKept DEF ProtocolError, client, CutsInv
<1>5. DuplexInv'
  BY <1>1, <1>2
     DEF DuplexInv, ProtocolError, client, Posted, TakenUpTo, CleanCut, Occurrences
<1> QED BY <1>2, <1>3, <1>4, <1>5 DEF RestoreInv

\* The sidecar is fed the next chunk of the body, which is not empty.
LEMMA AnswerChunkFeeds ==
    ASSUME RestoreInv, AnswerChunk
    PROVE  \E n \in 1..Len(text) : Feed(n) /\ fed + n = cuts[taken + 1]
<1> DEFINE n == cuts[taken + 1] - fed
<1>1. /\ Inv /\ CutsInv /\ DuplexInv /\ TypeOK
  BY DEF RestoreInv, Inv
<1>2. phase = "posted" /\ taken < Len(cuts) /\ Feed(n)
  BY DEF AnswerChunk
<1>3. Len(text) \in Nat /\ read \in 0..Len(text) /\ fed \in Nat
  BY <1>1, StreamAssumption DEF TypeOK, CutsInv
<1>4. /\ taken \in Nat /\ taken + 1 \in DOMAIN cuts
      /\ taken # 0 => taken \in DOMAIN cuts
      /\ \A i \in DOMAIN cuts : cuts[i] \in 1..read
  BY <1>1, <1>2 DEF CutsInv
<1>5. fed = TakenUpTo
  BY <1>1, <1>2 DEF DuplexInv
<1>6. fed < cuts[taken + 1]
  <2>1. CASE taken = 0
    BY <1>3, <1>4, <1>5, <2>1 DEF TakenUpTo
  <2>2. CASE taken # 0
    BY <1>1, <1>4, <1>5, <2>2 DEF TakenUpTo, CutsInv
  <2> QED BY <2>1, <2>2
<1>7. n \in 1..Len(text) /\ fed + n = cuts[taken + 1]
  BY <1>3, <1>4, <1>6
<1> QED BY <1>2, <1>7

\* The sidecar takes the next chunk of the body.
LEMMA AnswerChunkInv ==
    ASSUME RestoreInv, AnswerChunk
    PROVE  RestoreInv'
<1>1. /\ Inv /\ CutsInv /\ DuplexInv /\ WireCutsClean
  BY DEF RestoreInv
<1>2. PICK n \in 1..Len(text) : Feed(n) /\ fed + n = cuts[taken + 1]
  BY AnswerChunkFeeds
<1>3. /\ phase = "posted" /\ taken < Len(cuts) /\ taken' = taken + 1
      /\ UNCHANGED <<phase, read, cuts>>
  BY DEF AnswerChunk
<1>4. Inv' /\ text' = text /\ status' = "open" /\ fed' = cuts[taken + 1]
  BY <1>1, <1>2, FeedInv DEF Feed
<1>5. taken' \in 0..Len(cuts) /\ taken' # 0
  BY <1>1, <1>3 DEF CutsInv
<1>6. CutsInv' /\ WireCutsClean'
  BY <1>1, <1>3, <1>4, <1>5, RequestKept
<1>7. DuplexInv'
  BY <1>1, <1>3, <1>4, <1>5 DEF DuplexInv, TakenUpTo, Posted
<1> QED BY <1>4, <1>6, <1>7 DEF RestoreInv

\* It has taken the last one and flushes its carry.
LEMMA AnswerEndInv ==
    ASSUME RestoreInv, AnswerEnd
    PROVE  RestoreInv'
<1>1. /\ Inv /\ CutsInv /\ DuplexInv /\ WireCutsClean
  BY DEF RestoreInv
<1>2. phase = "posted" /\ taken = Len(cuts) /\ Finish /\ UNCHANGED <<phase, read, cuts, taken>>
  BY DEF AnswerEnd, client
<1>3. Inv' /\ text' = text /\ fed' = fed
  BY <1>1, <1>2, FinishInv DEF Finish
<1>4. CutsInv' /\ WireCutsClean'
  BY <1>1, <1>2, <1>3, RequestKept DEF CutsInv
<1>5. DuplexInv'
  BY <1>1, <1>2, <1>3 DEF DuplexInv, TakenUpTo, Posted
<1> QED BY <1>3, <1>4, <1>5 DEF RestoreInv

\* Without the plugin the sidecar is fed directly.
LEMMA DirectClientInv ==
    ASSUME RestoreInv, DirectClient
    PROVE  RestoreInv'
<1>1. /\ Inv /\ CutsInv /\ DuplexInv /\ WireCutsClean
  BY DEF RestoreInv
<1>2. phase = "direct" /\ Next /\ UNCHANGED <<phase, read, cuts, taken>>
  BY DEF DirectClient, client
<1>3. Inv' /\ text' = text
  BY <1>1, <1>2, NextInv DEF Next, Feed, Finish, ProtocolError
<1>4. CutsInv' /\ WireCutsClean'
  BY <1>1, <1>2, <1>3, RequestKept DEF CutsInv
<1>5. DuplexInv'
  BY <1>2 DEF DuplexInv
<1> QED BY <1>3, <1>4, <1>5 DEF RestoreInv

\* The invariant of the pair holds at first.
LEMMA RestoreInitInv == RestoreInit => RestoreInv
<1> SUFFICES ASSUME RestoreInit PROVE RestoreInv
  OBVIOUS
<1>1. Init /\ Inv
  BY InitInv DEF RestoreInit
<1>2. Len(text) \in Nat /\ TypeOK /\ CleanCut(sent) /\ sent = 0
  BY <1>1, StreamAssumption DEF Init, Inv
<1>3. CutsInv
  BY <1>2 DEF RestoreInit, CutsInv
<1>4. Posted = 0
  BY DEF RestoreInit, Posted
<1>5. DuplexInv
  BY <1>1, <1>2, <1>4 DEF RestoreInit, DuplexInv, Init
<1>6. WireCutsClean
  BY DEF RestoreInit, WireCutsClean
<1> QED BY <1>1, <1>3, <1>5, <1>6 DEF RestoreInv

\* Nothing changes.
LEMMA RestoreStutter == RestoreInv /\ UNCHANGED allVars => RestoreInv'
<1> SUFFICES ASSUME RestoreInv, UNCHANGED allVars PROVE RestoreInv'
  OBVIOUS
<1>1. UNCHANGED vars /\ UNCHANGED <<phase, read, cuts, taken>>
  BY DEF allVars, client
<1>2. Inv' /\ text' = text /\ fed' = fed /\ status' = status
  BY <1>1, StutterInv DEF RestoreInv, vars
<1>3. CutsInv' /\ WireCutsClean'
  BY <1>1, <1>2, RequestKept DEF RestoreInv, CutsInv
<1>4. DuplexInv'
  BY <1>1, <1>2 DEF RestoreInv, DuplexInv, TakenUpTo, Posted, CleanCut, Occurrences
<1> QED BY <1>2, <1>3, <1>4 DEF RestoreInv

\* Every step of the pair keeps its invariant.
LEMMA RestoreNextInv == RestoreInv /\ [RestoreNext]_allVars => RestoreInv'
BY SourceChunkInv, SourceEndsInv, ClientFailsInv, AnswerChunkInv, AnswerEndInv,
   DirectClientInv, RestoreStutter DEF RestoreNext

\* It holds in every state.
LEMMA RestoreSound == RestoreSpec => []RestoreInv
BY RestoreInitInv, RestoreNextInv, PTL DEF RestoreSpec

\* Whatever the chunks of the model and however long the placeholders that
\* the buffer admits, no posted chunk ends inside a placeholder, unless the
\* answer itself breaks off there (stream-restorer.ts:11-13).
THEOREM WireClean == RestoreSpec => []WireCutsClean
<1>1. RestoreInv => WireCutsClean
  BY DEF RestoreInv
<1> QED BY <1>1, RestoreSound, PTL

\* A response that ended has shown everything the source delivered: neither
\* buffer swallows its carry (stream-restorer.ts, finish).
THEOREM NothingSwallowed == RestoreSpec => []SourceComplete
<1>1. RestoreInv => SourceComplete
  <2> SUFFICES ASSUME RestoreInv, phase = "posted", status = "ended" PROVE sent = read
    BY DEF SourceComplete
  <2>1. fed = TakenUpTo /\ Posted = read /\ taken = Len(cuts) /\ sent = fed
    BY DEF RestoreInv, DuplexInv, Inv
  <2>2. cuts \in Seq(Nat)
    BY DEF RestoreInv, CutsInv
  <2> QED BY <2>1, <2>2 DEF TakenUpTo, Posted
<1> QED BY <1>1, RestoreSound, PTL

\* With the plugin in front, the sidecar's unmasker still takes only steps of
\* its own specification, so all that is proved of that holds of the pair:
\* the pair implements the abstract stream.
THEOREM PluginRefines == RestoreSpec => Spec /\ Implements
<1>1. RestoreInit => Init
  BY DEF RestoreInit
<1>2. RestoreInv /\ [RestoreNext]_allVars => [Next]_vars
  <2> SUFFICES ASSUME RestoreInv, [RestoreNext]_allVars PROVE Next \/ UNCHANGED vars
    OBVIOUS
  <2>1. ASSUME NEW n \in 1..Len(text), SourceChunk(n) PROVE UNCHANGED vars
    BY <2>1 DEF SourceChunk
  <2>2. CASE SourceEnds
    BY <2>2 DEF SourceEnds
  <2>3. CASE ClientFails
    BY <2>3, ClientFailsInv DEF Next
  <2>4. CASE AnswerChunk
    BY <2>4, AnswerChunkFeeds DEF Next
  <2>5. CASE AnswerEnd
    BY <2>5 DEF AnswerEnd, Next
  <2>6. CASE DirectClient
    BY <2>6 DEF DirectClient
  <2>7. CASE UNCHANGED allVars
    BY <2>7 DEF allVars
  <2> QED BY <2>1, <2>2, <2>3, <2>4, <2>5, <2>6, <2>7 DEF RestoreNext
<1>3. RestoreSpec => Spec
  BY <1>1, <1>2, RestoreSound, PTL DEF RestoreSpec, Spec
<1> QED BY <1>3, StreamRefines, PTL
=============================================================================
