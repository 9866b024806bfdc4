--------------------------- MODULE MaskingProofs ---------------------------
(* Facts about the masking of one text that hold for every text, profile   *)
(* and mode.                                                               *)
EXTENDS Masking, FiniteSetTheorems, TLAPS

\* A text /anonymize can be called with.
Texts == {t \in Seq(Tokens) : Len(t) <= MaxText}

\* A non-empty set of naturals has a least element.
LEMMA MinExists ==
    ASSUME NEW S \in SUBSET Nat, S # {}
    PROVE  \E k \in S : \A j \in S : k <= j
<1> DEFINE R == OpToRel(<, Nat)
<1>1. IsWellFoundedOn(R, Nat)
  BY NatLessThanWellFounded
<1>2. \E x \in S : \A y \in S : ~(<<y, x>> \in R)
  <2> HIDE DEF R
  <2> QED BY <1>1, WFMin
<1>3. PICK x \in S : \A y \in S : ~(<<y, x>> \in R)
  BY <1>2
<1>4. ASSUME NEW y \in S PROVE x <= y
  <2>1. ~(<<y, x>> \in R)
    BY <1>3
  <2>2. ~(y < x)
    BY <2>1 DEF OpToRel
  <2> QED BY <2>2
<1> QED BY <1>4

\* The entries of a list of matches carry types.
LEMMA MatchType ==
    ASSUME NEW q \in Seq([type : Types \ {"NAME"}, valid : BOOLEAN]), NEW k \in DOMAIN q
    PROVE  q[k].type \in Types \ {"NAME"}
<1> DEFINE S == [type : Types \ {"NAME"}, valid : BOOLEAN]
<1>1. q[k] \in S
  <2> HIDE DEF S
  <2> q \in Seq(S)
    BY DEF S
  <2> QED OBVIOUS
<1>2. \A r \in S : r.type \in Types \ {"NAME"}
  OBVIOUS
<1> QED BY <1>1, <1>2

\* A span that a pattern hits is detected as the type of one of the patterns.
LEMMA HitType ==
    ASSUME NEW s \in Surfaces, NEW mode \in Modes, Hits(s, mode) # {}
    PROVE  TypeIn(s, mode) \in UsedTypes \ {"NAME", "none"}
<1>1. Matches[s] \in Seq([type : Types \ {"NAME"}, valid : BOOLEAN])
  BY MaskingAssumption
<1>2. Hits(s, mode) \in SUBSET Nat
  BY <1>1 DEF Hits
<1>3. \E k \in Hits(s, mode) : \A j \in Hits(s, mode) : k <= j
  BY <1>2, MinExists
<1> DEFINE k == CHOOSE k \in Hits(s, mode) : \A j \in Hits(s, mode) : k <= j
<1>4. k \in Hits(s, mode)
  BY <1>3
<1> HIDE DEF k
<1>5. k \in DOMAIN Matches[s]
  BY <1>4 DEF Hits
<1>6. Matches[s][k].type \in Types \ {"NAME"}
  BY <1>1, <1>5, MatchType
<1>7. Matches[s][k].type \in UsedTypes
  BY <1>5, <1>6 DEF UsedTypes
<1>8. TypeIn(s, mode) = Matches[s][k].type
  BY DEF TypeIn, k
<1> QED BY <1>6, <1>7, <1>8 DEF Types

\* A span is detected as one of the types of the instance, or not at all
\* (passes 1 and 2 of _mask_with_policy).
LEMMA TypeInType ==
    ASSUME NEW s \in Surfaces, NEW mode \in Modes
    PROVE  TypeIn(s, mode) \in UsedTypes \cup {"none"}
<1>1. CASE Hits(s, mode) = {}
  BY <1>1 DEF TypeIn, UsedTypes
<1> QED BY <1>1, HitType

\* Every element of a text is a token, and a surface token carries a surface.
LEMMA SurfaceOfToken ==
    ASSUME NEW tok \in Tokens, tok.kind = "surface"
    PROVE  tok.s \in Surfaces /\ tok = Surface(tok.s)
BY DEF Tokens, Surface, Ph, Defanged

\* A detected position holds a surface, detected as a type of the instance.
LEMMA DetectedType ==
    ASSUME NEW text \in Texts, NEW profile \in Profiles, NEW mode \in Modes,
           NEW i \in Detected(text, profile, mode)
    PROVE  /\ i \in 1..MaxText
           /\ i \in DOMAIN text
           /\ text[i].s \in Surfaces
           /\ TypeIn(text[i].s, mode) \in UsedTypes
<1>1. i \in DOMAIN text /\ text[i].kind = "surface" /\ TypeIn(text[i].s, mode) # "none"
  BY DEF Detected
<1>2. i \in 1..MaxText /\ text[i] \in Tokens
  BY <1>1, MaskingAssumption DEF Texts
<1>3. text[i].s \in Surfaces
  BY <1>1, <1>2, SurfaceOfToken
<1> QED BY <1>1, <1>2, <1>3, TypeInType

LEMMA LeadersType ==
    ASSUME NEW text \in Texts, NEW profile \in Profiles, NEW mode \in Modes
    PROVE  /\ Leaders(text, profile, mode) \subseteq Detected(text, profile, mode)
           /\ Leaders(text, profile, mode) \subseteq 1..MaxText
           /\ IsFiniteSet(Leaders(text, profile, mode))
<1>1. Leaders(text, profile, mode) \subseteq Detected(text, profile, mode)
  BY DEF Leaders
<1>2. Leaders(text, profile, mode) \subseteq 1..MaxText
  BY <1>1, DetectedType
<1>3. IsFiniteSet(1..MaxText)
  BY FS_Interval, MaskingAssumption
<1> QED BY <1>1, <1>2, <1>3, FS_Subset

\* Every detected position shares its key with a leader.
LEMMA LeaderOfType ==
    ASSUME NEW text \in Texts, NEW profile \in Profiles, NEW mode \in Modes,
           NEW i \in Detected(text, profile, mode)
    PROVE  /\ LeaderOf(text, profile, mode, i) \in Leaders(text, profile, mode)
           /\ CacheKey(text[LeaderOf(text, profile, mode, i)].s, mode)
                = CacheKey(text[i].s, mode)
<1> DEFINE Same == {j \in Detected(text, profile, mode) :
                       CacheKey(text[j].s, mode) = CacheKey(text[i].s, mode)}
<1>1. Same \in SUBSET Nat /\ Same # {}
  BY DetectedType, MaskingAssumption
<1>2. PICK l \in Same : \A j \in Same : l <= j
  <2> HIDE DEF Same
  <2> QED BY <1>1, MinExists
<1>3. l \in Leaders(text, profile, mode)
  <2>1. ASSUME NEW j \in Detected(text, profile, mode), j < l
        PROVE  CacheKey(text[j].s, mode) # CacheKey(text[l].s, mode)
    <3>1. j \in Nat /\ l \in Nat
      BY <1>1, DetectedType, MaskingAssumption
    <3>2. j \notin Same
      BY <2>1, <3>1, <1>2
    <3> QED BY <3>2
  <2> QED BY <2>1 DEF Leaders
<1> QED BY <1>2, <1>3 DEF LeaderOf

\* Leaders of one key coincide, so a leader is its own leader.
LEMMA LeaderOfLeader ==
    ASSUME NEW text \in Texts, NEW profile \in Profiles, NEW mode \in Modes,
           NEW i \in Leaders(text, profile, mode)
    PROVE  LeaderOf(text, profile, mode, i) = i
<1> DEFINE l == LeaderOf(text, profile, mode, i)
<1>1. i \in Detected(text, profile, mode)
  BY DEF Leaders
<1>2. l \in Leaders(text, profile, mode) /\ CacheKey(text[l].s, mode) = CacheKey(text[i].s, mode)
  BY <1>1, LeaderOfType
<1> HIDE DEF l
<1>3. l \in Detected(text, profile, mode) /\ l \in Nat /\ i \in Nat
  BY <1>1, <1>2, DetectedType, LeadersType
<1>4. ~(l < i) /\ ~(i < l)
  BY <1>1, <1>2, <1>3 DEF Leaders
<1>5. l = i
  BY <1>3, <1>4
<1> QED BY <1>5 DEF l

\* The leaders of l's type up to l: their number is the number l is given.
Ranked(text, profile, mode, l) ==
    {k \in Leaders(text, profile, mode) :
        k <= l /\ TypeIn(text[k].s, mode) = TypeIn(text[l].s, mode)}

\* A number lies between 1 and the length of the longest text.
LEMMA NumberType ==
    ASSUME NEW text \in Texts, NEW profile \in Profiles, NEW mode \in Modes,
           NEW l \in Leaders(text, profile, mode)
    PROVE  Number(text, profile, mode, l) \in 1..MaxText
<1> DEFINE S == Ranked(text, profile, mode, l)
<1>1. S \subseteq 1..MaxText /\ l \in S
  BY LeadersType, MaskingAssumption DEF Ranked
<1>2. IsFiniteSet(1..MaxText) /\ Cardinality(1..MaxText) = MaxText
  BY FS_Interval, MaskingAssumption
<1>3. IsFiniteSet(S) /\ Cardinality(S) <= MaxText
  BY <1>1, <1>2, FS_Subset
<1>4. Cardinality(S) \in Nat
  BY <1>3, FS_CardinalityType
<1>5. Cardinality(S) # 0
  BY <1>1, <1>3, FS_EmptySet
<1>6. Number(text, profile, mode, l) = Cardinality(S)
  BY DEF Number, Ranked
<1> HIDE DEF S
<1> QED BY <1>3, <1>4, <1>5, <1>6, MaskingAssumption

\* Two leaders of one type have different numbers: the counter of a type is
\* advanced for every new key.
LEMMA NumberInjective ==
    ASSUME NEW text \in Texts, NEW profile \in Profiles, NEW mode \in Modes,
           NEW a \in Leaders(text, profile, mode), NEW b \in Leaders(text, profile, mode),
           a < b, TypeIn(text[a].s, mode) = TypeIn(text[b].s, mode)
    PROVE  Number(text, profile, mode, a) # Number(text, profile, mode, b)
<1> DEFINE A == Ranked(text, profile, mode, a)
           B == Ranked(text, profile, mode, b)
<1>1. A \in SUBSET B /\ b \in B /\ b \notin A
  BY LeadersType, MaskingAssumption DEF Ranked
<1>2. IsFiniteSet(B)
  BY LeadersType, FS_Subset DEF Ranked
<1>3. Number(text, profile, mode, a) = Cardinality(A) /\ Number(text, profile, mode, b) = Cardinality(B)
  BY DEF Number, Ranked
<1> HIDE DEF A, B
<1>4. Cardinality(B) = Cardinality(A) => B = A
  BY <1>1, <1>2, FS_Subset
<1> QED BY <1>1, <1>3, <1>4

\* What a detected position is replaced by is a placeholder of the instance.
LEMMA PlaceholderAtType ==
    ASSUME NEW text \in Texts, NEW profile \in Profiles, NEW mode \in Modes,
           NEW i \in Detected(text, profile, mode)
    PROVE  PlaceholderAt(text, profile, mode, i) \in Placeholders
<1> DEFINE l == LeaderOf(text, profile, mode, i)
<1>1. l \in Leaders(text, profile, mode)
  BY LeaderOfType
<1>2. l \in Detected(text, profile, mode)
  BY <1>1, LeadersType
<1>3. TypeIn(text[l].s, mode) \in UsedTypes
  BY <1>2, DetectedType
<1>4. Number(text, profile, mode, l) \in 1..MaxText
  BY <1>1, NumberType
<1> QED BY <1>3, <1>4 DEF PlaceholderAt, Placeholders

\* Two positions are given the same placeholder only if they share a key: no
\* placeholder of a masked text stands for two different subjects, so no row
\* of one call overwrites another row of that call.
THEOREM PlaceholderInjective ==
    ASSUME NEW text \in Texts, NEW profile \in Profiles, NEW mode \in Modes,
           NEW i \in Detected(text, profile, mode), NEW j \in Detected(text, profile, mode),
           PlaceholderAt(text, profile, mode, i) = PlaceholderAt(text, profile, mode, j)
    PROVE  /\ CacheKey(text[i].s, mode) = CacheKey(text[j].s, mode)
           /\ LeaderOf(text, profile, mode, i) = LeaderOf(text, profile, mode, j)
<1> DEFINE a == LeaderOf(text, profile, mode, i)
           b == LeaderOf(text, profile, mode, j)
<1>1. /\ a \in Leaders(text, profile, mode) /\ b \in Leaders(text, profile, mode)
      /\ CacheKey(text[a].s, mode) = CacheKey(text[i].s, mode)
      /\ CacheKey(text[b].s, mode) = CacheKey(text[j].s, mode)
  BY LeaderOfType
<1>2. /\ TypeIn(text[a].s, mode) = TypeIn(text[b].s, mode)
      /\ Number(text, profile, mode, a) = Number(text, profile, mode, b)
  BY DEF PlaceholderAt
<1>3. a \in Nat /\ b \in Nat
  BY <1>1, LeadersType
<1> HIDE DEF a, b
<1>4. ~(a < b) /\ ~(b < a)
  BY <1>1, <1>2, NumberInjective
<1>5. a = b
  BY <1>3, <1>4
<1> QED BY <1>1, <1>5 DEF a, b

\* The masked text is a text.
LEMMA MaskTextType ==
    ASSUME NEW text \in Texts, NEW profile \in Profiles, NEW mode \in Modes
    PROVE  /\ MaskText(text, profile, mode) \in Seq(Tokens)
           /\ DOMAIN MaskText(text, profile, mode) = DOMAIN text
<1> DEFINE m == MaskText(text, profile, mode)
<1>1. ASSUME NEW i \in DOMAIN text PROVE m[i] \in Tokens
  <2>1. CASE i \in Detected(text, profile, mode)
    BY <2>1, PlaceholderAtType DEF MaskText, Tokens
  <2>2. CASE i \notin Detected(text, profile, mode)
    <3>1. text[i] \in Tokens
      BY DEF Texts
    <3>2. Neutralise(text[i]) \in Tokens
      BY <3>1 DEF Neutralise, Tokens, Surface, Ph, Defanged
    <3> QED BY <2>2, <3>2 DEF MaskText
  <2> QED BY <2>1, <2>2
<1>2. DOMAIN text = 1..Len(text) /\ Len(text) \in Nat
  BY DEF Texts
<1>3. m = [i \in 1..Len(text) |-> m[i]]
  BY <1>2 DEF MaskText
<1> HIDE DEF m
<1>4. m \in [1..Len(text) -> Tokens]
  BY <1>1, <1>2, <1>3
<1>5. m \in Seq(Tokens) /\ DOMAIN m = DOMAIN text
  BY <1>2, <1>4
<1> QED BY <1>5 DEF m
============================================================================
