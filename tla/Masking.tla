------------------------------ MODULE Masking ------------------------------
(***************************************************************************)
(* The detection and numbering half of the anonymizer sidecar: what        *)
(* _mask_with_policy of pipeline.py does to one text.  A text is a         *)
(* sequence of tokens; the ones that matter are the spans a detector may   *)
(* report ("surface"), the placeholders <TYPE_N> ("ph") and the            *)
(* placeholders whose "<" has been made fullwidth ("defanged").  Plain     *)
(* words between them are left out: no operation looks at them.            *)
(***************************************************************************)
EXTENDS Naturals, Sequences, FiniteSets

CONSTANTS
    Surfaces,   \* the strings that occur in users' texts and may be PII
    Matches,    \* s |-> the entries of _PATTERNS whose regex matches s, in
                \* priority order, with the verdict of their validator
    Person,     \* s |-> does Natasha report s as a person
    Lemma,      \* s |-> the nominative form Natasha normalises s to
    MaxText     \* the longest text, in tokens

Modes == {"full", "degraded", "emergency"}
Profiles == {"strict", "balanced", "permissive"}

\* The placeholder types the masker emits (_PLACEHOLDER_RE of masker.py).
Types == {"NAME", "EMAIL", "PHONE", "PASSPORT", "INN", "SNILS", "CARD",
          "OGRN", "OGRNIP", "BANK_ACCOUNT"}

ASSUME MaskingAssumption ==
    /\ Matches \in [Surfaces -> Seq([type : Types \ {"NAME"}, valid : BOOLEAN])]
    /\ Person \in [Surfaces -> BOOLEAN]
    /\ Lemma \in [Surfaces -> Surfaces]
    /\ MaxText \in Nat

\* No pattern matches the nominative form of a person's name: every pattern
\* needs a digit or an "@".
ASSUME NamesAreWords == \A s \in Surfaces : Person[s] => Matches[Lemma[s]] = <<>>

----------------------------------------------------------------------------
(* Policy profiles (policy.py).                                            *)

ALL_CATEGORIES ==
    {"PERSON", "EMAIL", "PHONE_RU", "INN", "SNILS", "PASSPORT_RU", "CARD",
     "BANK_ACCOUNT", "ADDRESS_RU", "CAR_PLATE_RU", "OGRN", "OGRNIP", "BIK",
     "URL", "IP", "DOB"}

CRITICAL_CATEGORIES == {"PASSPORT_RU", "SNILS", "INN", "CARD"}

mask_categories == [p \in Profiles |->
    CASE p = "strict"     -> ALL_CATEGORIES
      [] p = "balanced"   -> ALL_CATEGORIES \ {"URL", "IP"}
      [] p = "permissive" -> CRITICAL_CATEGORIES]

\* The policy's spelling of the masker's types, where the two diverge.
CATEGORY_ALIASES == [t \in {"NAME", "PHONE", "PASSPORT"} |->
    CASE t = "NAME"     -> "PERSON"
      [] t = "PHONE"    -> "PHONE_RU"
      [] t = "PASSPORT" -> "PASSPORT_RU"]

IsAllowed(type, profile) ==
    \/ type \in mask_categories[profile]
    \/ /\ type \in DOMAIN CATEGORY_ALIASES
       /\ CATEGORY_ALIASES[type] \in mask_categories[profile]

----------------------------------------------------------------------------
(* Tokens and placeholders.                                                *)

UsedTypes == {"NAME"} \cup {t \in Types : \E s \in Surfaces :
                              \E k \in DOMAIN Matches[s] : Matches[s][k].type = t}

Placeholders == [type : UsedTypes, n : 1..MaxText]

Surface(s)   == [kind |-> "surface", s |-> s]
Ph(p)        == [kind |-> "ph", ph |-> p]
Defanged(p)  == [kind |-> "defanged", ph |-> p]

Tokens == {Surface(s) : s \in Surfaces} \cup {Ph(p) : p \in Placeholders}
            \cup {Defanged(p) : p \in Placeholders}

\* A literal placeholder typed by the user is made unrecognisable first.
Neutralise(tok) == IF tok.kind = "ph" THEN Defanged(tok.ph) ELSE tok

----------------------------------------------------------------------------
(* Detection.                                                              *)

\* What a span is detected as: the first pattern whose validator accepts it
\* (every pattern, when the validators are skipped), else a person unless the
\* NER pass is skipped.
Hits(s, mode) == {k \in DOMAIN Matches[s] :
                     Matches[s][k].valid \/ mode = "emergency"}

TypeIn(s, mode) ==
    IF Hits(s, mode) # {}
      THEN Matches[s][CHOOSE k \in Hits(s, mode) :
                         \A j \in Hits(s, mode) : k <= j].type
      ELSE IF Person[s] /\ mode = "full" THEN "NAME" ELSE "none"

\* Mutant: the policy filter is left out, and what no detector reports with it.
DetectedUnfiltered(text, profile, mode) ==
    {i \in DOMAIN text : text[i].kind = "surface"}

\* The positions of a text that survive the policy filter.
Detected(text, profile, mode) ==
    {i \in DOMAIN text :
        /\ text[i].kind = "surface"
        /\ TypeIn(text[i].s, mode) # "none"
        /\ IsAllowed(TypeIn(text[i].s, mode), profile)}

\* Two surfaces that name the same subject.
SameSubject(a, b) == a = b \/ (Person[a] /\ Person[b] /\ Lemma[a] = Lemma[b])

\* Declensions of one person share a key; any other span is its own key.
CacheKey(s, mode) == IF TypeIn(s, mode) = "NAME" THEN Lemma[s] ELSE s

\* The first position of each key: those that are given a number and a row.
Leaders(text, profile, mode) ==
    {i \in Detected(text, profile, mode) :
        \A j \in Detected(text, profile, mode) :
            j < i => CacheKey(text[j].s, mode) # CacheKey(text[i].s, mode)}

LeaderOf(text, profile, mode, i) ==
    CHOOSE l \in Leaders(text, profile, mode) :
        CacheKey(text[l].s, mode) = CacheKey(text[i].s, mode)

\* Mutant: the counter of a type is not advanced.
NumberStuck(text, profile, mode, l) ==
    Cardinality({k \in Leaders(text, profile, mode) :
                    TypeIn(text[k].s, mode) = TypeIn(text[l].s, mode)})

\* The number of a leader: its rank among the leaders of its type.  The
\* counters start empty on every call.
Number(text, profile, mode, l) ==
    Cardinality({k \in Leaders(text, profile, mode) :
                    /\ k <= l
                    /\ TypeIn(text[k].s, mode) = TypeIn(text[l].s, mode)})

PlaceholderAt(text, profile, mode, i) ==
    LET l == LeaderOf(text, profile, mode, i)
    IN  [type |-> TypeIn(text[l].s, mode), n |-> Number(text, profile, mode, l)]

\* The text that is returned to the caller.
MaskText(text, profile, mode) ==
    [i \in DOMAIN text |->
        IF i \in Detected(text, profile, mode)
          THEN Ph(PlaceholderAt(text, profile, mode, i))
          ELSE Neutralise(text[i])]
============================================================================
