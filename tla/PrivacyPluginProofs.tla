------------------------ MODULE PrivacyPluginProofs ------------------------
(* What the hooks of the privacy plugin keep, for every workspace profile, *)
(* policy file, set of turns, mix of failures and load of the anonymizer:  *)
(* no original that the detectors know reaches the model or the long-term  *)
(* memory, and a tool gets one only when the policy file says so.          *)
EXTENDS PrivacyPlugin, MaskingProofs

-----------------------------------------------------------------------------
(* The policy table.                                                       *)

\* A name that is a prefix of another has fewer characters, or is that name.
LEMMA PrefixCharacters ==
    ASSUME NEW m \in ToolNames, NEW n \in ToolNames, IsPrefix(m, n)
    PROVE  m = n \/ Characters[m] < Characters[n]
BY TableAssumption DEF IsStrictPrefix

\* Two prefixes of one name: the longer one continues the shorter.
LEMMA PrefixesNest ==
    ASSUME NEW m \in ToolNames, NEW n \in ToolNames, NEW name \in ToolNames,
           IsPrefix(m, name), IsPrefix(n, name), Characters[m] >= Characters[n]
    PROVE  IsPrefix(n, m)
<1>1. m \in Seq(STRING) /\ n \in Seq(STRING) /\ name \in Seq(STRING)
  BY TableAssumption
<1>2. /\ Len(m) \in Nat /\ Len(n) \in Nat /\ Len(name) \in Nat
      /\ Len(m) <= Len(name) /\ \A i \in 1..Len(m) : m[i] = name[i]
      /\ Len(n) <= Len(name) /\ \A i \in 1..Len(n) : n[i] = name[i]
  BY <1>1 DEF IsPrefix
<1>3. CASE Len(n) <= Len(m)
  <2>1. SubSeq(n, 1, Len(n)) = SubSeq(m, 1, Len(n))
    BY <1>1, <1>2, <1>3
  <2> QED BY <1>3, <2>1 DEF IsPrefix
<1>4. CASE Len(m) < Len(n)
  <2>1. SubSeq(m, 1, Len(m)) = SubSeq(n, 1, Len(m))
    BY <1>1, <1>2, <1>4
  <2>2. IsPrefix(m, n) /\ m # n
    BY <1>2, <1>4, <2>1 DEF IsPrefix
  <2>3. Characters[m] < Characters[n]
    BY <2>2, PrefixCharacters
  <2>4. Characters[m] \in Nat /\ Characters[n] \in Nat
    BY TableAssumption
  <2> QED BY <2>3, <2>4
<1> QED BY <1>2, <1>3, <1>4

\* Of two patterns that match a name the more specific one, as loadToolPolicies
\* measures it, is the narrower one.
LEMMA SpecificIsNarrow ==
    ASSUME NEW p \in Patterns, NEW q \in Patterns, NEW name \in ToolNames,
           matchPattern(p, name), matchPattern(q, name),
           prefixSpecificity(p) >= prefixSpecificity(q)
    PROVE  Narrower(p, q)
<1>1. \A n \in ToolNames : Characters[n] \in Nat /\ Characters[n] > 0
  BY TableAssumption
<1>2. CASE q.kind = "any"
  BY <1>2 DEF Narrower
<1>3. CASE q.kind = "family"
  <2>1. q.name \in ToolNames /\ IsPrefix(q.name, name)
        /\ prefixSpecificity(q) = Characters[q.name]
    BY <1>3 DEF Patterns, matchPattern, prefixSpecificity
  <2>2. CASE p.kind = "any"
    <3>1. prefixSpecificity(p) = 0
      BY <2>2 DEF prefixSpecificity
    <3> QED BY <1>1, <2>1, <3>1
  <2>3. CASE p.kind = "family"
    <3>1. p.name \in ToolNames /\ IsPrefix(p.name, name)
          /\ prefixSpecificity(p) = Characters[p.name]
      BY <2>3 DEF Patterns, matchPattern, prefixSpecificity
    <3>2. IsPrefix(q.name, p.name)
      BY <2>1, <3>1, PrefixesNest
    <3> QED BY <1>3, <2>3, <3>2 DEF Narrower
  <2>4. CASE p.kind = "exact"
    <3>1. p.name = name
      BY <2>4 DEF matchPattern
    <3> QED BY <1>3, <2>1, <2>4, <3>1 DEF Narrower
  <2> QED BY <2>2, <2>3, <2>4 DEF Patterns
<1>4. CASE q.kind = "exact"
  <2>1. q.name = name /\ prefixSpecificity(q) = Characters[name] + 1000
    BY <1>4 DEF matchPattern, prefixSpecificity
  <2>2. CASE p.kind = "any"
    <3>1. prefixSpecificity(p) = 0
      BY <2>2 DEF prefixSpecificity
    <3> QED BY <1>1, <2>1, <3>1
  <2>3. CASE p.kind = "family"
    <3>1. p.name \in ToolNames /\ IsPrefix(p.name, name)
          /\ prefixSpecificity(p) = Characters[p.name]
      BY <2>3 DEF Patterns, matchPattern, prefixSpecificity
    <3>2. Characters[p.name] <= Characters[name]
      BY <1>1, <3>1, PrefixCharacters
    <3> QED BY <1>1, <2>1, <3>1, <3>2
  <2>4. CASE p.kind = "exact"
    <3>1. p.name = name
      BY <2>4 DEF matchPattern
    <3>2. p = q
      BY <1>4, <2>1, <2>4, <3>1 DEF Patterns
    <3> QED BY <3>2 DEF Narrower
  <2> QED BY <2>2, <2>3, <2>4 DEF Patterns
<1> QED BY <1>2, <1>3, <1>4 DEF Patterns

\* A loaded table lists every entry of the file.
LEMMA OrderCovers ==
    ASSUME NEW s \in Orders(Table), NEW e \in Table
    PROVE  \E i \in DOMAIN s : s[i] = e
<1> DEFINE D == 1..Cardinality(Table)
<1>1. IsFiniteSet(Table) /\ Cardinality(Table) \in Nat
  BY TableAssumption, FS_CardinalityType
<1>2. s \in [D -> Table] /\ \A i, j \in D : i # j => s[i] # s[j]
  BY DEF Orders, SetToSeqs
<1>3. s \in Injection(D, Table)
  BY <1>2 DEF Injection, IsInjective
<1>4. Cardinality(D) = Cardinality(Table)
  BY <1>1, FS_Interval
<1>5. s \in Surjection(D, Table)
  <2> HIDE DEF D
  <2> QED BY <1>1, <1>3, <1>4, FS_Injection
<1> QED BY <1>2, <1>5 DEF Surjection

\* resolvePolicy says what the narrowest entry that matches says, wherever it
\* stands in the file, for every policy file and tool: one it does not deny has
\* an entry that says so (tool-policies.ts:5-11).
THEOREM ResolvesNarrowest ==
    ASSUME NEW es \in Tables, NEW name \in ToolNames, resolvePolicy(es, name) # "deny"
    PROVE  Says(Table, name, resolvePolicy(es, name))
<1> DEFINE M == Matching(es, name)
<1>1. M # {}
  BY DEF resolvePolicy
<1>2. es \in Orders(Table)
  <2>1. CASE es = <<>>
    BY <1>1, <2>1 DEF Matching
  <2> QED BY <2>1 DEF Tables
<1>3. DOMAIN es = 1..Cardinality(Table) /\ \A i \in DOMAIN es : es[i] \in Table
  BY <1>2 DEF Orders, SetToSeqs
<1>4. Cardinality(Table) \in Nat
  BY TableAssumption, FS_CardinalityType
<1>5. M \in SUBSET Nat
  BY <1>3, <1>4 DEF Matching
<1>6. \E i \in M : \A j \in M : i <= j
  <2> HIDE DEF M
  <2> QED BY <1>1, <1>5, MinExists
<1> DEFINE i == CHOOSE i \in M : \A j \in M : i <= j
<1>7. i \in M /\ \A j \in M : i <= j
  BY <1>6
<1>8. resolvePolicy(es, name) = es[i].policy
  BY <1>1 DEF resolvePolicy, FirstMatch
<1> HIDE DEF i
<1>9. i \in DOMAIN es /\ es[i] \in Table /\ matchPattern(es[i].pattern, name)
  BY <1>3, <1>7 DEF Matching
<1>10. ASSUME NEW f \in Table, matchPattern(f.pattern, name)
       PROVE  Narrower(es[i].pattern, f.pattern)
  <2>1. PICK j \in DOMAIN es : es[j] = f
    BY <1>2, OrderCovers
  <2>2. j \in M
    BY <1>10, <2>1 DEF Matching
  <2>3. i <= j /\ i \in Nat /\ j \in Nat
    BY <1>5, <1>7, <2>2
  <2>4. es[i].pattern \in Patterns /\ f.pattern \in Patterns
    BY <1>9, TableAssumption
  <2>5. CASE i = j
    BY <2>1, <2>5 DEF Narrower
  <2>6. CASE i < j
    <3>1. prefixSpecificity(es[i].pattern) >= prefixSpecificity(f.pattern)
      BY <1>2, <1>9, <2>1, <2>6 DEF Orders
    <3> QED BY <1>9, <1>10, <2>4, <3>1, SpecificIsNarrow
  <2> QED BY <2>3, <2>5, <2>6
<1> QED BY <1>8, <1>9, <1>10 DEF Says

-----------------------------------------------------------------------------
(* The inductive invariant.  The three properties speak of what has been   *)
(* sent, given and kept.  They are kept because a hook that goes on has a  *)
(* reply to what it sent, although retries, failures and parallel calls    *)
(* come between; because the model is only ever called with what           *)
(* pre_llm_call has let through; and because pre_tool_call asks for the    *)
(* originals only after it has resolved the policy of that tool.           *)

\* A client call: under way, answered, given up, or not there.
Waiting == [state : {"wait"}, op : {"anonymize", "restore"}, text : Texts,
            profile : Profiles, attempt : 1..maxRetries]
Replied == [state : {"ok"}, text : Texts, found : BOOLEAN]
Failed == [state : {"unavailable", "error"}]
Resting == [state : {"none"}] \cup [state : {"none"}, tool : ToolNames]
Calls == Waiting \cup Replied \cup Failed \cup Resting

\* The types of all variables, the texts of the calls included.
CallTypes ==
    /\ profile \in Profiles
    /\ entries \in Tables
    /\ rows \in [Placeholders -> Surfaces \cup {"none"}]
    /\ pc \in [Turns -> Hooks \cup {"idle", "assembling", "model", "done", "aborted"}]
    /\ text \in [Turns -> Texts]
    /\ call \in [Turns -> [Slots -> Calls]]
    /\ late \subseteq [turn : Turns, slot : Slots, call : Waiting]
    /\ usedTool \subseteq Turns /\ degraded \subseteq Turns
    /\ seen \in [Turns -> SUBSET Surfaces] /\ shown \in [Turns -> SUBSET Surfaces]
    /\ kept \subseteq [turn : Turns, s : Surfaces]
    /\ given \subseteq [turn : Turns, tool : ToolNames, trust : {"trusted", "untrusted"},
                         s : Surfaces]

\* The call has a text: what it sends, or what came back.
HasText(c) == c.state \in {"wait", "ok"}

\* How long a turn's prompt x may be at the label l, and the texts of its calls c.
SizeInv(t, l, x, c, used) ==
    /\ Len(x) \in 1..(Len(UserText[t]) + 3)
    /\ ~used /\ l \in {"idle", "pre_user_message", "assembling"} => Len(x) <= Len(UserText[t])
    /\ l \in {"pre_tool_call", "post_tool_result"} => used
    /\ ~used \/ l \in {"pre_tool_call", "post_tool_result"} => Len(x) <= Len(UserText[t]) + 1
    /\ l = "post_tool_result" => \A i \in Slots : HasText(c[i]) => Len(c[i].text) = 1
    /\ l \in Hooks \ {"post_tool_result"} => (HasText(c[1]) => Len(c[1].text) = Len(x))

\* The hooks that check a text before they let it through have sent that text,
\* and a reply of the full mode says what was found in it.
CheckInv(l, x, c, deg) ==
    l \in {"pre_llm_call", "pre_memory_write"} =>
        /\ c[1].state = "wait" =>
              c[1].op = "anonymize" /\ c[1].profile = DefaultProfile /\ c[1].text = x
        /\ c[1].state = "ok" =>
              \/ deg
              \/ /\ c[1].found <=> Detected(x, DefaultProfile, "full") # {}
                 /\ c[1].text = MaskText(x, DefaultProfile, "full")

\* The model's prompt is what it was sent, and the originals are asked for
\* only on behalf of a tool whose policy is to get them.
ModelInv(l, x, c, sn) ==
    /\ l = "model" => Originals(x) \subseteq sn
    /\ l = "pre_tool_call" =>
          \E tool \in ToolNames : /\ c[2] = [state |-> "none", tool |-> tool]
                                 /\ resolvePolicy(entries, tool) = "deanonymize"

\* What is known of one turn.
TurnInv(t, l, x, c, used, deg, sn) ==
    SizeInv(t, l, x, c, used) /\ CheckInv(l, x, c, deg) /\ ModelInv(l, x, c, sn)

\* The same of all turns.
TurnsInv == \A t \in Turns : TurnInv(t, pc[t], text[t], call[t], t \in usedTool,
                                     t \in degraded, seen[t])

\* ModelSeesNoOriginal without the types.
SentInv ==
    profile # "permissive" => \A t \in Turns : (\E s \in seen[t] : Known(s)) => t \in degraded

\* The inductive invariant.
IInv == CallTypes /\ TurnsInv /\ SentInv /\ MemoryHoldsNoOriginal /\ OriginalsOnlyToTrusted

-----------------------------------------------------------------------------
(* What the anonymizer does to a text.                                     *)

\* A text is a bounded sequence of tokens.
LEMMA TextFacts ==
    ASSUME NEW x \in Texts
    PROVE  /\ x \in Seq(Tokens) /\ Len(x) \in Nat /\ Len(x) <= MaxText
           /\ DOMAIN x = 1..Len(x)
           /\ \A i \in DOMAIN x : x[i] \in Tokens
BY DEF Texts

\* Two texts in one.
LEMMA Joined ==
    ASSUME NEW x \in Seq(Tokens), NEW y \in Seq(Tokens)
    PROVE  /\ x \o y \in Seq(Tokens)
           /\ Len(x) \in Nat /\ Len(y) \in Nat /\ Len(x \o y) = Len(x) + Len(y)
OBVIOUS

\* The originals of a text are surfaces.
LEMMA OriginalsType ==
    ASSUME NEW x \in Texts
    PROVE  Originals(x) \in SUBSET Surfaces
<1>1. ASSUME NEW i \in DOMAIN x, x[i].kind = "surface" PROVE x[i].s \in Surfaces
  BY <1>1, TextFacts, SurfaceOfToken
<1> QED BY <1>1 DEF Originals

\* A masked text is as long as the original.
LEMMA MaskedText ==
    ASSUME NEW x \in Texts, NEW prof \in Profiles, NEW mode \in Modes
    PROVE  MaskText(x, prof, mode) \in Texts /\ Len(MaskText(x, prof, mode)) = Len(x)
<1> DEFINE m == MaskText(x, prof, mode)
<1>1. m \in Seq(Tokens) /\ DOMAIN m = DOMAIN x
  BY MaskTextType
<1>2. Len(m) = Len(x)
  <2> HIDE DEF m
  <2> QED BY <1>1, TextFacts
<1> QED BY <1>1, <1>2, TextFacts DEF Texts

\* So is a restored one.
LEMMA RestoredText ==
    ASSUME CallTypes, NEW x \in Texts
    PROVE  Restored(x) \in Texts /\ Len(Restored(x)) = Len(x)
<1> DEFINE m == Restored(x)
<1>1. ASSUME NEW i \in DOMAIN x PROVE m[i] \in Tokens
  <2>1. x[i] \in Tokens
    BY TextFacts
  <2>2. CASE x[i].kind = "ph" /\ rows[x[i].ph] # "none"
    <3>1. x[i].ph \in Placeholders
      BY <2>1, <2>2 DEF Tokens, Surface, Ph, Defanged
    <3>2. rows[x[i].ph] \in Surfaces
      BY <2>2, <3>1 DEF CallTypes
    <3> QED BY <2>2, <3>2 DEF Restored, Tokens
  <2>3. CASE ~(x[i].kind = "ph" /\ rows[x[i].ph] # "none")
    BY <2>1, <2>3 DEF Restored
  <2> QED BY <2>2, <2>3
<1>2. DOMAIN m = 1..Len(x)
  BY TextFacts DEF Restored
<1>3. m = [i \in 1..Len(x) |-> m[i]]
  BY TextFacts DEF Restored
<1> HIDE DEF m
<1>4. m \in Seq(Tokens) /\ Len(m) = Len(x)
  <2>1. Len(x) \in Nat /\ DOMAIN x = 1..Len(x)
    BY TextFacts
  <2>2. m \in [1..Len(x) -> Tokens]
    BY <1>1, <1>3, <2>1
  <2> QED BY <2>1, <2>2
<1> QED BY <1>4, TextFacts DEF Texts, m

\* The profile that every hook but pre_user_message sends masks every type.
LEMMA DefaultMasksAll ==
    ASSUME NEW type \in Types
    PROVE  IsAllowed(type, DefaultProfile)
BY DEF IsAllowed, DefaultProfile, mask_categories, ALL_CATEGORIES, CATEGORY_ALIASES, Types,
       Profiles

\* In the full mode every original the detectors know is found.
LEMMA KnownDetected ==
    ASSUME NEW x \in Texts, NEW i \in DOMAIN x, x[i].kind = "surface", Known(x[i].s)
    PROVE  i \in Detected(x, DefaultProfile, "full")
<1>1. x[i].s \in Surfaces
  BY TextFacts, SurfaceOfToken
<1>2. TypeIn(x[i].s, "full") \in UsedTypes \cup {"none"} /\ UsedTypes \subseteq Types
  BY <1>1, TypeInType DEF Modes, UsedTypes, Types
<1>3. TypeIn(x[i].s, "full") # "none"
  BY DEF Known
<1> QED BY <1>2, <1>3, DefaultMasksAll DEF Detected

\* A reply of the full mode: without a find the text holds no original that
\* the detectors know, and the masked text never does.
LEMMA FullReply ==
    ASSUME NEW x \in Texts
    PROVE  /\ \A s \in Originals(MaskText(x, DefaultProfile, "full")) : ~Known(s)
           /\ Detected(x, DefaultProfile, "full") = {} => \A s \in Originals(x) : ~Known(s)
<1> DEFINE m == MaskText(x, DefaultProfile, "full")
<1>1. ASSUME NEW i \in DOMAIN m, m[i].kind = "surface" PROVE ~Known(m[i].s)
  <2>1. i \in DOMAIN x
    BY DEF MaskText
  <2>2. i \notin Detected(x, DefaultProfile, "full")
    <3>1. CASE i \in Detected(x, DefaultProfile, "full")
      <4>1. m[i].kind = "ph"
        BY <2>1, <3>1 DEF MaskText, Ph
      <4> QED BY <1>1, <4>1
    <3> QED BY <3>1
  <2>3. m[i] = Neutralise(x[i])
    BY <2>1, <2>2 DEF MaskText
  <2>4. m[i] = x[i]
    <3>1. CASE x[i].kind = "ph"
      BY <1>1, <2>3, <3>1 DEF Neutralise, Defanged
    <3> QED BY <2>3, <3>1 DEF Neutralise
  <2> QED BY <1>1, <2>1, <2>2, <2>4, KnownDetected
<1>2. \A s \in Originals(m) : ~Known(s)
  <2> HIDE DEF m
  <2> QED BY <1>1 DEF Originals
<1>3. ASSUME Detected(x, DefaultProfile, "full") = {}, NEW s \in Originals(x) PROVE ~Known(s)
  BY <1>3, KnownDetected DEF Originals
<1> QED BY <1>2, <1>3

\* The rows after a text was masked.
LEMMA StoredType ==
    ASSUME CallTypes, NEW x \in Texts, NEW prof \in Profiles, NEW mode \in Modes
    PROVE  Stored(x, prof, mode) \in [Placeholders -> Surfaces \cup {"none"}]
<1> DEFINE number == [l \in Leaders(x, prof, mode) |-> PlaceholderAt(x, prof, mode, l)]
           owner(p) == CHOOSE l \in DOMAIN number : number[l] = p
<1>1. ASSUME NEW p \in Range(number) PROVE x[owner(p)].s \in Surfaces
  <2>1. \E l \in DOMAIN number : number[l] = p
    BY DEF Range
  <2>2. owner(p) \in DOMAIN number
    BY <2>1
  <2>3. owner(p) \in Leaders(x, prof, mode)
    BY <2>2
  <2>4. owner(p) \in Detected(x, prof, mode)
    BY <2>3, LeadersType
  <2> HIDE DEF owner
  <2> QED BY <2>4, DetectedType
<1> QED BY <1>1 DEF Stored, CallTypes

-----------------------------------------------------------------------------
(* The client's calls.                                                     *)

\* The calls the client makes and the ways they end.
LEMMA CallFacts ==
    /\ \A x \in Texts, prof \in Profiles, op \in {"anonymize", "restore"} :
          Post(op, x, prof) \in Waiting
    /\ \A x \in Texts, found \in BOOLEAN : Reply(x, found) \in Replied
    /\ \A error \in {"unavailable", "error"} : Failure(error) \in Failed
    /\ NoCall \in Resting
    /\ DefaultProfile \in Profiles
BY PluginAssumption DEF Post, Waiting, Reply, Replied, Failure, Failed, NoCall, Resting,
       DefaultProfile, Profiles

\* The states of a call tell its kind.
LEMMA CallKinds ==
    ASSUME NEW c \in Calls
    PROVE  /\ c.state \in {"none", "wait", "ok", "unavailable", "error"}
           /\ c.state = "wait" => c \in Waiting
           /\ c.state = "ok" => c \in Replied
           /\ HasText(c) => c.text \in Texts
BY DEF Calls, Waiting, Replied, Failed, Resting, HasText

\* The two slots of a turn.
LEMMA Pair ==
    ASSUME NEW a \in Calls, NEW b \in Calls
    PROVE  <<a, b>> \in [Slots -> Calls] /\ <<a, b>>[1] = a /\ <<a, b>>[2] = b
BY DEF Slots

\* A step of one turn keeps what is known of the turns when it keeps what is
\* known of that one.
LEMMA TurnStep ==
    ASSUME TurnsInv, NEW t \in Turns, UNCHANGED entries,
           \A u \in Turns : u # t =>
               /\ pc'[u] = pc[u] /\ text'[u] = text[u] /\ call'[u] = call[u]
               /\ u \in usedTool' <=> u \in usedTool
               /\ u \in degraded' <=> u \in degraded
               /\ seen'[u] = seen[u],
           TurnInv(t, pc'[t], text'[t], call'[t], t \in usedTool', t \in degraded', seen'[t])
    PROVE  TurnsInv'
<1> SUFFICES ASSUME NEW u \in Turns
             PROVE  TurnInv(u, pc[u], text[u], call[u], u \in usedTool, u \in degraded, seen[u])'
  BY DEF TurnsInv
<1>1. CASE u = t
  BY <1>1 DEF TurnInv, SizeInv, CheckInv, ModelInv
<1>2. CASE u # t
  <2>1. TurnInv(u, pc[u], text[u], call[u], u \in usedTool, u \in degraded, seen[u])
    BY DEF TurnsInv
  <2>2. /\ pc'[u] = pc[u] /\ text'[u] = text[u] /\ call'[u] = call[u]
        /\ u \in usedTool' <=> u \in usedTool
        /\ u \in degraded' <=> u \in degraded
        /\ seen'[u] = seen[u]
    BY <1>2
  <2>3. SizeInv(u, pc[u], text[u], call[u], u \in usedTool)'
    BY <2>1, <2>2 DEF TurnInv, SizeInv, HasText
  <2>4. CheckInv(pc[u], text[u], call[u], u \in degraded)'
    BY <2>1, <2>2 DEF TurnInv, CheckInv
  <2>5. ModelInv(pc[u], text[u], call[u], seen[u])'
    BY <2>1, <2>2 DEF TurnInv, ModelInv
  <2> QED BY <2>3, <2>4, <2>5 DEF TurnInv
<1> QED BY <1>1, <1>2

\* A step that sends, gives and keeps nothing.
LEMMA NothingLeaves ==
    ASSUME SentInv, MemoryHoldsNoOriginal, OriginalsOnlyToTrusted,
           UNCHANGED <<profile, seen, given, kept>>, degraded \subseteq degraded'
    PROVE  SentInv' /\ MemoryHoldsNoOriginal' /\ OriginalsOnlyToTrusted'
<1>1. SentInv'
  BY DEF SentInv
<1>2. MemoryHoldsNoOriginal'
  BY DEF MemoryHoldsNoOriginal
<1>3. OriginalsOnlyToTrusted'
  BY DEF OriginalsOnlyToTrusted
<1> QED BY <1>1, <1>2, <1>3

-----------------------------------------------------------------------------
(* The client and the anonymizer.                                          *)

\* A call under way goes on with the same request, or ends.
LEMMA ClientStep ==
    ASSUME IInv, NEW t \in Turns, NEW i \in Slots, NEW c \in Calls,
           call[t][i].state = "wait",
           call' = [call EXCEPT ![t][i] = c],
           UNCHANGED <<fixed, pc, text, usedTool, seen, given, shown, kept>>,
           degraded' \in {degraded, degraded \cup {t}},
           rows' \in [Placeholders -> Surfaces \cup {"none"}],
           late' \subseteq [turn : Turns, slot : Slots, call : Waiting],
           c.state # "none",
           c.state = "wait" => /\ c.op = call[t][i].op /\ c.profile = call[t][i].profile
                               /\ c.text = call[t][i].text,
           c.state = "ok" =>
               /\ Len(c.text) = Len(call[t][i].text)
               /\ call[t][i].op = "anonymize" =>
                     \/ t \in degraded'
                     \/ /\ c.found <=> Detected(call[t][i].text, call[t][i].profile, "full") # {}
                        /\ c.text = MaskText(call[t][i].text, call[t][i].profile, "full")
    PROVE  IInv'
<1>1. /\ CallTypes /\ TurnsInv /\ SentInv /\ MemoryHoldsNoOriginal /\ OriginalsOnlyToTrusted
      /\ UNCHANGED <<profile, entries>>
  BY DEF IInv, fixed
<1>2. call[t] \in [Slots -> Calls] /\ call[t][i] \in Waiting
  <2>1. call[t] \in [Slots -> Calls]
    BY <1>1 DEF CallTypes
  <2>2. call[t][i] \in Calls
    BY <2>1
  <2> QED BY <2>1, <2>2, CallKinds
<1>3. /\ call' \in [Turns -> [Slots -> Calls]]
      /\ \A u \in Turns : u # t => call'[u] = call[u]
      /\ call'[t][i] = c
      /\ \A j \in Slots : j # i => call'[t][j] = call[t][j]
  BY <1>1, <1>2 DEF CallTypes
<1>4. CallTypes'
  BY <1>1, <1>3 DEF CallTypes
<1>5. degraded \subseteq degraded'
  OBVIOUS
<1>6. TurnInv(t, pc[t], text[t], call[t], t \in usedTool, t \in degraded, seen[t])
  BY <1>1 DEF TurnsInv
<1>7. HasText(call[t][i])
  BY DEF HasText
<1>8. HasText(c) => Len(c.text) = Len(call[t][i].text)
  BY DEF HasText
<1>9. SizeInv(t, pc'[t], text'[t], call'[t], t \in usedTool')
  <2>1. SizeInv(t, pc[t], text[t], call[t], t \in usedTool)
    BY <1>6 DEF TurnInv
  <2>2. ASSUME NEW j \in Slots, HasText(call'[t][j])
        PROVE  HasText(call[t][j]) /\ Len(call'[t][j].text) = Len(call[t][j].text)
    <3>1. CASE j = i
      BY <1>3, <1>7, <1>8, <2>2, <3>1
    <3>2. CASE j # i
      BY <1>3, <2>2, <3>2
    <3> QED BY <3>1, <3>2
  <2>3. 1 \in Slots
    BY DEF Slots
  <2> QED BY <2>1, <2>2, <2>3 DEF SizeInv
<1>10. CheckInv(pc'[t], text'[t], call'[t], t \in degraded')
  <2>1. CheckInv(pc[t], text[t], call[t], t \in degraded)
    BY <1>6 DEF TurnInv
  <2>2. CASE i = 1
    BY <1>3, <2>1, <2>2 DEF CheckInv
  <2>3. CASE i # 1
    <3>1. call'[t][1] = call[t][1]
      BY <1>3, <2>3 DEF Slots
    <3> QED BY <1>5, <2>1, <3>1 DEF CheckInv
  <2> QED BY <2>2, <2>3
<1>11. ModelInv(pc'[t], text'[t], call'[t], seen'[t])
  <2>1. ModelInv(pc[t], text[t], call[t], seen[t])
    BY <1>6 DEF TurnInv
  <2>2. CASE pc[t] = "pre_tool_call"
    <3>1. call[t][2].state = "none"
      <4>1. PICK tool \in ToolNames : call[t][2] = [state |-> "none", tool |-> tool]
        BY <2>1, <2>2 DEF ModelInv
      <4> QED BY <4>1
    <3>2. i # 2
      BY <3>1
    <3>3. call'[t][2] = call[t][2]
      BY <1>3, <3>2 DEF Slots
    <3> QED BY <2>1, <2>2, <3>3 DEF ModelInv
  <2>3. CASE pc[t] # "pre_tool_call"
    BY <2>1, <2>3 DEF ModelInv
  <2> QED BY <2>2, <2>3
<1>12. TurnsInv'
  <2>1. TurnInv(t, pc'[t], text'[t], call'[t], t \in usedTool', t \in degraded', seen'[t])
    BY <1>9, <1>10, <1>11 DEF TurnInv
  <2> QED BY <1>1, <1>3, <2>1, TurnStep
<1>13. SentInv' /\ MemoryHoldsNoOriginal' /\ OriginalsOnlyToTrusted'
  BY <1>1, <1>5, NothingLeaves
<1> QED BY <1>4, <1>12, <1>13 DEF IInv

\* An attempt succeeds: a reply masked outside the full mode marks the turn.
LEMMA AnsweredInv ==
    ASSUME IInv, NEW t \in Turns, NEW i \in Slots, Answered(t, i)
    PROVE  IInv'
<1> DEFINE c == call[t][i]
<1>1. CallTypes /\ c.state = "wait"
  BY DEF IInv, Answered
<1>2. c \in Waiting
  <2>1. c \in Calls
    BY DEF IInv, CallTypes
  <2> QED BY <1>1, <2>1, CallKinds
<1>3. c.text \in Texts /\ c.profile \in Profiles
  BY <1>2 DEF Waiting
<1>4. UNCHANGED <<fixed, late, pc, text, usedTool, seen, given, shown, kept>>
  BY DEF Answered
<1>5. late' \subseteq [turn : Turns, slot : Slots, call : Waiting]
  BY <1>1, <1>4 DEF CallTypes
<1>6. CASE c.op = "anonymize"
  <2>1. PICK mode \in SidecarModes :
          /\ rows' = Stored(c.text, c.profile, mode)
          /\ call' = [call EXCEPT ![t][i] = Reply(MaskText(c.text, c.profile, mode),
                                                  Detected(c.text, c.profile, mode) # {})]
          /\ degraded' = IF mode = "full" THEN degraded ELSE degraded \cup {t}
    BY <1>6 DEF Answered
  <2> DEFINE r == Reply(MaskText(c.text, c.profile, mode), Detected(c.text, c.profile, mode) # {})
  <2>2. mode \in Modes
    BY PluginAssumption
  <2>3. /\ MaskText(c.text, c.profile, mode) \in Texts
        /\ Len(MaskText(c.text, c.profile, mode)) = Len(c.text)
    BY <1>3, <2>2, MaskedText
  <2>4. r \in Calls
    BY <2>3, CallFacts DEF Calls
  <2>5. rows' \in [Placeholders -> Surfaces \cup {"none"}]
    BY <1>1, <1>3, <2>1, <2>2, StoredType
  <2>6. /\ r.state = "ok" /\ r.text = MaskText(c.text, c.profile, mode)
        /\ r.found = (Detected(c.text, c.profile, mode) # {})
    BY DEF Reply
  <2>7. \/ t \in degraded'
        \/ /\ r.found <=> Detected(c.text, c.profile, "full") # {}
           /\ r.text = MaskText(c.text, c.profile, "full")
    BY <2>1, <2>6
  <2>8. degraded' \in {degraded, degraded \cup {t}}
    BY <2>1
  <2>9. call' = [call EXCEPT ![t][i] = r]
    BY <2>1
  <2>10. Len(r.text) = Len(c.text)
    BY <2>3, <2>6
  <2> HIDE DEF r
  <2> QED BY <1>1, <1>4, <1>5, <2>4, <2>5, <2>6, <2>7, <2>8, <2>9, <2>10, ClientStep
<1>7. CASE c.op # "anonymize"
  <2> DEFINE r == Reply(Restored(c.text), FALSE)
  <2>1. call' = [call EXCEPT ![t][i] = r] /\ UNCHANGED <<rows, degraded>>
    BY <1>7 DEF Answered
  <2>2. Restored(c.text) \in Texts /\ Len(Restored(c.text)) = Len(c.text)
    BY <1>1, <1>3, RestoredText
  <2>3. r \in Calls
    BY <2>2, CallFacts DEF Calls
  <2>4. r.state = "ok" /\ Len(r.text) = Len(c.text)
    BY <2>2 DEF Reply
  <2>5. rows' \in [Placeholders -> Surfaces \cup {"none"}]
    BY <1>1, <2>1 DEF CallTypes
  <2> HIDE DEF r
  <2> QED BY <1>1, <1>4, <1>5, <1>7, <2>1, <2>3, <2>4, <2>5, ClientStep
<1> QED BY <1>6, <1>7

\* What a failed attempt leaves behind is a request.
LEMMA LeftBehind ==
    ASSUME CallTypes, NEW t \in Turns, NEW i \in Slots, call[t][i] \in Waiting,
           LeaveBehind(t, i)
    PROVE  late' \subseteq [turn : Turns, slot : Slots, call : Waiting]
BY DEF LeaveBehind, CallTypes

\* An attempt is refused: the call is over.
LEMMA AttemptRefusedInv ==
    ASSUME IInv, NEW t \in Turns, NEW i \in Slots, AttemptRefused(t, i)
    PROVE  IInv'
<1>1. CallTypes /\ call[t][i].state = "wait"
  BY DEF IInv, AttemptRefused
<1>2. call[t][i] \in Waiting
  <2>1. call[t][i] \in Calls
    BY <1>1 DEF CallTypes
  <2> QED BY <1>1, <2>1, CallKinds
<1>3. late' \subseteq [turn : Turns, slot : Slots, call : Waiting]
  BY <1>1, <1>2, LeftBehind DEF AttemptRefused
<1>4. Failure("error") \in Calls /\ Failure("error").state = "error"
  BY CallFacts DEF Calls, Failure
<1>5. call' = [call EXCEPT ![t][i] = Failure("error")]
      /\ UNCHANGED <<fixed, rows, pc, text, usedTool, degraded, seen, given, shown, kept>>
  BY DEF AttemptRefused, history
<1>6. rows' \in [Placeholders -> Surfaces \cup {"none"}]
  BY <1>1, <1>5 DEF CallTypes
<1> QED BY <1>1, <1>3, <1>4, <1>5, <1>6, ClientStep

\* An attempt fails: it is repeated as it was, or the call is over.
LEMMA AttemptFailsInv ==
    ASSUME IInv, NEW t \in Turns, NEW i \in Slots, AttemptFails(t, i)
    PROVE  IInv'
<1> DEFINE c == call[t][i]
<1>1. CallTypes /\ c.state = "wait"
  BY DEF IInv, AttemptFails
<1>2. c \in Waiting
  <2>1. c \in Calls
    BY <1>1 DEF CallTypes
  <2> QED BY <1>1, <2>1, CallKinds
<1>3. late' \subseteq [turn : Turns, slot : Slots, call : Waiting]
  BY <1>1, <1>2, LeftBehind DEF AttemptFails
<1>4. UNCHANGED <<fixed, rows, pc, text, usedTool, degraded, seen, given, shown, kept>>
  BY DEF AttemptFails, history
<1>5. rows' \in [Placeholders -> Surfaces \cup {"none"}]
  BY <1>1, <1>4 DEF CallTypes
<1>6. CASE c.attempt < maxRetries
  <2> DEFINE r == [c EXCEPT !.attempt = @ + 1]
  <2>1. call' = [call EXCEPT ![t][i] = r]
    BY <1>6 DEF AttemptFails
  <2>2. c.attempt + 1 \in 1..maxRetries
    BY <1>2, <1>6, PluginAssumption DEF Waiting
  <2>3. r \in Waiting /\ r.state = "wait" /\ r.op = c.op /\ r.profile = c.profile /\ r.text = c.text
    BY <1>2, <2>2 DEF Waiting
  <2>4. r \in Calls
    BY <2>3 DEF Calls
  <2> HIDE DEF r
  <2> QED BY <1>1, <1>3, <1>4, <1>5, <2>1, <2>3, <2>4, ClientStep
<1>7. CASE ~(c.attempt < maxRetries)
  <2>1. PICK error \in {"unavailable", "error"} : call' = [call EXCEPT ![t][i] = Failure(error)]
    BY <1>7 DEF AttemptFails
  <2>2. Failure(error) \in Calls /\ Failure(error).state \in {"unavailable", "error"}
    BY CallFacts DEF Calls, Failure
  <2> QED BY <1>1, <1>3, <1>4, <1>5, <2>1, <2>2, ClientStep
<1> QED BY <1>6, <1>7

\* A request nobody waits for changes the rows only.
LEMMA ExecuteLateInv ==
    ASSUME IInv, NEW r \in late, ExecuteLate(r)
    PROVE  IInv'
<1>1. CallTypes /\ TurnsInv /\ SentInv /\ MemoryHoldsNoOriginal /\ OriginalsOnlyToTrusted
  BY DEF IInv
<1>2. UNCHANGED <<profile, entries, pc, text, call, usedTool, degraded, seen, given, shown, kept>>
  BY DEF ExecuteLate, fixed, history
<1>3. r.call \in Waiting
  BY <1>1 DEF CallTypes
<1>4. PICK mode \in SidecarModes : rows' = Stored(r.call.text, r.call.profile, mode)
  BY DEF ExecuteLate
<1>5. rows' \in [Placeholders -> Surfaces \cup {"none"}]
  BY <1>1, <1>3, <1>4, StoredType, PluginAssumption DEF Waiting
<1>6. CallTypes'
  BY <1>1, <1>2, <1>5 DEF CallTypes, ExecuteLate
<1>7. TurnsInv'
  BY <1>1, <1>2 DEF TurnsInv, TurnInv, SizeInv, CheckInv, ModelInv, HasText
<1>8. SentInv' /\ MemoryHoldsNoOriginal' /\ OriginalsOnlyToTrusted'
  BY <1>1, <1>2, NothingLeaves
<1> QED BY <1>6, <1>7, <1>8 DEF IInv

-----------------------------------------------------------------------------
(* The hooks.                                                              *)

\* What is known of the turn that takes a step.
LEMMA OfTurn ==
    ASSUME IInv, NEW t \in Turns
    PROVE  /\ CallTypes /\ TurnsInv /\ SentInv
           /\ MemoryHoldsNoOriginal /\ OriginalsOnlyToTrusted
           /\ text[t] \in Texts /\ call[t] \in [Slots -> Calls]
           /\ call[t][1] \in Calls /\ call[t][2] \in Calls
           /\ SizeInv(t, pc[t], text[t], call[t], t \in usedTool)
           /\ CheckInv(pc[t], text[t], call[t], t \in degraded)
           /\ ModelInv(pc[t], text[t], call[t], seen[t])
           /\ Len(UserText[t]) \in Nat /\ Len(UserText[t]) + 3 <= MaxText
           /\ MaxText \in Nat
<1>1. CallTypes /\ TurnsInv /\ SentInv /\ MemoryHoldsNoOriginal /\ OriginalsOnlyToTrusted
  BY DEF IInv
<1>2. TurnInv(t, pc[t], text[t], call[t], t \in usedTool, t \in degraded, seen[t])
  BY <1>1 DEF TurnsInv
<1>3. text[t] \in Texts /\ call[t] \in [Slots -> Calls]
  BY <1>1 DEF CallTypes
<1>4. call[t][1] \in Calls /\ call[t][2] \in Calls
  BY <1>3 DEF Slots
<1>5. UserText[t] \in Seq(Tokens) /\ Len(UserText[t]) + 3 <= MaxText
  BY PluginAssumption
<1> QED BY <1>1, <1>2, <1>3, <1>4, <1>5, MaskingAssumption DEF TurnInv

\* A step of one turn to a label l, with the prompt x and the calls c, that has
\* sent the originals sn to the model.
LEMMA HookStep ==
    ASSUME IInv, NEW t \in Turns,
           NEW l \in Hooks \cup {"idle", "assembling", "model", "done", "aborted"},
           NEW x \in Texts, NEW c \in [Slots -> Calls], NEW sn \in SUBSET Surfaces,
           pc' = [pc EXCEPT ![t] = l],
           text' = [text EXCEPT ![t] = x],
           call' = [call EXCEPT ![t] = c],
           seen' = [seen EXCEPT ![t] = @ \cup sn],
           usedTool' \in {usedTool, usedTool \cup {t}},
           UNCHANGED <<fixed, rows, late, degraded>>,
           shown' \in [Turns -> SUBSET Surfaces],
           kept' \subseteq [turn : Turns, s : Surfaces],
           given' \subseteq [turn : Turns, tool : ToolNames, trust : {"trusted", "untrusted"},
                             s : Surfaces],
           SizeInv(t, l, x, c, t \in usedTool'),
           CheckInv(l, x, c, t \in degraded),
           ModelInv(l, x, c, seen[t] \cup sn)
    PROVE  CallTypes' /\ TurnsInv'
<1>1. CallTypes /\ TurnsInv /\ UNCHANGED entries /\ profile' = profile
  BY DEF IInv, fixed
<1>2. /\ pc' \in [Turns -> Hooks \cup {"idle", "assembling", "model", "done", "aborted"}]
      /\ text' \in [Turns -> Texts] /\ call' \in [Turns -> [Slots -> Calls]]
      /\ seen' \in [Turns -> SUBSET Surfaces] /\ usedTool' \subseteq Turns
  BY <1>1 DEF CallTypes
<1>3. CallTypes'
  BY <1>1, <1>2 DEF CallTypes
<1>4. pc'[t] = l /\ text'[t] = x /\ call'[t] = c /\ seen'[t] = seen[t] \cup sn
  BY <1>1 DEF CallTypes
<1>5. \A u \in Turns : u # t =>
        /\ pc'[u] = pc[u] /\ text'[u] = text[u] /\ call'[u] = call[u]
        /\ u \in usedTool' <=> u \in usedTool
        /\ u \in degraded' <=> u \in degraded
        /\ seen'[u] = seen[u]
  BY <1>1 DEF CallTypes
<1>6. TurnInv(t, pc'[t], text'[t], call'[t], t \in usedTool', t \in degraded', seen'[t])
  <2>1. SizeInv(t, pc'[t], text'[t], call'[t], t \in usedTool')
    BY <1>4
  <2>2. CheckInv(pc'[t], text'[t], call'[t], t \in degraded')
    BY <1>4 DEF CheckInv
  <2>3. ModelInv(pc'[t], text'[t], call'[t], seen'[t])
    BY <1>4
  <2> QED BY <2>1, <2>2, <2>3 DEF TurnInv
<1> QED BY <1>1, <1>3, <1>5, <1>6, TurnStep

\* A step as above that sends, gives and keeps nothing.
LEMMA QuietHook ==
    ASSUME IInv, NEW t \in Turns,
           NEW l \in Hooks \cup {"idle", "assembling", "model", "done", "aborted"},
           NEW x \in Texts, NEW c \in [Slots -> Calls],
           pc' = [pc EXCEPT ![t] = l],
           text' = [text EXCEPT ![t] = x],
           call' = [call EXCEPT ![t] = c],
           usedTool' \in {usedTool, usedTool \cup {t}},
           UNCHANGED <<fixed, rows, late, degraded, seen, given, kept>>,
           shown' \in [Turns -> SUBSET Surfaces],
           SizeInv(t, l, x, c, t \in usedTool'),
           CheckInv(l, x, c, t \in degraded),
           ModelInv(l, x, c, seen[t])
    PROVE  IInv'
<1>1. CallTypes /\ SentInv /\ MemoryHoldsNoOriginal /\ OriginalsOnlyToTrusted /\ profile' = profile
  BY DEF IInv, fixed
<1> DEFINE sn == {}
<1>2. seen' = [seen EXCEPT ![t] = @ \cup sn] /\ seen[t] = seen[t] \cup sn /\ sn \in SUBSET Surfaces
  BY <1>1 DEF CallTypes
<1>3. /\ kept' \subseteq [turn : Turns, s : Surfaces]
      /\ given' \subseteq [turn : Turns, tool : ToolNames, trust : {"trusted", "untrusted"},
                           s : Surfaces]
  BY <1>1 DEF CallTypes
<1>4. CallTypes' /\ TurnsInv'
  <2>1. ModelInv(l, x, c, seen[t] \cup sn)
    BY <1>2
  <2> HIDE DEF sn
  <2> QED BY <1>2, <1>3, <2>1, HookStep
<1>5. SentInv' /\ MemoryHoldsNoOriginal' /\ OriginalsOnlyToTrusted'
  BY <1>1, NothingLeaves
<1> QED BY <1>4, <1>5 DEF IInv

\* A variable that a turn leaves alone is set to what it was.
LEMMA Same ==
    ASSUME CallTypes, NEW t \in Turns
    PROVE  /\ text = [text EXCEPT ![t] = text[t]]
           /\ call = [call EXCEPT ![t] = call[t]]
           /\ seen = [seen EXCEPT ![t] = @ \cup {}]
BY DEF CallTypes

\* A turn that is aborted.
LEMMA AbortInv ==
    ASSUME IInv, NEW t \in Turns, Goto(t, "aborted"),
           usedTool' \in {usedTool, usedTool \cup {t}},
           UNCHANGED <<fixed, rows, late, degraded, text, call, seen, given, shown, kept>>
    PROVE  IInv'
<1>1. /\ CallTypes /\ text[t] \in Texts /\ call[t] \in [Slots -> Calls]
      /\ SizeInv(t, pc[t], text[t], call[t], t \in usedTool)
  BY OfTurn
<1>2. /\ pc' = [pc EXCEPT ![t] = "aborted"]
      /\ text' = [text EXCEPT ![t] = text[t]] /\ call' = [call EXCEPT ![t] = call[t]]
  BY <1>1, Same DEF Goto
<1>3. /\ SizeInv(t, "aborted", text[t], call[t], t \in usedTool')
      /\ CheckInv("aborted", text[t], call[t], t \in degraded)
      /\ ModelInv("aborted", text[t], call[t], seen[t])
  BY <1>1 DEF SizeInv, CheckInv, ModelInv, Hooks
<1>4. shown' \in [Turns -> SUBSET Surfaces]
  BY <1>1 DEF CallTypes
<1> QED BY <1>1, <1>2, <1>3, <1>4, QuietHook

\* The hook throws.
LEMMA ThrowInv ==
    ASSUME IInv, NEW t \in Turns, Throw(t), UNCHANGED <<fixed, rows, late, degraded>>
    PROVE  IInv'
BY AbortInv DEF Throw

\* A turn that asks for its prompt to be masked or restored, and waits.
LEMMA AskInv ==
    ASSUME IInv, NEW t \in Turns,
           NEW l \in {"pre_user_message", "pre_llm_call", "post_llm_response", "pre_memory_write"},
           NEW x \in Texts, NEW op \in {"anonymize", "restore"}, NEW prof \in Profiles,
           text' = [text EXCEPT ![t] = x], Await(t, l, Post(op, x, prof)),
           UNCHANGED <<fixed, rows, late, usedTool, degraded, seen, given, kept>>,
           shown' \in [Turns -> SUBSET Surfaces],
           Len(x) \in 1..(Len(UserText[t]) + 3),
           t \notin usedTool => Len(x) <= Len(UserText[t]) + 1,
           t \notin usedTool /\ l = "pre_user_message" => Len(x) <= Len(UserText[t]),
           l \in {"pre_llm_call", "pre_memory_write"} => op = "anonymize" /\ prof = DefaultProfile
    PROVE  IInv'
<1> DEFINE w == Post(op, x, prof)
           c == [call[t] EXCEPT ![1] = w]
<1>1. CallTypes
  BY DEF IInv
<1>2. w \in Waiting /\ w.text = x /\ w.op = op /\ w.profile = prof /\ w.state = "wait"
  BY CallFacts DEF Post
<1>3. Await(t, l, w) /\ usedTool' = usedTool
  OBVIOUS
<1>4. /\ c \in [Slots -> Calls] /\ c[1] = w
      /\ call' = [call EXCEPT ![t] = c] /\ pc' = [pc EXCEPT ![t] = l]
  <2>1. call[t] \in [Slots -> Calls] /\ w \in Calls
    BY <1>1, <1>2 DEF CallTypes, Calls
  <2> HIDE DEF w
  <2>2. c \in [Slots -> Calls] /\ c[1] = w
    BY <2>1 DEF Slots
  <2> QED BY <1>3, <2>2 DEF Await, Goto
<1> HIDE DEF w, c
<1>5. SizeInv(t, l, x, c, t \in usedTool')
  BY <1>2, <1>3, <1>4 DEF SizeInv, Hooks
<1>6. CheckInv(l, x, c, t \in degraded)
  BY <1>2, <1>4 DEF CheckInv
<1>7. ModelInv(l, x, c, seen[t])
  BY DEF ModelInv
<1>8. l \in Hooks \cup {"idle", "assembling", "model", "done", "aborted"}
  BY DEF Hooks
<1> QED BY <1>3, <1>4, <1>5, <1>6, <1>7, <1>8, QuietHook

\* The user's text is sent to be masked.
LEMMA StartTurnInv ==
    ASSUME IInv, NEW t \in Turns, StartTurn(t)
    PROVE  IInv'
<1>1. /\ CallTypes /\ text[t] \in Texts /\ profile \in Profiles
      /\ SizeInv(t, pc[t], text[t], call[t], t \in usedTool)
      /\ Len(UserText[t]) \in Nat
  BY OfTurn DEF CallTypes
<1>2. /\ pc[t] = "idle" /\ Await(t, "pre_user_message", Post("anonymize", text[t], profile))
      /\ UNCHANGED <<fixed, rows, late, text, usedTool, degraded, seen, given, shown, kept>>
  BY DEF StartTurn, history
<1>3. text' = [text EXCEPT ![t] = text[t]] /\ shown' \in [Turns -> SUBSET Surfaces]
  BY <1>1, <1>2, Same DEF CallTypes
<1>4. /\ Len(text[t]) \in 1..(Len(UserText[t]) + 3)
      /\ t \notin usedTool => Len(text[t]) <= Len(UserText[t])
      /\ t \notin usedTool => Len(text[t]) <= Len(UserText[t]) + 1
  BY <1>1, <1>2 DEF SizeInv
<1> QED BY <1>1, <1>2, <1>3, <1>4, AskInv

\* The prompt is as long as the user's text, masked or not.
LEMMA PreUserMessageInv ==
    ASSUME IInv, NEW t \in Turns, PreUserMessage(t)
    PROVE  IInv'
<1> DEFINE r == call[t][1]
           x == IF r.state = "ok" THEN r.text ELSE text[t]
<1>1. /\ CallTypes /\ text[t] \in Texts /\ call[t] \in [Slots -> Calls] /\ r \in Calls
      /\ SizeInv(t, pc[t], text[t], call[t], t \in usedTool)
  BY OfTurn
<1>2. pc[t] = "pre_user_message" /\ UNCHANGED <<fixed, rows, late, degraded>>
  BY DEF PreUserMessage
<1>3. CASE Throw(t)
  BY <1>2, <1>3, ThrowInv
<1>4. CASE /\ text' = [text EXCEPT ![t] = IF r.state = "ok" THEN r.text ELSE @]
           /\ Goto(t, "assembling")
           /\ UNCHANGED <<call, usedTool, seen, given, shown, kept>>
  <2>1. x \in Texts /\ Len(x) = Len(text[t])
    BY <1>1, <1>2, CallKinds DEF SizeInv, HasText, Hooks
  <2>2. text' = [text EXCEPT ![t] = x]
    BY <1>1, <1>4 DEF CallTypes
  <2>3. call' = [call EXCEPT ![t] = call[t]] /\ pc' = [pc EXCEPT ![t] = "assembling"]
        /\ shown' \in [Turns -> SUBSET Surfaces]
    BY <1>1, <1>4, Same DEF Goto, CallTypes
  <2> HIDE DEF x
  <2>4. SizeInv(t, "assembling", x, call[t], t \in usedTool')
    BY <1>1, <1>2, <1>4, <2>1 DEF SizeInv, Hooks
  <2>5. CheckInv("assembling", x, call[t], t \in degraded)
        /\ ModelInv("assembling", x, call[t], seen[t])
    BY DEF CheckInv, ModelInv
  <2> QED BY <1>1, <1>2, <1>4, <2>1, <2>2, <2>3, <2>4, <2>5, QuietHook
<1> QED BY <1>3, <1>4 DEF PreUserMessage

\* What the prompt picks up is a text of at most one token, and nothing after a
\* tool was called.
LEMMA AssembleInv ==
    ASSUME IInv, NEW t \in Turns, Assemble(t)
    PROVE  IInv'
<1>1. /\ CallTypes /\ text[t] \in Texts
      /\ SizeInv(t, pc[t], text[t], call[t], t \in usedTool)
      /\ Len(UserText[t]) \in Nat /\ Len(UserText[t]) + 3 <= MaxText /\ MaxText \in Nat
  BY OfTurn
<1>2. pc[t] = "assembling"
      /\ UNCHANGED <<fixed, rows, late, usedTool, degraded, seen, given, shown, kept>>
  BY DEF Assemble, history
<1>3. PICK picked \in {<<>>} \cup {<<Surface(s)>> : s \in Context} :
        /\ t \in usedTool => picked = <<>>
        /\ text' = [text EXCEPT ![t] = @ \o picked]
        /\ Await(t, "pre_llm_call", Post("anonymize", text[t] \o picked, DefaultProfile))
  BY DEF Assemble
<1>4. /\ picked \in Seq(Tokens) /\ Len(picked) \in Nat /\ Len(picked) <= 1
      /\ t \in usedTool => Len(picked) = 0
  <2>1. CASE picked = <<>>
    BY <2>1
  <2>2. CASE \E s \in Context : picked = <<Surface(s)>>
    <3>1. PICK s \in Context : picked = <<Surface(s)>>
      BY <2>2
    <3>2. Surface(s) \in Tokens
      BY PluginAssumption DEF Tokens
    <3>3. t \in usedTool => Len(picked) = 0
      BY <1>3
    <3> QED BY <3>1, <3>2, <3>3
  <2> QED BY <1>3, <2>1, <2>2
<1>5. /\ text[t] \in Seq(Tokens) /\ Len(text[t]) \in Nat
      /\ Len(text[t]) > 0 /\ Len(text[t]) <= Len(UserText[t]) + 3
      /\ t \notin usedTool => Len(text[t]) <= Len(UserText[t])
  BY <1>1, <1>2, TextFacts DEF SizeInv
<1> DEFINE x == text[t] \o picked
<1>6. x \in Seq(Tokens) /\ Len(x) = Len(text[t]) + Len(picked)
  BY <1>4, <1>5
<1>7. /\ text' = [text EXCEPT ![t] = x]
      /\ Await(t, "pre_llm_call", Post("anonymize", x, DefaultProfile))
  BY <1>1, <1>3 DEF CallTypes
<1> HIDE DEF x
<1>8. t \notin usedTool => Len(x) <= Len(UserText[t]) + 1
  BY <1>1, <1>4, <1>5, <1>6
<1>9. Len(x) \in 1..(Len(UserText[t]) + 3)
  <2>1. CASE t \in usedTool
    BY <1>1, <1>4, <1>5, <1>6, <2>1
  <2>2. CASE t \notin usedTool
    BY <1>1, <1>5, <1>6, <1>8, <1>4, <2>2
  <2> QED BY <2>1, <2>2
<1>10. x \in Texts
  BY <1>1, <1>6, <1>9 DEF Texts
<1>11. shown' \in [Turns -> SUBSET Surfaces] /\ DefaultProfile \in Profiles
  BY <1>1, <1>2, CallFacts DEF CallTypes
<1> QED BY <1>2, <1>7, <1>8, <1>9, <1>10, <1>11, AskInv

\* What pre_llm_call lets through to the model.
LEMMA PreLlmCallInv ==
    ASSUME IInv, NEW t \in Turns, PreLlmCall(t)
    PROVE  IInv'
<1> DEFINE r == call[t][1]
           x == IF r.found /\ profile = "balanced" THEN r.text ELSE text[t]
           sn == Originals(x)
<1>1. /\ CallTypes /\ SentInv /\ MemoryHoldsNoOriginal /\ OriginalsOnlyToTrusted
      /\ text[t] \in Texts /\ call[t] \in [Slots -> Calls] /\ r \in Calls
      /\ SizeInv(t, pc[t], text[t], call[t], t \in usedTool)
      /\ CheckInv(pc[t], text[t], call[t], t \in degraded)
  BY OfTurn
<1>2. pc[t] = "pre_llm_call" /\ UNCHANGED <<fixed, rows, late, degraded>>
  BY DEF PreLlmCall
<1>3. CASE Throw(t)
  BY <1>2, <1>3, ThrowInv
<1>4. CASE /\ r.state = "ok" /\ (r.found => profile # "strict")
           /\ text' = [text EXCEPT ![t] =
                         IF r.found /\ profile = "balanced" THEN r.text ELSE @]
           /\ seen' = [seen EXCEPT ![t] = @ \cup Originals(text'[t])]
           /\ Goto(t, "model")
           /\ UNCHANGED <<call, usedTool, given, shown, kept>>
  <2>1. x \in Texts /\ Len(x) = Len(text[t])
    BY <1>1, <1>2, <1>4, CallKinds DEF SizeInv, HasText, Hooks
  <2>2. text' = [text EXCEPT ![t] = x] /\ text'[t] = x
    BY <1>1, <1>4 DEF CallTypes
  <2>3. seen' = [seen EXCEPT ![t] = @ \cup sn] /\ sn \in SUBSET Surfaces
    BY <1>4, <2>1, <2>2, OriginalsType
  <2>4. /\ call' = [call EXCEPT ![t] = call[t]] /\ pc' = [pc EXCEPT ![t] = "model"]
        /\ shown' \in [Turns -> SUBSET Surfaces]
        /\ kept' \subseteq [turn : Turns, s : Surfaces]
        /\ given' \subseteq [turn : Turns, tool : ToolNames, trust : {"trusted", "untrusted"},
                             s : Surfaces]
    BY <1>1, <1>4, Same DEF Goto, CallTypes
  <2>5. profile # "permissive" /\ t \notin degraded => \A s \in sn : ~Known(s)
    <3> SUFFICES ASSUME profile # "permissive", t \notin degraded
                 PROVE  \A s \in sn : ~Known(s)
      OBVIOUS
    <3>1. /\ r.found <=> Detected(text[t], DefaultProfile, "full") # {}
          /\ r.text = MaskText(text[t], DefaultProfile, "full")
      BY <1>1, <1>2, <1>4 DEF CheckInv
    <3>2. CASE r.found /\ profile = "balanced"
      BY <1>1, <3>1, <3>2, FullReply
    <3>3. CASE ~(r.found /\ profile = "balanced")
      <4>1. profile \in {"strict", "balanced"}
        BY <1>1 DEF CallTypes, Profiles
      <4>2. ~r.found
        BY <1>4, <3>3, <4>1
      <4> QED BY <1>1, <3>1, <4>2, FullReply
    <3> QED BY <3>2, <3>3
  <2>6. ModelInv("model", x, call[t], seen[t] \cup sn)
    BY DEF ModelInv
  <2> HIDE DEF x, sn
  <2>7. SizeInv(t, "model", x, call[t], t \in usedTool')
    BY <1>1, <1>2, <1>4, <2>1 DEF SizeInv, Hooks
  <2>8. CheckInv("model", x, call[t], t \in degraded)
    BY DEF CheckInv
  <2>9. CallTypes' /\ TurnsInv'
    <3>1. usedTool' = usedTool
      BY <1>4
    <3> QED BY <1>1, <1>2, <2>1, <2>2, <2>3, <2>4, <2>6, <2>7, <2>8, <3>1, HookStep DEF Hooks
  <2>10. SentInv'
    <3> SUFFICES ASSUME profile # "permissive", NEW u \in Turns, NEW s \in seen'[u], Known(s)
                 PROVE  u \in degraded
      BY <1>2 DEF SentInv, fixed
    <3>1. CASE u # t
      BY <1>1, <2>3, <3>1 DEF SentInv, CallTypes
    <3>2. CASE u = t
      <4>1. s \in seen[t] \/ s \in sn
        BY <1>1, <2>3, <3>2 DEF CallTypes
      <4> QED BY <1>1, <2>5, <3>2, <4>1 DEF SentInv
    <3> QED BY <3>1, <3>2
  <2>11. MemoryHoldsNoOriginal'
    BY <1>1, <1>2, <1>4 DEF MemoryHoldsNoOriginal
  <2>12. OriginalsOnlyToTrusted'
    <3>1. \A u \in Turns : seen[u] \subseteq seen'[u]
      BY <1>1, <2>3 DEF CallTypes
    <3>2. \A g \in given : g.turn \in Turns
      BY <1>1 DEF CallTypes
    <3> QED BY <1>1, <1>4, <3>1, <3>2 DEF OriginalsOnlyToTrusted
  <2> QED BY <2>9, <2>10, <2>11, <2>12 DEF IInv
<1> QED BY <1>3, <1>4 DEF PreLlmCall

\* A string of a tool result, masked or not, stays one string.
LEMMA ReMaskCall ==
    ASSUME NEW tok \in Tokens, MaxText \in Nat \ {0}
    PROVE  /\ ReMask(<<tok>>) \in Calls
           /\ HasText(ReMask(<<tok>>)) => Len(ReMask(<<tok>>).text) = 1
<1> DEFINE x == <<tok>>
<1>1. x \in Texts /\ Len(x) = 1
  BY DEF Texts
<1> HIDE DEF x
<1>2. Reply(x, FALSE) \in Calls /\ Reply(x, FALSE).text = x
  BY <1>1, CallFacts DEF Calls, Reply
<1>3. Post("anonymize", x, DefaultProfile) \in Calls
      /\ Post("anonymize", x, DefaultProfile).text = x
  BY <1>1, CallFacts DEF Calls, Post
<1>4. ReMask(x) \in Calls /\ ReMask(x).text = x
  BY <1>2, <1>3 DEF ReMask
<1> QED BY <1>1, <1>4 DEF x

\* A tool is called with originals only when the model had seen them or the
\* tool is one that gets them.
LEMMA CallToolInv ==
    ASSUME IInv, NEW t \in Turns, NEW tool \in ToolNames,
           NEW trust \in {"trusted", "untrusted"}, NEW args \in Texts, Len(args) > 0,
           CallTool(t, tool, trust, args), Len(text[t]) <= Len(UserText[t]) + 1,
           usedTool' = usedTool \cup {t},
           UNCHANGED <<fixed, rows, late, degraded, text, seen, shown, kept>>,
           \/ Originals(args) \subseteq seen[t]
           \/ trust = "trusted" /\ Says(Table, tool, "deanonymize")
    PROVE  IInv'
<1>1. /\ CallTypes /\ SentInv /\ MemoryHoldsNoOriginal /\ OriginalsOnlyToTrusted
      /\ text[t] \in Texts /\ SizeInv(t, pc[t], text[t], call[t], t \in usedTool)
      /\ Len(UserText[t]) \in Nat /\ Len(UserText[t]) + 3 <= MaxText /\ MaxText \in Nat
  BY OfTurn
<1>2. PICK s \in Records :
        call' = [call EXCEPT ![t] = <<ReMask(<<args[1]>>), ReMask(<<Surface(s)>>)>>]
  BY DEF CallTool
<1> DEFINE a == ReMask(<<args[1]>>)
           b == ReMask(<<Surface(s)>>)
           c == <<a, b>>
           new == {[turn |-> t, tool |-> tool, trust |-> trust, s |-> o] : o \in Originals(args)}
<1>3. args[1] \in Tokens
  BY TextFacts
<1>4. Surface(s) \in Tokens
  BY PluginAssumption DEF Tokens
<1>5. /\ a \in Calls /\ (HasText(a) => Len(a.text) = 1)
      /\ b \in Calls /\ (HasText(b) => Len(b.text) = 1)
  BY <1>1, <1>3, <1>4, ReMaskCall
<1> HIDE DEF a, b
<1>6. c \in [Slots -> Calls] /\ c[1] = a /\ c[2] = b
  BY <1>5, Pair
<1>7. call' = [call EXCEPT ![t] = c]
  BY <1>2 DEF a, b
<1>8. given' = given \cup new
  BY DEF CallTool
<1>9. given' \subseteq [turn : Turns, tool : ToolNames, trust : {"trusted", "untrusted"},
                        s : Surfaces]
  <2>1. Originals(args) \in SUBSET Surfaces
    BY OriginalsType
  <2> QED BY <1>1, <1>8, <2>1 DEF CallTypes
<1> HIDE DEF c
<1>10. SizeInv(t, "post_tool_result", text[t], c, t \in usedTool')
  BY <1>1, <1>5, <1>6 DEF SizeInv, Hooks, Slots
<1>11. CheckInv("post_tool_result", text[t], c, t \in degraded)
       /\ ModelInv("post_tool_result", text[t], c, seen[t] \cup {})
  BY DEF CheckInv, ModelInv
<1>12. /\ text' = [text EXCEPT ![t] = text[t]] /\ pc' = [pc EXCEPT ![t] = "post_tool_result"]
       /\ seen' = [seen EXCEPT ![t] = @ \cup {}]
       /\ shown' \in [Turns -> SUBSET Surfaces]
       /\ kept' \subseteq [turn : Turns, s : Surfaces]
  BY <1>1, Same DEF CallTool, Goto, CallTypes
<1>13. CallTypes' /\ TurnsInv'
  <2> DEFINE sn == {}
  <2>1. sn \in SUBSET Surfaces /\ seen' = [seen EXCEPT ![t] = @ \cup sn]
        /\ ModelInv("post_tool_result", text[t], c, seen[t] \cup sn)
    BY <1>11, <1>12
  <2> HIDE DEF sn
  <2> QED BY <1>1, <1>6, <1>7, <1>9, <1>10, <1>11, <1>12, <2>1, HookStep DEF Hooks
<1>14. SentInv' /\ MemoryHoldsNoOriginal'
  BY <1>1 DEF SentInv, MemoryHoldsNoOriginal, fixed
<1>15. OriginalsOnlyToTrusted'
  <2> SUFFICES ASSUME NEW g \in given', g.s \notin seen[g.turn]
               PROVE  g.trust = "trusted" /\ Says(Table, g.tool, "deanonymize")
    BY DEF OriginalsOnlyToTrusted
  <2>1. CASE g \in given
    BY <1>1, <2>1 DEF OriginalsOnlyToTrusted
  <2>2. CASE g \in new
    <3>1. g.s \in Originals(args) /\ g.turn = t /\ g.tool = tool /\ g.trust = trust
      BY <2>2
    <3> QED BY <3>1
  <2> QED BY <1>8, <2>1, <2>2
<1> QED BY <1>13, <1>14, <1>15 DEF IInv

\* The model's prompt, while no tool was called, is no longer than the user's
\* text and what it picked up.
LEMMA PreToolCallInv ==
    ASSUME IInv, NEW t \in Turns, NEW tool \in ToolNames,
           NEW trust \in {"trusted", "untrusted"}, PreToolCall(t, tool, trust)
    PROVE  IInv'
<1> DEFINE verdict == resolvePolicy(entries, tool)
<1>1. /\ CallTypes /\ text[t] \in Texts
      /\ SizeInv(t, pc[t], text[t], call[t], t \in usedTool)
      /\ ModelInv(pc[t], text[t], call[t], seen[t])
      /\ Len(UserText[t]) \in Nat
  BY OfTurn
<1>2. /\ pc[t] = "model" /\ t \notin usedTool /\ usedTool' = usedTool \cup {t}
      /\ UNCHANGED <<fixed, rows, late, text, degraded, seen, shown, kept>>
  BY DEF PreToolCall
<1>3. /\ Len(text[t]) > 0 /\ Len(text[t]) \in Nat /\ Len(text[t]) <= Len(UserText[t]) + 1
      /\ Len(text[t]) \in 1..(Len(UserText[t]) + 3)
      /\ Originals(text[t]) \subseteq seen[t]
  BY <1>1, <1>2 DEF SizeInv, ModelInv
<1>4. CASE Goto(t, "aborted") /\ UNCHANGED <<call, given>>
  BY <1>2, <1>4, AbortInv
<1>5. CASE CallTool(t, tool, trust, text[t])
  BY <1>1, <1>2, <1>3, <1>5, CallToolInv
<1>6. CASE /\ verdict = "deanonymize" /\ Goto(t, "pre_tool_call")
           /\ call' = [call EXCEPT ![t] = <<Post("restore", text[t], DefaultProfile),
                                            [state |-> "none", tool |-> tool]>>]
           /\ UNCHANGED given
  <2> DEFINE a == Post("restore", text[t], DefaultProfile)
             b == [state |-> "none", tool |-> tool]
             c == <<a, b>>
  <2>1. a \in Calls /\ a.text = text[t] /\ b \in Calls
    BY <1>1, CallFacts DEF Calls, Resting, Post
  <2>2. call' = [call EXCEPT ![t] = c] /\ pc' = [pc EXCEPT ![t] = "pre_tool_call"]
        /\ verdict = "deanonymize" /\ given' = given
    BY <1>6 DEF Goto
  <2> HIDE DEF verdict
  <2>3. ModelInv("pre_tool_call", text[t], c, seen[t])
    <3>1. c[2] = [state |-> "none", tool |-> tool]
      OBVIOUS
    <3> HIDE DEF c
    <3> QED BY <2>2, <3>1 DEF ModelInv, verdict
  <2> HIDE DEF a, b
  <2>4. c \in [Slots -> Calls] /\ c[1] = a /\ c[2] = b
    BY <2>1, Pair
  <2> HIDE DEF c
  <2>5. SizeInv(t, "pre_tool_call", text[t], c, t \in usedTool')
    BY <1>2, <1>3, <2>1, <2>4 DEF SizeInv, Hooks
  <2>6. CheckInv("pre_tool_call", text[t], c, t \in degraded)
    BY DEF CheckInv
  <2>7. text' = [text EXCEPT ![t] = text[t]] /\ shown' \in [Turns -> SUBSET Surfaces]
    BY <1>1, <1>2, Same DEF CallTypes
  <2>8. "pre_tool_call" \in Hooks \cup {"idle", "assembling", "model", "done", "aborted"}
    BY DEF Hooks
  <2> QED BY <1>1, <1>2, <2>2, <2>3, <2>4, <2>5, <2>6, <2>7, <2>8, QuietHook
<1> QED BY <1>4, <1>5, <1>6 DEF PreToolCall

\* The originals go to the tool they were asked for.
LEMMA PreToolCallReturnsInv ==
    ASSUME IInv, NEW t \in Turns, PreToolCallReturns(t)
    PROVE  IInv'
<1>1. /\ CallTypes /\ text[t] \in Texts /\ call[t][1] \in Calls
      /\ SizeInv(t, pc[t], text[t], call[t], t \in usedTool)
      /\ ModelInv(pc[t], text[t], call[t], seen[t])
      /\ Len(UserText[t]) \in Nat /\ entries \in Tables
  BY OfTurn DEF CallTypes
<1>2. pc[t] = "pre_tool_call" /\ UNCHANGED <<fixed, rows, late, degraded>>
  BY DEF PreToolCallReturns
<1>3. CASE Throw(t)
  BY <1>2, <1>3, ThrowInv
<1>4. CASE /\ call[t][1].state = "ok"
           /\ CallTool(t, call[t][2].tool, "trusted", call[t][1].text)
           /\ UNCHANGED <<text, usedTool, seen, shown, kept>>
  <2>1. PICK tool \in ToolNames : /\ call[t][2] = [state |-> "none", tool |-> tool]
                                  /\ resolvePolicy(entries, tool) = "deanonymize"
    BY <1>1, <1>2 DEF ModelInv
  <2>2. call[t][2].tool = tool
    BY <2>1
  <2>3. Says(Table, tool, "deanonymize")
    <3>1. resolvePolicy(entries, tool) # "deny"
      BY <2>1
    <3> QED BY <1>1, <2>1, <3>1, ResolvesNarrowest
  <2> DEFINE args == call[t][1].text
  <2>4. args \in Texts /\ Len(args) = Len(text[t])
    BY <1>1, <1>2, <1>4, CallKinds DEF SizeInv, HasText, Hooks
  <2>5. /\ t \in usedTool /\ Len(text[t]) \in Nat /\ Len(text[t]) > 0
        /\ Len(text[t]) <= Len(UserText[t]) + 1
    BY <1>1, <1>2 DEF SizeInv
  <2>6. CallTool(t, tool, "trusted", args)
    BY <1>4, <2>2
  <2>7. usedTool' = usedTool \cup {t} /\ UNCHANGED <<text, seen, shown, kept>>
    BY <1>4, <2>5
  <2> HIDE DEF args
  <2> QED BY <1>2, <2>3, <2>4, <2>5, <2>6, <2>7, CallToolInv
<1> QED BY <1>3, <1>4 DEF PreToolCallReturns

\* The prompt grows by the two strings of the result.
LEMMA PostToolResultInv ==
    ASSUME IInv, NEW t \in Turns, PostToolResult(t)
    PROVE  IInv'
<1> DEFINE a == call[t][1].text
           b == call[t][2].text
           x == text[t] \o a \o b
<1>1. /\ CallTypes /\ text[t] \in Texts /\ call[t] \in [Slots -> Calls]
      /\ call[t][1] \in Calls /\ call[t][2] \in Calls
      /\ SizeInv(t, pc[t], text[t], call[t], t \in usedTool)
      /\ Len(UserText[t]) \in Nat /\ Len(UserText[t]) + 3 <= MaxText /\ MaxText \in Nat
  BY OfTurn
<1>2. pc[t] = "post_tool_result" /\ UNCHANGED <<fixed, rows, late, degraded>>
  BY DEF PostToolResult
<1>3. CASE Throw(t)
  BY <1>2, <1>3, ThrowInv
<1>4. CASE /\ \A i \in Slots : call[t][i].state = "ok"
           /\ text' = [text EXCEPT ![t] = @ \o call[t][1].text \o call[t][2].text]
           /\ Goto(t, "assembling")
           /\ UNCHANGED <<call, usedTool, seen, given, shown, kept>>
  <2>1. call[t][1].state = "ok" /\ call[t][2].state = "ok"
    BY <1>4 DEF Slots
  <2>2. a \in Texts /\ b \in Texts /\ Len(a) = 1 /\ Len(b) = 1
    BY <1>1, <1>2, <2>1, CallKinds DEF SizeInv, HasText, Slots
  <2>3. text' = [text EXCEPT ![t] = x]
    BY <1>1, <1>4 DEF CallTypes
  <2> HIDE DEF a, b
  <2>4. a \in Seq(Tokens) /\ b \in Seq(Tokens) /\ text[t] \in Seq(Tokens)
    BY <1>1, <2>2, TextFacts
  <2>5. x \in Seq(Tokens) /\ Len(x) = Len(text[t]) + 2
    <3> DEFINE y == text[t] \o a
    <3>1. y \in Seq(Tokens) /\ Len(y) = Len(text[t]) + Len(a) /\ Len(text[t]) \in Nat
      BY <2>4, Joined
    <3> HIDE DEF y
    <3>2. y \o b \in Seq(Tokens) /\ Len(y \o b) = Len(y) + Len(b)
      BY <2>4, <3>1, Joined
    <3>3. x = y \o b
      BY DEF y
    <3> QED BY <2>2, <3>1, <3>2, <3>3
  <2> HIDE DEF x
  <2>6. /\ t \in usedTool /\ Len(text[t]) \in Nat /\ Len(text[t]) > 0
        /\ Len(text[t]) <= Len(UserText[t]) + 1
    BY <1>1, <1>2 DEF SizeInv
  <2>7. Len(x) \in 1..(Len(UserText[t]) + 3)
    BY <1>1, <2>5, <2>6
  <2>8. x \in Texts
    BY <1>1, <2>5, <2>7 DEF Texts
  <2>9. /\ call' = [call EXCEPT ![t] = call[t]] /\ pc' = [pc EXCEPT ![t] = "assembling"]
        /\ shown' \in [Turns -> SUBSET Surfaces] /\ usedTool' = usedTool
        /\ UNCHANGED <<seen, given, kept>>
    BY <1>1, <1>4, Same DEF Goto, CallTypes
  <2>10. SizeInv(t, "assembling", x, call[t], t \in usedTool')
    BY <2>6, <2>7, <2>9 DEF SizeInv, Hooks
  <2>11. CheckInv("assembling", x, call[t], t \in degraded)
         /\ ModelInv("assembling", x, call[t], seen[t])
    BY DEF CheckInv, ModelInv
  <2> QED BY <1>1, <1>2, <2>3, <2>8, <2>9, <2>10, <2>11, QuietHook
<1> QED BY <1>3, <1>4 DEF PostToolResult

\* The model's answer is its prompt.
LEMMA ModelAnswersInv ==
    ASSUME IInv, NEW t \in Turns, ModelAnswers(t)
    PROVE  IInv'
<1>1. /\ CallTypes /\ text[t] \in Texts
      /\ SizeInv(t, pc[t], text[t], call[t], t \in usedTool)
  BY OfTurn
<1>2. /\ pc[t] = "model"
      /\ Await(t, "post_llm_response", Post("restore", text[t], DefaultProfile))
      /\ UNCHANGED <<fixed, rows, late, text, usedTool, degraded, seen, given, shown, kept>>
  BY DEF ModelAnswers, history
<1>3. /\ Len(text[t]) \in 1..(Len(UserText[t]) + 3)
      /\ t \notin usedTool => Len(text[t]) <= Len(UserText[t]) + 1
  BY <1>1, <1>2 DEF SizeInv
<1>4. /\ text' = [text EXCEPT ![t] = text[t]] /\ shown' \in [Turns -> SUBSET Surfaces]
      /\ DefaultProfile \in Profiles
  BY <1>1, <1>2, Same, CallFacts DEF CallTypes
<1> QED BY <1>1, <1>2, <1>3, <1>4, AskInv

\* The answer is shown, with or without the originals, and then masked for the
\* memory.
LEMMA PostLlmResponseInv ==
    ASSUME IInv, NEW t \in Turns, PostLlmResponse(t)
    PROVE  IInv'
<1> DEFINE x == IF call[t][1].state = "ok" THEN call[t][1].text ELSE text[t]
<1>1. /\ CallTypes /\ text[t] \in Texts /\ call[t][1] \in Calls
      /\ SizeInv(t, pc[t], text[t], call[t], t \in usedTool)
  BY OfTurn
<1>2. pc[t] = "post_llm_response" /\ UNCHANGED <<fixed, rows, late, degraded>>
  BY DEF PostLlmResponse
<1>3. CASE Throw(t)
  BY <1>2, <1>3, ThrowInv
<1>4. CASE /\ shown' = [shown EXCEPT ![t] = Originals(x)]
           /\ text' = [text EXCEPT ![t] = x]
           /\ Await(t, "pre_memory_write", Post("anonymize", x, DefaultProfile))
           /\ UNCHANGED <<usedTool, seen, given, kept>>
  <2>1. x \in Texts /\ Len(x) = Len(text[t])
    BY <1>1, <1>2, CallKinds DEF SizeInv, HasText, Hooks
  <2> HIDE DEF x
  <2>2. /\ Len(x) \in 1..(Len(UserText[t]) + 3)
        /\ t \notin usedTool => Len(x) <= Len(UserText[t]) + 1
    BY <1>1, <1>2, <2>1 DEF SizeInv
  <2>3. Originals(x) \in SUBSET Surfaces
    BY <2>1, OriginalsType
  <2>4. shown' \in [Turns -> SUBSET Surfaces] /\ DefaultProfile \in Profiles
    BY <1>1, <1>4, <2>3, CallFacts DEF CallTypes
  <2> QED BY <1>2, <1>4, <2>1, <2>2, <2>4, AskInv
<1> QED BY <1>3, <1>4 DEF PostLlmResponse

\* What is kept was masked.
LEMMA PreMemoryWriteInv ==
    ASSUME IInv, NEW t \in Turns, PreMemoryWrite(t)
    PROVE  IInv'
<1> DEFINE r == call[t][1]
           new == IF r.state = "ok" THEN Originals(r.text) ELSE {}
<1>1. /\ CallTypes /\ SentInv /\ MemoryHoldsNoOriginal /\ OriginalsOnlyToTrusted
      /\ text[t] \in Texts /\ call[t] \in [Slots -> Calls] /\ r \in Calls
      /\ SizeInv(t, pc[t], text[t], call[t], t \in usedTool)
      /\ CheckInv(pc[t], text[t], call[t], t \in degraded)
  BY OfTurn
<1>2. /\ pc[t] = "pre_memory_write" /\ Goto(t, "done")
      /\ UNCHANGED <<fixed, rows, late, degraded, text, call, usedTool, seen, given, shown>>
  BY DEF PreMemoryWrite
<1>3. kept' = kept \cup {[turn |-> t, s |-> s] : s \in new}
  BY DEF PreMemoryWrite
<1>4. new \in SUBSET Surfaces /\ (t \notin degraded => \A s \in new : ~Known(s))
  <2>1. CASE r.state = "ok"
    <3>1. r.text \in Texts
      BY <1>1, <2>1, CallKinds DEF HasText
    <3>2. new = Originals(r.text)
      BY <2>1
    <3>3. t \notin degraded => r.text = MaskText(text[t], DefaultProfile, "full")
      BY <1>1, <1>2, <2>1 DEF CheckInv
    <3> HIDE DEF new
    <3> QED BY <1>1, <3>1, <3>2, <3>3, OriginalsType, FullReply
  <2> QED BY <2>1
<1> HIDE DEF new
<1>5. kept' \subseteq [turn : Turns, s : Surfaces]
  BY <1>1, <1>3, <1>4 DEF CallTypes
<1>6. MemoryHoldsNoOriginal'
  <2> SUFFICES ASSUME NEW k \in kept', Known(k.s) PROVE k.turn \in degraded
    BY <1>2 DEF MemoryHoldsNoOriginal
  <2>1. CASE k \in kept
    BY <1>1, <2>1 DEF MemoryHoldsNoOriginal
  <2>2. CASE \E s \in new : k = [turn |-> t, s |-> s]
    <3>1. PICK s \in new : k = [turn |-> t, s |-> s]
      BY <2>2
    <3>2. k.s = s /\ k.turn = t
      BY <3>1
    <3> QED BY <1>4, <3>2
  <2> QED BY <1>3, <2>1, <2>2
<1>7. /\ SizeInv(t, "done", text[t], call[t], t \in usedTool')
      /\ CheckInv("done", text[t], call[t], t \in degraded)
  BY <1>1, <1>2 DEF SizeInv, CheckInv, Hooks
<1>8. CallTypes' /\ TurnsInv'
  <2> DEFINE sn == {}
  <2>1. sn \in SUBSET Surfaces /\ seen' = [seen EXCEPT ![t] = @ \cup sn]
    BY <1>1, <1>2, Same
  <2>2. ModelInv("done", text[t], call[t], seen[t] \cup sn)
    BY DEF ModelInv
  <2>3. /\ pc' = [pc EXCEPT ![t] = "done"] /\ text' = [text EXCEPT ![t] = text[t]]
        /\ call' = [call EXCEPT ![t] = call[t]] /\ usedTool' = usedTool
        /\ shown' \in [Turns -> SUBSET Surfaces]
        /\ given' \subseteq [turn : Turns, tool : ToolNames, trust : {"trusted", "untrusted"},
                              s : Surfaces]
    BY <1>1, <1>2, Same DEF Goto, CallTypes
  <2> HIDE DEF sn
  <2> QED BY <1>1, <1>2, <1>5, <1>7, <2>1, <2>2, <2>3, HookStep
<1>9. SentInv' /\ OriginalsOnlyToTrusted'
  BY <1>1, <1>2 DEF SentInv, OriginalsOnlyToTrusted, fixed
<1> QED BY <1>6, <1>8, <1>9 DEF IInv

-----------------------------------------------------------------------------
(* The theorems.                                                           *)

\* No turn has begun.
LEMMA InitInv == Init => IInv
<1> SUFFICES ASSUME Init PROVE IInv
  OBVIOUS
<1>1. ASSUME NEW t \in Turns
      PROVE  /\ UserText[t] \in Texts /\ Len(UserText[t]) \in Nat /\ Len(UserText[t]) > 0
  BY PluginAssumption, MaskingAssumption DEF Texts
<1>2. UserText \in [Turns -> Texts]
  BY <1>1, PluginAssumption
<1>3. call \in [Turns -> [Slots -> Calls]]
  BY CallFacts DEF Init, Calls
<1>4. CallTypes
  BY <1>2, <1>3 DEF Init, CallTypes
<1>5. TurnsInv
  <2> SUFFICES ASSUME NEW t \in Turns
               PROVE  TurnInv(t, pc[t], text[t], call[t], t \in usedTool, t \in degraded, seen[t])
    BY DEF TurnsInv
  <2>1. /\ pc[t] = "idle" /\ text[t] = UserText[t] /\ t \notin usedTool
    BY DEF Init
  <2>2. SizeInv(t, pc[t], text[t], call[t], t \in usedTool)
    BY <1>1, <2>1 DEF SizeInv, Hooks
  <2>3. /\ CheckInv(pc[t], text[t], call[t], t \in degraded)
        /\ ModelInv(pc[t], text[t], call[t], seen[t])
    BY <2>1 DEF CheckInv, ModelInv
  <2> QED BY <2>2, <2>3 DEF TurnInv
<1>6. SentInv /\ MemoryHoldsNoOriginal /\ OriginalsOnlyToTrusted
  BY DEF Init, SentInv, MemoryHoldsNoOriginal, OriginalsOnlyToTrusted
<1> QED BY <1>4, <1>5, <1>6 DEF IInv

\* Nothing changes.
LEMMA StutterInv ==
    ASSUME IInv, UNCHANGED vars
    PROVE  IInv'
<1>1. CallTypes /\ TurnsInv /\ SentInv /\ MemoryHoldsNoOriginal /\ OriginalsOnlyToTrusted
  BY DEF IInv
<1>2. /\ UNCHANGED <<profile, entries, rows, late, pc, text, call, usedTool>>
      /\ UNCHANGED <<degraded, seen, given, shown, kept>>
  BY DEF vars, fixed, history
<1>3. CallTypes'
  BY <1>1, <1>2 DEF CallTypes
<1>4. TurnsInv'
  BY <1>1, <1>2 DEF TurnsInv, TurnInv, SizeInv, CheckInv, ModelInv, HasText
<1>5. SentInv' /\ MemoryHoldsNoOriginal' /\ OriginalsOnlyToTrusted'
  BY <1>1, <1>2, NothingLeaves
<1> QED BY <1>3, <1>4, <1>5 DEF IInv

\* Every step keeps the invariant.
LEMMA NextInv ==
    ASSUME IInv, [Next]_vars
    PROVE  IInv'
<1>1. ASSUME NEW t \in Turns, Hook(t) PROVE IInv'
  <2>1. CASE \E tool \in ToolNames, trust \in {"trusted", "untrusted"} :
               PreToolCall(t, tool, trust)
    BY <2>1, PreToolCallInv
  <2> QED BY <1>1, <2>1, StartTurnInv, PreUserMessageInv, AssembleInv, PreLlmCallInv,
             PreToolCallReturnsInv, PostToolResultInv, ModelAnswersInv, PostLlmResponseInv,
             PreMemoryWriteInv DEF Hook
<1>2. ASSUME NEW t \in Turns, NEW i \in Slots, Client(t, i) PROVE IInv'
  BY <1>2, AttemptRefusedInv, AttemptFailsInv, AnsweredInv DEF Client
<1>3. ASSUME NEW r \in late, ExecuteLate(r) PROVE IInv'
  BY <1>3, ExecuteLateInv
<1>4. CASE UNCHANGED vars
  BY <1>4, StutterInv
<1> QED BY <1>1, <1>2, <1>3, <1>4 DEF Next

\* What has been sent, given and kept, in every state.
LEMMA Invariance == Spec => []IInv
<1>1. Init => IInv
  BY InitInv
<1>2. IInv /\ [Next]_vars => IInv'
  BY NextInv
<1> QED BY <1>1, <1>2, PTL DEF Spec

\* The state is well typed.
LEMMA TypesOK ==
    ASSUME IInv
    PROVE  TypeOK
<1>1. CallTypes
  BY DEF IInv
<1>2. ASSUME NEW t \in Turns PROVE text[t] \in Seq(Tokens)
  BY <1>1, TextFacts DEF CallTypes
<1>3. ASSUME NEW t \in Turns, NEW i \in Slots, call[t][i].state = "wait"
      PROVE  call[t][i].attempt \in 1..maxRetries
  <2>1. call[t][i] \in Calls
    BY <1>1 DEF CallTypes
  <2> QED BY <1>3, <2>1, CallKinds DEF Waiting
<1> QED BY <1>1, <1>2, <1>3 DEF TypeOK, CallTypes

\* In a strict or balanced workspace no original that the detectors know
\* reaches the model in a turn whose replies were all masked in the full mode
\* (pre-llm-call.ts), for any texts, tools, policy file and number of retries.
THEOREM ModelBlind == Spec => []ModelSeesNoOriginal
<1>1. IInv => ModelSeesNoOriginal
  BY TypesOK DEF IInv, SentInv, ModelSeesNoOriginal
<1> QED BY <1>1, Invariance, PTL

\* Nor does one get into long-term memory, in any profile
\* (pre-memory-write.ts:14-17).
THEOREM MemoryMasked == Spec => []MemoryHoldsNoOriginal
<1>1. IInv => MemoryHoldsNoOriginal
  BY DEF IInv
<1> QED BY <1>1, Invariance, PTL

\* And a tool gets one that the model had not seen only when it is trusted and
\* the narrowest entry of the policy file says so (pre-tool-call.ts:19-21).
THEOREM ToolsTrusted == Spec => []OriginalsOnlyToTrusted
<1>1. IInv => OriginalsOnlyToTrusted
  BY DEF IInv
<1> QED BY <1>1, Invariance, PTL
=============================================================================
