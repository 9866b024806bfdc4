--------------------------- MODULE ToolPolicies ----------------------------
(* The tool-policy table of the privacy plugin (tool-policies.ts).  A tool *)
(* name is the sequence of its dotted parts; a pattern is "*", a family    *)
(* "a.b.*" or a name.  A table is a set of entries with distinct patterns, *)
(* as the keys of a YAML map are.                                          *)
EXTENDS Naturals, Sequences, FiniteSets, SequencesExt

CONSTANTS ToolNames,    \* the names tools are called by, and families are named after
          Characters,   \* name |-> its number of characters, dots included
          Table         \* the entries of tool-policies.yaml; none when it
                        \* cannot be read (an invalid file denies every call too)

Policies == {"deanonymize", "keep_anonymized", "per_field", "deny"}

Patterns == [kind : {"any"}] \cup [kind : {"family", "exact"}, name : ToolNames]

\* A name that another continues, after a dot, is the shorter one.
ASSUME TableAssumption ==
    /\ ToolNames \subseteq Seq(STRING)
    /\ Characters \in [ToolNames -> Nat \ {0}]
    /\ \A m, n \in ToolNames : IsStrictPrefix(m, n) => Characters[m] < Characters[n]
    /\ IsFiniteSet(Table)
    /\ Table \subseteq [pattern : Patterns, policy : Policies]
    /\ \A e, f \in Table : e.pattern = f.pattern => e = f

matchPattern(pattern, name) ==
    CASE pattern.kind = "any" -> TRUE
      [] pattern.kind = "family" -> IsPrefix(pattern.name, name)
      [] pattern.kind = "exact" -> pattern.name = name

\* A mutant of prefixSpecificity: an exact match has no advantage.
SpecificityByLength(pattern) ==
    IF pattern.kind = "any" THEN 0 ELSE Characters[pattern.name]

prefixSpecificity(pattern) ==
    CASE pattern.kind = "any" -> 0
      [] pattern.kind = "family" -> Characters[pattern.name]
      [] pattern.kind = "exact" -> Characters[pattern.name] + 1000

\* loadToolPolicies may leave the entries of a table in these orders: sorted
\* by descending specificity, ties as they stand in the file.
Orders(table) ==
    {s \in SetToSeqs(table) : \A i, j \in DOMAIN s :
        i < j => prefixSpecificity(s[i].pattern) >= prefixSpecificity(s[j].pattern)}

\* resolvePolicy walks the entries in order ...
Matching(entries, name) == {i \in DOMAIN entries : matchPattern(entries[i].pattern, name)}

FirstMatch(entries, name) ==
    entries[CHOOSE i \in Matching(entries, name) : \A j \in Matching(entries, name) : i <= j]

\* ... and denies what none of them matches.
resolvePolicy(entries, name) ==
    IF Matching(entries, name) = {} THEN "deny" ELSE FirstMatch(entries, name).policy

\* Every name that p matches, q matches.
Narrower(p, q) ==
    \/ q.kind = "any"
    \/ p = q
    \/ q.kind = "family" /\ p.kind # "any" /\ IsPrefix(q.name, p.name)

\* What the table says of a tool: the policy of the narrowest entry that
\* matches it, if there is one.
Says(table, name, policy) ==
    \E e \in table :
        /\ e.policy = policy
        /\ matchPattern(e.pattern, name)
        /\ \A f \in table : matchPattern(f.pattern, name) => Narrower(e.pattern, f.pattern)
=============================================================================
