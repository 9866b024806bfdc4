---------------------------- MODULE MCAnonymizer ----------------------------
(* The instance of Anonymizer that TLC checks.                             *)
EXTENDS Anonymizer, TLC

CONSTANTS w1, w2, s1, s2,
          ivanov,    \* a person's name in the nominative
          ivanovu,   \* the same person's name in the dative
          petrov,    \* another person
          tenDigits  \* a passport number; as an INN its checksum is wrong

MCMatches == [s \in Surfaces |->
    IF s = tenDigits
      THEN <<[type |-> "INN", valid |-> FALSE], [type |-> "PASSPORT", valid |-> TRUE]>>
      ELSE <<>>]
MCPerson == [s \in Surfaces |-> s # tenDigits]
MCLemma == [s \in Surfaces |-> IF s = ivanovu THEN ivanov ELSE s]

Name1 == [type |-> "NAME", n |-> 1]
Name2 == [type |-> "NAME", n |-> 2]
Pass1 == [type |-> "PASSPORT", n |-> 1]
Inn1  == [type |-> "INN", n |-> 1]

Names == <<Surface(ivanovu), Surface(petrov), Surface(ivanov)>>
Mixed == <<Ph(Name1), Surface(petrov), Surface(tenDigits)>>
MCUserRequests ==
    {[profile |-> "balanced", text |-> Names], [profile |-> "balanced", text |-> Mixed],
     [profile |-> "permissive", text |-> Mixed]}

MCLlmTexts == {<<Ph(Name1), Ph(Name2), Ph(Pass1)>>}

MCToolArgs == {[k \in ArgKeys |-> IF k = "client" THEN Ph(Name1) ELSE Ph(Pass1)]}

MCToolPolicy == [t \in Tools |->
    CASE t = "deals" -> [mode |-> "deanonymize", keys |-> {"client"}]
      [] t = "other" -> [mode |-> "forward_masked", keys |-> {}]]

Symmetry == Permutations(Workspaces) \cup Permutations(Sessions)
============================================================================
