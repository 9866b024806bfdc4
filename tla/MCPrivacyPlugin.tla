-------------------------- MODULE MCPrivacyPlugin ---------------------------
(* The instance of PrivacyPlugin that TLC checks: two persons in the texts *)
(* of the users, one with a name too short to be re-masked in the prompts  *)
(* and in what tools return.                                               *)
EXTENDS PrivacyPlugin

CONSTANTS t1, t2, ivanov, petrov, li

MCMatches == [s \in Surfaces |-> <<>>]
MCPerson == [s \in Surfaces |-> TRUE]
MCLemma == [s \in Surfaces |-> s]

MCUserText == [t \in Turns |-> <<Surface(IF t = t1 THEN ivanov ELSE petrov)>>]

Crm == <<"crm">>
Deals == <<"crm", "deals">>
Web == <<"web">>
MCToolNames == {Crm, Deals, Web}
MCCharacters == [n \in MCToolNames |-> CASE n = Crm -> 3 [] n = Deals -> 9 [] n = Web -> 4]

MCTable == {[pattern |-> [kind |-> "any"], policy |-> "keep_anonymized"],
            [pattern |-> [kind |-> "family", name |-> Crm], policy |-> "deanonymize"],
            [pattern |-> [kind |-> "exact", name |-> Crm], policy |-> "deny"],
            [pattern |-> [kind |-> "exact", name |-> Web], policy |-> "per_field"]}
=============================================================================
