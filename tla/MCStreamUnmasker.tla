-------------------------- MODULE MCStreamUnmasker --------------------------
(* Two placeholders, one of them with a row and as long as the buffer      *)
(* allows, and every answer of up to MaxLen characters over an alphabet    *)
(* that spells them.                                                       *)
EXTENDS RestoreStream

CONSTANT MaxLen

Short == <<"<", "a", ">">>
Long == <<"<", "a", "a", ">">>

MCShapes == {Short, Long}
MCKnown == {Long}
MCAnswers == UNION {[1..n -> {"<", ">", "a"}] : n \in 0..MaxLen}
============================================================================
