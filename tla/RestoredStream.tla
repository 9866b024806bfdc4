--------------------------- MODULE RestoredStream ---------------------------
(***************************************************************************)
(* What a streamed restore promises: at every moment the client has been   *)
(* shown the restoration of a prefix of the model's answer, that prefix    *)
(* never ends inside a placeholder (unless the answer does), and nothing   *)
(* is shown after the terminal event.                                      *)
(*                                                                         *)
(* The answer is a sequence of characters.  A restoration is described by  *)
(* the placeholders that were replaced in it: the rest is shown as it is.  *)
(***************************************************************************)
EXTENDS Naturals, Sequences

CONSTANTS
    Shapes,   \* the strings _PLACEHOLDER_RE matches
    Known,    \* those of them the workspace has a row for
    Answers   \* the texts a model may answer with

VARIABLES
    text,      \* the whole answer
    shown,     \* how many of its characters have been dealt with
    restored,  \* the placeholders of the shown part that were replaced
    status     \* "open" until the terminal event

vars == <<text, shown, restored, status>>

\* The matches of _PLACEHOLDER_RE in positions a+1..b.  A shape has its only
\* "<" in front and its only ">" at the end, so matches never overlap.
Occurrences(a, b) ==
    {o \in [at : (a + 1)..b, shape : Shapes] :
        /\ o.at + Len(o.shape) - 1 <= b
        /\ \A k \in 1..Len(o.shape) : text[o.at + k - 1] = o.shape[k]}

\* What unmask_text replaces there.
Restorable(a, b) == {o \in Occurrences(a, b) : o.shape \in Known}

\* No placeholder of the answer extends over position c.
CleanCut(c) ==
    \A o \in Occurrences(0, Len(text)) : o.at > c \/ o.at + Len(o.shape) - 1 <= c

Init ==
    /\ text \in Answers
    /\ shown = 0
    /\ restored = {}
    /\ status = "open"

Show(c) ==
    /\ status = "open"
    /\ CleanCut(c)
    /\ shown' = c
    /\ restored' = Restorable(0, c)
    /\ UNCHANGED <<text, status>>

\* The answer may break off anywhere.
End(c) ==
    /\ status = "open"
    /\ shown' = c
    /\ restored' = Restorable(0, c)
    /\ status' = "ended"
    /\ UNCHANGED text

Fail ==
    /\ status = "open"
    /\ status' = "failed"
    /\ UNCHANGED <<text, shown, restored>>

Next ==
    \/ \E c \in shown..Len(text) : Show(c) \/ End(c)
    \/ Fail

Spec == Init /\ [][Next]_vars
============================================================================
