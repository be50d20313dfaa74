----------------------------- MODULE MCAnswers -----------------------------
(* Small instances of Answers.                                               *)
EXTENDS Answers, TLC

CONSTANTS c1, g1, g2, h1, h2, close, distant, p1, p2, p3, p4, p5, p6

\* One question, near one phrase.
OneNear == [q \in {"question"} |-> {close}]

\* One question near every phrase.
AllNear == [q \in {"question"} |-> Phrases]

Symmetry == Permutations({h1, h2}) \cup Permutations(Guardrails)

=============================================================================
