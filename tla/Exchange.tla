------------------------------ MODULE Exchange ------------------------------
(***************************************************************************)
(* What the user of a client that asks a server promises itself of it: the *)
(* client has one question at a time, an answer belongs to the question    *)
(* that was asked last, and it stays as it is until the question is        *)
(* dropped or replaced, which takes its answer along.                      *)
(***************************************************************************)
CONSTANTS
  Questions,     \* what may be asked
  AnswersTo(_),  \* the answers that belong to a question
  None           \* no question, no answer

VARIABLES asked, answer

Init == asked = None /\ answer = None

Ask == asked' \in Questions \ {asked} /\ answer' = None

Answer ==
  /\ asked # None /\ answer = None
  /\ answer' \in AnswersTo(asked)
  /\ UNCHANGED asked

Drop == asked' = None /\ answer' = None

Spec == Init /\ [][Ask \/ Answer \/ Drop]_<<asked, answer>>
=============================================================================
