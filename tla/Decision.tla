----------------------------- MODULE Decision -----------------------------
(***************************************************************************)
(* What a caller of a verifier relies on: the call answers once, the       *)
(* answer is the right one, and it comes.  Which answer is right is left   *)
(* to the instance.                                                        *)
(***************************************************************************)
VARIABLES
  right,            \* the answer the arguments deserve
  answer            \* "none" until the call returns

Init == answer = "none"

Decide ==
  /\ answer = "none"
  /\ answer' = right
  /\ UNCHANGED right

\* The call answers at most once, and then the right answer.
Safety == Init /\ [][Decide]_<<right, answer>>

Spec == Safety /\ WF_<<right, answer>>(Decide)
=============================================================================
