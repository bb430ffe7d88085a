--------------------------- MODULE TrustListPair ---------------------------
(***************************************************************************)
(* Two evaluations of one body, one after the other, by two lists with one *)
(* window: the second list holds every entry of the first, in any order    *)
(* and perhaps with more, and the registry's capabilities are perhaps      *)
(* known to one of them only.                                              *)
(***************************************************************************)
EXTENDS TrustList

CONSTANT Rivals     \* the lists evaluated by next, besides the first again

ASSUME RivalsAssumption == Rivals \subseteq Lists

VARIABLE earlier    \* the evaluation before the one at hand: none, or one

pairVars == <<vars, earlier>>

Evaluation == [tl |-> tl, case |-> case, out |-> out]
Evaluations == [tl : TrustList, case : Case, out : Answer]
First == earlier[1]

HoldsAll(l, m) ==
  \A j \in DOMAIN m.entries : \E k \in DOMAIN l.entries : l.entries[k] = m.entries[j]

SameWindow(l, m) == m.valid_from = l.valid_from /\ m.valid_until = l.valid_until

PairInit == Init /\ earlier = << >>

Evaluate == Next /\ UNCHANGED earlier

EvaluateAgain ==
  /\ pc = "returned"
  /\ earlier = << >>
  /\ earlier' = <<Evaluation>>
  /\ tl' \in {tl} \cup Rivals
  /\ SameWindow(tl, tl')
  /\ HoldsAll(tl', tl)
  /\ case' \in {[case EXCEPT !.capabilities = c.capabilities] : c \in Cases}
  /\ pc' = "start" /\ i' = 0 /\ best' = 0 /\ out' = NoAnswer /\ ret' = "none"

PairNext == Evaluate \/ EvaluateAgain

\* An evaluation runs to its end: nothing else holds the single thread.
PairSpec == PairInit /\ [][PairNext]_pairVars /\ WF_pairVars(Evaluate)
----------------------------------------------------------------------------
BothAnswered == Answered /\ earlier # << >>

\* Entries only add trust: whatever is added to a list and however it is
\* reordered, the outcome of a body does not get worse.
EntriesOnlyAdd ==
  BothAnswered /\ case = First.case => Rank(out.outcome) <= Rank(First.out.outcome)

\* Knowing the capabilities only refuses: an outcome obtained without them,
\* also by a list with more entries, is at least as good as the one with them,
\* and says so by profiles_checked.
CapabilitiesOnlyRefuse ==
  /\ BothAnswered
  /\ First.case.capabilities.present
  /\ ~case.capabilities.present
  => /\ Rank(out.outcome) <= Rank(First.out.outcome)
     /\ First.out.profiles_checked /\ ~out.profiles_checked
=============================================================================
