------------------------- MODULE LogConsistencyPair -------------------------
(***************************************************************************)
(* Two calls of _log_verify_consistency between the same two sizes, run    *)
(* side by side: what one accepted proof excludes is seen by comparing it  *)
(* with another.  The calls share nothing, so each step advances both.     *)
(***************************************************************************)
EXTENDS LogConsistency

CONSTANT Rivals     \* the calls the first one is paired with, besides itself

ASSUME RivalsAssumption == Rivals \subseteq Calls

VARIABLES callB, pcB, pathB, iB, fnB, snB, frB, srB, retB

B == INSTANCE LogConsistency
       WITH call <- callB, pc <- pcB, path <- pathB, i <- iB, fn <- fnB,
            sn <- snB, fr <- frB, sr <- srB, ret <- retB

varsB == <<callB, pcB, pathB, iB, fnB, snB, frB, srB, retB>>
pairVars == <<vars, varsB>>

PairInit ==
  /\ Init
  /\ callB \in {call} \cup Rivals
  /\ call.first = callB.first
  /\ call.second = callB.second
  /\ B!Locals

\* A call that has returned waits for the other.
AdvanceA == Next \/ (ret # "none" /\ UNCHANGED vars)
AdvanceB == B!Next \/ (retB # "none" /\ UNCHANGED varsB)

PairNext == AdvanceA /\ AdvanceB

\* Both calls run to their ends: nothing else holds the single thread.
PairSpec == PairInit /\ [][PairNext]_pairVars /\ WF_pairVars(PairNext)
----------------------------------------------------------------------------
BothRunning == ret = "none" /\ retB = "none"
BothAccept == ret = "True" /\ retB = "True"

\* One history per root: a second root has at most one root of a given
\* earlier size behind it, so a log that has shown two different roots of one
\* size can never prove both consistent with the same later tree.  Every
\* element must reach sr as well as fr, whatever the shapes of the trees.
HistoryIsUnique ==
  BothAccept /\ call.second_root = callB.second_root =>
    call.first_root = callB.first_root
=============================================================================
