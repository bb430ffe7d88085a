------------------------- MODULE KeyRevocationPair -------------------------
(***************************************************************************)
(* Two calls of check_revocation_class, one after the other, about one     *)
(* context and one receipt: the second one knows every revocation the      *)
(* first one knew, in any order and perhaps more.  It is the situation of  *)
(* a verifier that asks again after it has learned something.              *)
(***************************************************************************)
EXTENDS KeyRevocation

CONSTANT Rivals     \* the vectors asked about next, besides the first again

ASSUME RivalsAssumption == Rivals \subseteq Vectors

VARIABLE earlier    \* the call before the one at hand: none, or one

pairVars == <<vars, earlier>>

Call == [vector |-> vector, got |-> got, ret |-> ret]
Calls == [vector : Vector, got : Answer, ret : {"True", "False"}]
First == earlier[1]

Knows(v, r) == \E j \in DOMAIN v.revocations : v.revocations[j] = r

\* LearnedMore(v, w): w asks what v asked, knowing at least as much.
LearnedMore(v, w) ==
  /\ w.context = v.context
  /\ w.receipt = v.receipt
  /\ \A j \in DOMAIN v.revocations : Knows(w, v.revocations[j])

PairInit == Init /\ earlier = << >>

Classify == Next /\ UNCHANGED earlier

AskAgain ==
  /\ pc = "returned"
  /\ earlier = << >>
  /\ earlier' = <<Call>>
  /\ vector' \in {vector} \cup Rivals
  /\ LearnedMore(vector, vector')
  /\ pc' = "filter" /\ k' = 1 /\ members' = {} /\ first' = 0
  /\ got' = Without("unknown") /\ ret' = "none"

PairNext == Classify \/ AskAgain

\* A call runs to its end: nothing else holds the single thread.  Nobody has
\* to ask again.
PairSpec == PairInit /\ [][PairNext]_pairVars /\ WF_pairVars(Classify)
----------------------------------------------------------------------------
BothAnswered == Answered /\ earlier # << >>

Refused == {"revoked", "unplaceable"}

\* More knowledge never softens a refusal, whatever lookups are open: a
\* context that was revoked stays revoked, one that could not be placed stays
\* so, and the boundary only moves back.
RefusalStands ==
  BothAnswered /\ First.got.key_revocation \in Refused =>
    /\ got.key_revocation = First.got.key_revocation
    /\ got.boundary <= First.got.boundary

\* The order of the list does not matter: two calls that know the same
\* revocations and have no lookup open agree on the class and the boundary.
OrderIsIrrelevant ==
  /\ BothAnswered
  /\ ~First.vector.unknown_lookups /\ ~vector.unknown_lookups
  /\ LearnedMore(vector, First.vector)
  => /\ got.key_revocation = First.got.key_revocation
     /\ got.boundary = First.got.boundary

\* The call that is made whatever happens: the first.
Asked == IF earlier = << >> THEN Call ELSE First

\* The check passes exactly on the vectors that expect the reference answer,
\* and it always returns.
Promise == INSTANCE Decision
  WITH right <- Deserved(Asked.vector), answer <- Asked.ret
CheckDecidesClass == Promise!Spec
=============================================================================
