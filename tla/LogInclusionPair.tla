-------------------------- MODULE LogInclusionPair --------------------------
(***************************************************************************)
(* Two calls of _log_verify_inclusion for the same position, run side by   *)
(* side.  A single call cannot show that an inclusion proof binds: that    *)
(* takes two accepted proofs to compare.  The order of the two calls does  *)
(* not matter (they share nothing), so each step advances both.            *)
(***************************************************************************)
EXTENDS LogInclusion

CONSTANT Rivals     \* the calls the first one is paired with, besides itself

ASSUME RivalsAssumption == Rivals \subseteq Calls

VARIABLES callB, pcB, iB, fnB, snB, rB, retB

B == INSTANCE LogInclusion
       WITH call <- callB, pc <- pcB, i <- iB, fn <- fnB, sn <- snB, r <- rB,
            ret <- retB

varsB == <<callB, pcB, iB, fnB, snB, rB, retB>>
pairVars == <<vars, varsB>>

PairInit ==
  /\ Init
  /\ callB \in {call} \cup Rivals
  /\ call.leaf_index = callB.leaf_index
  /\ call.tree_size = callB.tree_size
  /\ B!Locals

\* A call that has returned waits for the other.
AdvanceA == Next \/ (ret # "none" /\ UNCHANGED vars)
AdvanceB == B!Next \/ (retB # "none" /\ UNCHANGED varsB)

PairNext == AdvanceA /\ AdvanceB

\* Both calls run to their ends: nothing else holds the single thread.
PairSpec == PairInit /\ [][PairNext]_pairVars /\ WF_pairVars(PairNext)
----------------------------------------------------------------------------
BothRunning == ret = "none" /\ retB = "none"
BothAccept == ret = "True" /\ retB = "True"

SamePath(p, q) == Len(p) = Len(q) /\ \A k \in 1..Len(p) : p[k] = q[k]

\* A root commits to what stands at each position: whatever two leaf hashes
\* and two paths are accepted for one index, one tree size and one root, they
\* are the same leaf hash and the same path.  This is what makes an inclusion
\* proof evidence; a size check that lets a node pass for a leaf, or a fold
\* that drops an argument, breaks it for some pair no golden vector contains.
PositionBinds ==
  BothAccept /\ call.root = callB.root =>
    call.lh = callB.lh /\ SamePath(call.path, callB.path)
=============================================================================
