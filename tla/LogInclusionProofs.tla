------------------------- MODULE LogInclusionProofs -------------------------
(***************************************************************************)
(* Proofs about the folding loop of _log_verify_inclusion.                 *)
(*                                                                         *)
(* First one call, for every argument list: the types, and that the loop   *)
(* stays inside the tree.  Then PositionBinds for every tree size, index,  *)
(* path and hash.  The argument runs the two calls in lockstep: while both *)
(* run they stand at the same node, so they hash on the same side, and     *)
(* equal results can only come from equal operands all the way down to the *)
(* leaf.                                                                   *)
(***************************************************************************)
EXTENDS LogInclusionPair, TLAPS

\* Halving a natural gives a smaller natural, keeps <= and is strict above 0.
LEMMA HalfFacts ==
  ASSUME NEW m \in Nat
  PROVE  /\ Half(m) \in Nat
         /\ Half(m) <= m
         /\ m > 0 => Half(m) < m
         /\ ~IsOdd(m) /\ m # 0 => Half(m) > 0
BY DEF Half, IsOdd

LEMMA HalfMonotone ==
  ASSUME NEW m \in Nat, NEW n \in Nat, m <= n
  PROVE  Half(m) <= Half(n)
BY DEF Half

\* The call's types are right in every reachable state.
THEOREM TypeCorrect == Spec => []TypeOK
<1>1. Init => TypeOK
  BY CallsAssumption DEF Init, Locals, TypeOK, Control
<1>2. TypeOK /\ [Next]_vars => TypeOK'
  <2> SUFFICES ASSUME TypeOK, [Next]_vars
               PROVE  TypeOK'
    OBVIOUS
  <2> USE DEF TypeOK, Control
  <2>1. CASE RejectIndex
    BY <2>1 DEF RejectIndex, Return, Bool
  <2>2. CASE Enter
    BY <2>2 DEF Enter
  <2>3. CASE RejectLongPath
    BY <2>3 DEF RejectLongPath, Return, Bool
  <2>4. CASE FoldLeftSibling
    BY <2>4 DEF FoldLeftSibling
  <2>5. CASE FoldRightSibling
    BY <2>5 DEF FoldRightSibling
  <2>6. CASE SkipLevel
    BY <2>6, HalfFacts DEF SkipLevel
  <2>7. CASE EndSkip
    BY <2>7 DEF EndSkip
  <2>8. CASE NextLevel
    BY <2>8, HalfFacts DEF NextLevel
  <2>9. CASE Finish
    BY <2>9 DEF Finish, Return, Bool
  <2>10. CASE UNCHANGED vars
    BY <2>10 DEF vars
  <2> QED
    BY <2>1, <2>2, <2>3, <2>4, <2>5, <2>6, <2>7, <2>8, <2>9, <2>10 DEF Next
<1> QED
  BY <1>1, <1>2, PTL DEF Spec
----------------------------------------------------------------------------
\* WithinTree is inductive once the locals' initial values are added to it.
AtEntry == pc = "entry" => i = 0 /\ r = call.lh

CallIInv == TypeOK /\ AtEntry /\ WithinTree

LEMMA WithinTreeInductive == CallIInv /\ [Next]_vars => AtEntry' /\ WithinTree'
<1> SUFFICES ASSUME CallIInv, [Next]_vars
             PROVE  AtEntry' /\ WithinTree'
  OBVIOUS
<1> USE DEF CallIInv, TypeOK, AtEntry, WithinTree
<1>1. CASE RejectIndex
  BY <1>1 DEF RejectIndex, Return
<1>2. CASE Enter
  BY <1>2 DEF Enter
<1>3. CASE RejectLongPath
  BY <1>3 DEF RejectLongPath, Return
<1>4. CASE FoldLeftSibling
  BY <1>4 DEF FoldLeftSibling
<1>5. CASE FoldRightSibling
  BY <1>5 DEF FoldRightSibling
<1>6. CASE SkipLevel
  \* fn = sn # 0 is even, so both halves are positive and smaller.
  <2>1. fn \in Nat /\ fn = sn /\ sn > 0 /\ ~IsOdd(fn)
    BY <1>6 DEF SkipLevel
  <2>2. Half(sn) \in Nat /\ Half(sn) > 0 /\ Half(sn) < sn
    BY <2>1, HalfFacts
  <2> QED
    BY <1>6, <2>1, <2>2 DEF SkipLevel
<1>7. CASE EndSkip
  BY <1>7 DEF EndSkip
<1>8. CASE NextLevel
  <2>1. /\ fn \in Nat /\ sn \in Nat /\ fn <= sn /\ sn > 0
        /\ i < Len(call.path) /\ i + sn < call.tree_size
    BY <1>8 DEF NextLevel
  <2>2. Half(sn) \in Nat /\ Half(fn) \in Nat /\ Half(sn) < sn
    BY <2>1, HalfFacts
  <2>3. Half(fn) <= Half(sn)
    BY <2>1, HalfMonotone
  <2> QED
    BY <1>8, <2>1, <2>2, <2>3 DEF NextLevel
<1>9. CASE Finish
  BY <1>9 DEF Finish, Return
<1>10. CASE UNCHANGED vars
  BY <1>10 DEF vars
<1> QED
  BY <1>1, <1>2, <1>3, <1>4, <1>5, <1>6, <1>7, <1>8, <1>9, <1>10 DEF Next

\* For every tree size, index and path, the loop stays inside the tree: it
\* reads no element past the path and climbs at least one level per element.
THEOREM StaysWithinTree == Spec => []WithinTree
<1>1. Init => AtEntry /\ WithinTree
  BY DEF Init, Locals, AtEntry, WithinTree
<1>2. Spec => []TypeOK
  BY TypeCorrect
<1>3. TypeOK /\ (AtEntry /\ WithinTree) /\ [Next]_vars
        => (AtEntry /\ WithinTree)'
  BY WithinTreeInductive DEF CallIInv
<1> QED
  BY <1>1, <1>2, <1>3, PTL DEF Spec
----------------------------------------------------------------------------
\* Elements of the path that have gone into r.
Consumed(at, n) == IF at \in {"shift", "halve"} THEN n + 1 ELSE n

AgreeUpTo(n) == \A k \in 1..n : call.path[k] = callB.path[k]

SamePosition ==
  /\ call.leaf_index = callB.leaf_index
  /\ call.tree_size = callB.tree_size
  /\ call.leaf_index \in Nat
  /\ call.tree_size \in Nat

PairControl ==
  /\ i \in Nat
  /\ iB \in Nat
  /\ Len(call.path) \in Nat
  /\ Len(callB.path) \in Nat
  /\ pc = "returned" <=> ret # "none"
  /\ pcB = "returned" <=> retB # "none"

Lockstep ==
  BothRunning => /\ pc = pcB
                 /\ i = iB
                 /\ fn = fnB
                 /\ sn = snB

\* An accepting call leaves no call running behind it.
AcceptTogether ==
  /\ ret = "True" => retB # "none"
  /\ retB = "True" => ret # "none"

\* The heart of the argument: the accumulator determines what went into it.
Injective ==
  (BothRunning \/ BothAccept) /\ r = rB =>
    call.lh = callB.lh /\ AgreeUpTo(Consumed(pc, i))

AcceptedAtRoot ==
  BothAccept => /\ i = Len(call.path) /\ r = call.root
                /\ iB = Len(callB.path) /\ rB = callB.root
                /\ i = iB

IInv ==
  /\ SamePosition
  /\ PairControl
  /\ Lockstep
  /\ AcceptTogether
  /\ Injective
  /\ AcceptedAtRoot

LEMMA InitIInv == PairInit => IInv
<1> SUFFICES ASSUME PairInit
             PROVE  IInv
  OBVIOUS
<1>1. call \in Calls /\ callB \in Calls
  BY RivalsAssumption DEF PairInit, Init
<1>2. /\ Len(call.path) \in Nat /\ Len(callB.path) \in Nat
      /\ call.leaf_index \in Nat /\ call.tree_size \in Nat
  BY <1>1, CallsAssumption
<1> QED
  BY <1>2 DEF PairInit, Init, Locals, B!Locals, IInv, SamePosition, PairControl,
     Lockstep, AcceptTogether, Injective, AcceptedAtRoot, BothRunning,
     BothAccept, Consumed, AgreeUpTo

----------------------------------------------------------------------------
\* One step of both calls while both run.  The guard of A's action decides
\* B's action, because everything the guards read is equal.
LEMMA RunningStep ==
  ASSUME IInv, BothRunning, Next, B!Next
  PROVE  IInv'
<1> USE DEF IInv, SamePosition, PairControl, Lockstep, AcceptTogether, Injective,
        AcceptedAtRoot, BothRunning, BothAccept, Consumed, AgreeUpTo
<1> USE DEF Return, B!Return, Bool, B!Bool
<1>1. CASE RejectIndex
  <2>1. B!RejectIndex
    BY <1>1 DEF RejectIndex, IsOdd, B!IsOdd, B!Next, B!RejectIndex,
       B!Enter, B!RejectLongPath, B!FoldLeftSibling, B!FoldRightSibling,
       B!SkipLevel, B!EndSkip, B!NextLevel, B!Finish
  <2> QED
    BY <1>1, <2>1 DEF RejectIndex, B!RejectIndex
<1>2. CASE Enter
  <2>1. B!Enter
    BY <1>2 DEF Enter, IsOdd, B!IsOdd, B!Next, B!RejectIndex, B!Enter,
       B!RejectLongPath, B!FoldLeftSibling, B!FoldRightSibling, B!SkipLevel,
       B!EndSkip, B!NextLevel, B!Finish
  <2> QED
    BY <1>2, <2>1 DEF Enter, B!Enter
<1>3. CASE RejectLongPath
  <2>1. B!RejectLongPath \/ B!Finish
    BY <1>3 DEF RejectLongPath, IsOdd, B!IsOdd, B!Next, B!RejectIndex,
       B!Enter, B!RejectLongPath, B!FoldLeftSibling, B!FoldRightSibling,
       B!SkipLevel, B!EndSkip, B!NextLevel, B!Finish
  <2> QED
    BY <1>3, <2>1 DEF RejectLongPath, B!RejectLongPath, B!Finish
<1>4. CASE FoldLeftSibling
  <2>1. B!FoldLeftSibling \/ (B!Finish /\ snB # 0)
    BY <1>4 DEF FoldLeftSibling, IsOdd, B!IsOdd, B!Next, B!RejectIndex,
       B!Enter, B!RejectLongPath, B!FoldLeftSibling, B!FoldRightSibling,
       B!SkipLevel, B!EndSkip, B!NextLevel, B!Finish
  <2>2. CASE B!Finish /\ snB # 0
    BY <1>4, <2>2 DEF FoldLeftSibling, B!Finish
  <2>3. CASE B!FoldLeftSibling
    <3>1. r' = rB' => r = rB /\ call.path[i + 1] = callB.path[iB + 1]
      BY <1>4, <2>3 DEF FoldLeftSibling, B!FoldLeftSibling, NodeHash,
         B!NodeHash
    <3>2. Injective'
      BY <1>4, <2>3, <3>1 DEF FoldLeftSibling, B!FoldLeftSibling
    <3> QED
      BY <1>4, <2>3, <3>2 DEF FoldLeftSibling, B!FoldLeftSibling, IsOdd,
         B!IsOdd
  <2> QED
    BY <2>1, <2>2, <2>3
<1>5. CASE FoldRightSibling
  <2>1. B!FoldRightSibling \/ (B!Finish /\ snB # 0)
    BY <1>5 DEF FoldRightSibling, IsOdd, B!IsOdd, B!Next, B!RejectIndex,
       B!Enter, B!RejectLongPath, B!FoldLeftSibling, B!FoldRightSibling,
       B!SkipLevel, B!EndSkip, B!NextLevel, B!Finish
  <2> QED
    BY <1>5, <2>1 DEF FoldRightSibling, B!FoldRightSibling, B!Finish,
       IsOdd, B!IsOdd, NodeHash, B!NodeHash
<1>6. CASE SkipLevel
  <2>1. B!SkipLevel
    BY <1>6 DEF SkipLevel, IsOdd, B!IsOdd, B!Next, B!RejectIndex,
       B!Enter, B!RejectLongPath, B!FoldLeftSibling, B!FoldRightSibling,
       B!SkipLevel, B!EndSkip, B!NextLevel, B!Finish
  <2> QED
    BY <1>6, <2>1 DEF SkipLevel, B!SkipLevel, IsOdd, B!IsOdd, Half,
       B!Half
<1>7. CASE EndSkip
  <2>1. B!EndSkip
    BY <1>7 DEF EndSkip, IsOdd, B!IsOdd, B!Next, B!RejectIndex, B!Enter,
       B!RejectLongPath, B!FoldLeftSibling, B!FoldRightSibling, B!SkipLevel,
       B!EndSkip, B!NextLevel, B!Finish
  <2> QED
    BY <1>7, <2>1 DEF EndSkip, B!EndSkip
<1>8. CASE NextLevel
  <2>1. B!NextLevel
    BY <1>8 DEF NextLevel, IsOdd, B!IsOdd, B!Next, B!RejectIndex,
       B!Enter, B!RejectLongPath, B!FoldLeftSibling, B!FoldRightSibling,
       B!SkipLevel, B!EndSkip, B!NextLevel, B!Finish
  <2> QED
    BY <1>8, <2>1 DEF NextLevel, B!NextLevel, IsOdd, B!IsOdd, Half,
       B!Half
<1>9. CASE Finish
  <2>1. B!Finish \/ B!RejectLongPath
        \/ (snB # 0 /\ (B!FoldLeftSibling \/ B!FoldRightSibling))
    BY <1>9 DEF Finish, IsOdd, B!IsOdd, B!Next, B!RejectIndex, B!Enter,
       B!RejectLongPath, B!FoldLeftSibling, B!FoldRightSibling, B!SkipLevel,
       B!EndSkip, B!NextLevel, B!Finish
  <2> QED
    BY <1>9, <2>1 DEF Finish, B!Finish, B!RejectLongPath,
       B!FoldLeftSibling, B!FoldRightSibling
<1> QED
  BY <1>1, <1>2, <1>3, <1>4, <1>5, <1>6, <1>7, <1>8, <1>9 DEF Next

\* A call has returned: nothing the invariant still promises can be lost.
LEMMA WaitingStep ==
  ASSUME IInv, ~BothRunning, PairNext
  PROVE  IInv'
<1> USE DEF IInv, SamePosition, PairControl, Lockstep, AcceptTogether, Injective,
        AcceptedAtRoot, BothRunning, BothAccept, Consumed, AgreeUpTo
<1>1. Next => ret = "none" /\ call' = call
  BY DEF Next, RejectIndex, Enter, RejectLongPath, FoldLeftSibling,
     FoldRightSibling, SkipLevel, EndSkip, NextLevel, Finish,
     Return
<1>2. B!Next => retB = "none" /\ callB' = callB
  BY DEF B!Next, B!RejectIndex, B!Enter, B!RejectLongPath, B!FoldLeftSibling,
     B!FoldRightSibling, B!SkipLevel, B!EndSkip, B!NextLevel, B!Finish,
     B!Return
<1>3. Next => i' \in Nat /\ (pc' = "returned" <=> ret' # "none")
  BY DEF Next, RejectIndex, Enter, RejectLongPath, FoldLeftSibling,
     FoldRightSibling, SkipLevel, EndSkip, NextLevel, Finish,
     Return, Bool
<1>4. B!Next => iB' \in Nat /\ (pcB' = "returned" <=> retB' # "none")
  BY DEF B!Next, B!RejectIndex, B!Enter, B!RejectLongPath, B!FoldLeftSibling,
     B!FoldRightSibling, B!SkipLevel, B!EndSkip, B!NextLevel, B!Finish,
     B!Return, B!Bool
<1>5. CASE UNCHANGED vars /\ UNCHANGED varsB
  BY <1>5 DEF vars, varsB
<1>6. CASE Next /\ retB # "none" /\ UNCHANGED varsB
  BY <1>6, <1>1, <1>3 DEF varsB
<1>7. CASE B!Next /\ ret # "none" /\ UNCHANGED vars
  BY <1>7, <1>2, <1>4 DEF vars
<1> QED
  BY <1>1, <1>2, <1>5, <1>6, <1>7 DEF PairNext, AdvanceA, AdvanceB

LEMMA StepIInv == IInv /\ [PairNext]_pairVars => IInv'
<1> SUFFICES ASSUME IInv, [PairNext]_pairVars
             PROVE  IInv'
  OBVIOUS
<1>1. CASE UNCHANGED pairVars
  BY <1>1 DEF pairVars, vars, varsB, IInv, SamePosition, PairControl, Lockstep,
     AcceptTogether, Injective, AcceptedAtRoot, BothRunning, BothAccept,
     Consumed, AgreeUpTo
<1>2. CASE PairNext /\ BothRunning
  BY <1>2, RunningStep DEF PairNext, AdvanceA, AdvanceB, BothRunning
<1>3. CASE PairNext /\ ~BothRunning
  BY <1>3, WaitingStep
<1> QED
  BY <1>1, <1>2, <1>3

\* Two accepted inclusion proofs for one index, tree size and root are the
\* same proof of the same leaf, whatever the sizes and the hashes.
THEOREM InclusionBinds == PairSpec => []PositionBinds
<1>1. IInv => PositionBinds
  BY DEF IInv, PairControl, Injective, AcceptedAtRoot, BothAccept, BothRunning,
     Consumed, AgreeUpTo, PositionBinds, SamePath
<1> QED
  BY InitIInv, StepIInv, <1>1, PTL DEF PairSpec
=============================================================================
