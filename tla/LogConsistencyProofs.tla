------------------------ MODULE LogConsistencyProofs ------------------------
(***************************************************************************)
(* Proofs about the folding loop of _log_verify_consistency.               *)
(*                                                                         *)
(* First one call, for every argument list: the types, and that the loop   *)
(* stays inside both trees.  Then HistoryIsUnique for all sizes, paths and *)
(* hashes.  While both calls run they stand at the same node, so they fold *)
(* on the same side; sr absorbs every element, so equal second roots force *)
(* equal paths, and equal paths rebuild equal first roots.                 *)
(***************************************************************************)
EXTENDS LogConsistencyPair, TLAPS

\* Halving a natural gives a smaller natural, strictly smaller above 0, and
\* stays above 0 for an even number that is not 0.
LEMMA HalfFacts ==
  ASSUME NEW m \in Nat
  PROVE  /\ Half(m) \in Nat
         /\ Half(m) <= m
         /\ m > 0 => Half(m) < m
         /\ ~IsOdd(m) /\ m # 0 => Half(m) > 0
BY DEF Half, IsOdd

LEMMA HalfMonotone ==
  ASSUME NEW m \in Nat, NEW n \in Nat, m <= n
  PROVE  Half(m) <= Half(n)
BY DEF Half

\* Above an odd number, halving keeps the order strict: stripping the first
\* tree's full subtrees never reaches the second tree's root.
LEMMA HalfStrictAboveOdd ==
  ASSUME NEW m \in Nat, NEW n \in Nat, IsOdd(m), m < n
  PROVE  Half(m) < Half(n)
BY DEF Half, IsOdd

\* The call's types are right in every reachable state.
LEMMA TypeInductive == TypeOK /\ [Next]_vars => TypeOK'
<1> SUFFICES ASSUME TypeOK, [Next]_vars
             PROVE  TypeOK'
  OBVIOUS
<1> USE DEF TypeOK, Control
<1>1. CASE SameSize
  BY <1>1 DEF SameSize, Return, Bool
<1>2. CASE RejectArguments
  BY <1>2 DEF RejectArguments, Return, Bool
<1>3. CASE Enter
  <2>1. path' \in Seq(Hash)
    BY <1>3 DEF Enter
  <2> QED
    BY <1>3, <2>1 DEF Enter
<1>4. CASE StripLevel
  BY <1>4, HalfFacts DEF StripLevel
<1>5. CASE Seed
  BY <1>5 DEF Seed
<1>6. CASE RejectLongPath
  BY <1>6 DEF RejectLongPath, Return, Bool
<1>7. CASE FoldBoth
  BY <1>7 DEF FoldBoth
<1>8. CASE FoldSecond
  BY <1>8 DEF FoldSecond
<1>9. CASE SkipLevel
  BY <1>9, HalfFacts DEF SkipLevel
<1>10. CASE EndSkip
  BY <1>10 DEF EndSkip
<1>11. CASE NextLevel
  BY <1>11, HalfFacts DEF NextLevel
<1>12. CASE Finish
  BY <1>12 DEF Finish, Return, Bool
<1>13. CASE UNCHANGED vars
  BY <1>13 DEF vars
<1> QED
  BY <1>1, <1>2, <1>3, <1>4, <1>5, <1>6, <1>7, <1>8, <1>9, <1>10, <1>11,
     <1>12, <1>13 DEF Next

THEOREM TypeCorrect == Spec => []TypeOK
<1>1. Init => TypeOK
  BY CallsAssumption DEF Init, Locals, TypeOK, Control
<1> QED
  BY <1>1, TypeInductive, PTL DEF Spec
----------------------------------------------------------------------------
\* WithinTrees is inductive once the locals' initial values are added to it.
AtEntry == pc = "entry" => i = 0

CallIInv == TypeOK /\ AtEntry /\ WithinTrees

LEMMA WithinTreesInductive == CallIInv /\ [Next]_vars => AtEntry' /\ WithinTrees'
<1> SUFFICES ASSUME CallIInv, [Next]_vars
             PROVE  AtEntry' /\ WithinTrees'
  OBVIOUS
<1> USE DEF CallIInv, TypeOK, AtEntry, WithinTrees
<1>1. CASE SameSize
  BY <1>1 DEF SameSize, Return
<1>2. CASE RejectArguments
  BY <1>2 DEF RejectArguments, Return
<1>3. CASE Enter
  <2>1. Len(path') > 0
    BY <1>3 DEF Enter
  <2> QED
    BY <1>3, <2>1 DEF Enter
<1>4. CASE StripLevel
  <2>1. fn \in Nat /\ sn \in Nat /\ IsOdd(fn) /\ fn < sn
    BY <1>4 DEF StripLevel
  <2>2. Half(fn) \in Nat /\ Half(sn) \in Nat /\ Half(fn) < Half(sn)
    BY <2>1, HalfFacts, HalfStrictAboveOdd
  <2>3. Half(sn) <= sn
    BY <2>1, HalfFacts
  <2> QED
    BY <1>4, <2>1, <2>2, <2>3 DEF StripLevel
<1>5. CASE Seed
  BY <1>5 DEF Seed
<1>6. CASE RejectLongPath
  BY <1>6 DEF RejectLongPath, Return
<1>7. CASE FoldBoth
  BY <1>7 DEF FoldBoth
<1>8. CASE FoldSecond
  BY <1>8 DEF FoldSecond
<1>9. CASE SkipLevel
  <2>1. fn \in Nat /\ fn = sn /\ sn > 0 /\ ~IsOdd(fn)
    BY <1>9 DEF SkipLevel
  <2>2. Half(sn) \in Nat /\ Half(sn) > 0 /\ Half(sn) < sn
    BY <2>1, HalfFacts
  <2> QED
    BY <1>9, <2>1, <2>2 DEF SkipLevel
<1>10. CASE EndSkip
  BY <1>10 DEF EndSkip
<1>11. CASE NextLevel
  <2>1. /\ fn \in Nat /\ sn \in Nat /\ fn <= sn /\ sn > 0
        /\ i < Len(path) /\ i + sn <= call.second
    BY <1>11 DEF NextLevel
  <2>2. Half(sn) \in Nat /\ Half(fn) \in Nat /\ Half(sn) < sn
    BY <2>1, HalfFacts
  <2>3. Half(fn) <= Half(sn)
    BY <2>1, HalfMonotone
  <2> QED
    BY <1>11, <2>1, <2>2, <2>3 DEF NextLevel
<1>12. CASE Finish
  BY <1>12 DEF Finish, Return
<1>13. CASE UNCHANGED vars
  BY <1>13 DEF vars
<1> QED
  BY <1>1, <1>2, <1>3, <1>4, <1>5, <1>6, <1>7, <1>8, <1>9, <1>10, <1>11,
     <1>12, <1>13 DEF Next

\* For every two sizes and every path, the loop stays on levels both trees
\* have, reads no element past the list and climbs a level per element.
THEOREM StaysWithinTrees == Spec => []WithinTrees
<1>1. Init => AtEntry /\ WithinTrees
  BY DEF Init, Locals, AtEntry, WithinTrees
<1>2. Spec => []TypeOK
  BY TypeCorrect
<1>3. TypeOK /\ (AtEntry /\ WithinTrees) /\ [Next]_vars
        => (AtEntry /\ WithinTrees)'
  BY WithinTreesInductive DEF CallIInv
<1> QED
  BY <1>1, <1>2, <1>3, PTL DEF Spec
----------------------------------------------------------------------------
SameSizes ==
  /\ call.first = callB.first
  /\ call.second = callB.second
  /\ call.first \in Nat
  /\ call.second \in Nat

PairControl ==
  /\ i \in Nat
  /\ iB \in Nat
  /\ path \in Seq(Hash) /\ call.first_root \in Hash
  /\ pathB \in Seq(Hash) /\ callB.first_root \in Hash
  /\ pc = "returned" <=> ret # "none"
  /\ pcB = "returned" <=> retB # "none"

Lockstep ==
  BothRunning => /\ pc = pcB
                 /\ i = iB
                 /\ fn = fnB
                 /\ sn = snB

\* An accepting call leaves no call running behind it.
AcceptTogether ==
  /\ ret = "True" => retB # "none"
  /\ retB = "True" => ret # "none"

\* The heart of the argument: what was folded into sr determines fr.
SecondDeterminesFirst ==
  BothRunning /\ pc \notin {"entry", "strip"} /\ sr = srB => fr = frB

AcceptedRoots ==
  BothAccept /\ call.second_root = callB.second_root =>
    call.first_root = callB.first_root

IInv ==
  /\ SameSizes
  /\ PairControl
  /\ Lockstep
  /\ AcceptTogether
  /\ SecondDeterminesFirst
  /\ AcceptedRoots

LEMMA InitIInv == PairInit => IInv
<1> SUFFICES ASSUME PairInit
             PROVE  IInv
  OBVIOUS
<1>1. call \in Calls /\ callB \in Calls
  BY RivalsAssumption DEF PairInit, Init
<1>2. /\ call.path \in Seq(Hash) /\ call.first_root \in Hash
      /\ callB.path \in Seq(Hash) /\ callB.first_root \in Hash
      /\ call.first \in Nat /\ call.second \in Nat
  BY <1>1, CallsAssumption
<1> QED
  BY <1>2 DEF PairInit, Init, Locals, B!Locals, IInv, SameSizes, PairControl,
     Lockstep, AcceptTogether, SecondDeterminesFirst, AcceptedRoots,
     BothRunning, BothAccept
----------------------------------------------------------------------------
\* The first root in front of a list of hashes is a list of hashes.
LEMMA PathsStayLists ==
  ASSUME PairControl
  PROVE  /\ Enter => path' \in Seq(Hash)
         /\ B!Enter => pathB' \in Seq(Hash)
<1>1. Enter => path' \in Seq(Hash)
  BY DEF PairControl, Enter
<1>2. B!Enter => pathB' \in Seq(Hash)
  BY DEF PairControl, B!Enter
<1> QED
  BY <1>1, <1>2

\* One step of both calls while both run.  The guard of A's action decides
\* B's, up to the length of B's path, because what the guards read is equal.
LEMMA RunningStep ==
  ASSUME IInv, BothRunning, Next, B!Next
  PROVE  IInv'
<1> USE DEF IInv, SameSizes, PairControl, Lockstep, AcceptTogether,
        SecondDeterminesFirst, AcceptedRoots, BothRunning, BothAccept,
        Return, B!Return, Bool, B!Bool
<1>1. CASE SameSize
  <2>1. B!SameSize
    BY <1>1 DEF SameSize, IsOdd, B!IsOdd, B!Next, B!SameSize,
       B!RejectArguments, B!Enter, B!StripLevel, B!Seed, B!RejectLongPath,
       B!FoldBoth, B!FoldSecond, B!SkipLevel, B!EndSkip, B!NextLevel,
       B!Finish
  <2> QED
    BY <1>1, <2>1 DEF SameSize, B!SameSize
<1>2. CASE RejectArguments
  <2>1. B!RejectArguments \/ B!Enter
    BY <1>2 DEF RejectArguments, IsOdd, B!IsOdd, B!Next, B!SameSize,
       B!RejectArguments, B!Enter, B!StripLevel, B!Seed, B!RejectLongPath,
       B!FoldBoth, B!FoldSecond, B!SkipLevel, B!EndSkip, B!NextLevel,
       B!Finish
  <2> QED
    BY <1>2, <2>1, PathsStayLists DEF RejectArguments, B!RejectArguments,
       B!Enter
<1>3. CASE Enter
  <2>1. B!Enter \/ B!RejectArguments
    BY <1>3 DEF Enter, IsOdd, B!IsOdd, B!Next, B!SameSize,
       B!RejectArguments, B!Enter, B!StripLevel, B!Seed, B!RejectLongPath,
       B!FoldBoth, B!FoldSecond, B!SkipLevel, B!EndSkip, B!NextLevel,
       B!Finish
  <2> QED
    BY <1>3, <2>1, PathsStayLists DEF Enter, B!Enter, B!RejectArguments
<1>4. CASE StripLevel
  <2>1. B!StripLevel
    BY <1>4 DEF StripLevel, IsOdd, B!IsOdd, B!Next, B!SameSize,
       B!RejectArguments, B!Enter, B!StripLevel, B!Seed, B!RejectLongPath,
       B!FoldBoth, B!FoldSecond, B!SkipLevel, B!EndSkip, B!NextLevel,
       B!Finish
  <2> QED
    BY <1>4, <2>1 DEF StripLevel, B!StripLevel, Half, B!Half
<1>5. CASE Seed
  <2>1. B!Seed
    BY <1>5 DEF Seed, IsOdd, B!IsOdd, B!Next, B!SameSize,
       B!RejectArguments, B!Enter, B!StripLevel, B!Seed, B!RejectLongPath,
       B!FoldBoth, B!FoldSecond, B!SkipLevel, B!EndSkip, B!NextLevel,
       B!Finish
  <2> QED
    BY <1>5, <2>1 DEF Seed, B!Seed
<1>6. CASE RejectLongPath
  <2>1. B!RejectLongPath \/ B!Finish
    BY <1>6 DEF RejectLongPath, IsOdd, B!IsOdd, B!Next, B!SameSize,
       B!RejectArguments, B!Enter, B!StripLevel, B!Seed, B!RejectLongPath,
       B!FoldBoth, B!FoldSecond, B!SkipLevel, B!EndSkip, B!NextLevel,
       B!Finish
  <2> QED
    BY <1>6, <2>1 DEF RejectLongPath, B!RejectLongPath, B!Finish
<1>7. CASE FoldBoth
  <2>1. B!FoldBoth \/ (B!Finish /\ snB # 0)
    BY <1>7 DEF FoldBoth, IsOdd, B!IsOdd, B!Next, B!SameSize,
       B!RejectArguments, B!Enter, B!StripLevel, B!Seed, B!RejectLongPath,
       B!FoldBoth, B!FoldSecond, B!SkipLevel, B!EndSkip, B!NextLevel,
       B!Finish
  <2> QED
    BY <1>7, <2>1 DEF FoldBoth, B!FoldBoth, B!Finish, NodeHash,
       B!NodeHash, IsOdd, B!IsOdd
<1>8. CASE FoldSecond
  <2>1. B!FoldSecond \/ (B!Finish /\ snB # 0)
    BY <1>8 DEF FoldSecond, IsOdd, B!IsOdd, B!Next, B!SameSize,
       B!RejectArguments, B!Enter, B!StripLevel, B!Seed, B!RejectLongPath,
       B!FoldBoth, B!FoldSecond, B!SkipLevel, B!EndSkip, B!NextLevel,
       B!Finish
  <2> QED
    BY <1>8, <2>1 DEF FoldSecond, B!FoldSecond, B!Finish, NodeHash,
       B!NodeHash, IsOdd, B!IsOdd
<1>9. CASE SkipLevel
  <2>1. B!SkipLevel
    BY <1>9 DEF SkipLevel, IsOdd, B!IsOdd, B!Next, B!SameSize,
       B!RejectArguments, B!Enter, B!StripLevel, B!Seed, B!RejectLongPath,
       B!FoldBoth, B!FoldSecond, B!SkipLevel, B!EndSkip, B!NextLevel,
       B!Finish
  <2> QED
    BY <1>9, <2>1 DEF SkipLevel, B!SkipLevel, Half, B!Half
<1>10. CASE EndSkip
  <2>1. B!EndSkip
    BY <1>10 DEF EndSkip, IsOdd, B!IsOdd, B!Next, B!SameSize,
       B!RejectArguments, B!Enter, B!StripLevel, B!Seed, B!RejectLongPath,
       B!FoldBoth, B!FoldSecond, B!SkipLevel, B!EndSkip, B!NextLevel,
       B!Finish
  <2> QED
    BY <1>10, <2>1 DEF EndSkip, B!EndSkip
<1>11. CASE NextLevel
  <2>1. B!NextLevel
    BY <1>11 DEF NextLevel, IsOdd, B!IsOdd, B!Next, B!SameSize,
       B!RejectArguments, B!Enter, B!StripLevel, B!Seed, B!RejectLongPath,
       B!FoldBoth, B!FoldSecond, B!SkipLevel, B!EndSkip, B!NextLevel,
       B!Finish
  <2> QED
    BY <1>11, <2>1 DEF NextLevel, B!NextLevel, Half, B!Half
<1>12. CASE Finish
  <2>1. B!Finish \/ B!RejectLongPath
        \/ (snB # 0 /\ (B!FoldBoth \/ B!FoldSecond))
    BY <1>12 DEF Finish, IsOdd, B!IsOdd, B!Next, B!SameSize,
       B!RejectArguments, B!Enter, B!StripLevel, B!Seed, B!RejectLongPath,
       B!FoldBoth, B!FoldSecond, B!SkipLevel, B!EndSkip, B!NextLevel,
       B!Finish
  <2> QED
    BY <1>12, <2>1 DEF Finish, B!Finish, B!RejectLongPath, B!FoldBoth,
       B!FoldSecond
<1> QED
  BY <1>1, <1>2, <1>3, <1>4, <1>5, <1>6, <1>7, <1>8, <1>9, <1>10, <1>11,
     <1>12 DEF Next

\* A call has returned: nothing the invariant still promises can be lost.
LEMMA WaitingStep ==
  ASSUME IInv, ~BothRunning, PairNext
  PROVE  IInv'
<1> USE DEF IInv, SameSizes, PairControl, Lockstep, AcceptTogether,
        SecondDeterminesFirst, AcceptedRoots, BothRunning, BothAccept
<1>1. Next => ret = "none" /\ call' = call
  BY DEF Next, SameSize, RejectArguments, Enter, StripLevel,
     Seed, RejectLongPath, FoldBoth, FoldSecond, SkipLevel,
     EndSkip, NextLevel, Finish, Return
<1>2. B!Next => retB = "none" /\ callB' = callB
  BY DEF B!Next, B!SameSize, B!RejectArguments, B!Enter, B!StripLevel,
     B!Seed, B!RejectLongPath, B!FoldBoth, B!FoldSecond, B!SkipLevel,
     B!EndSkip, B!NextLevel, B!Finish, B!Return
<1>3. Next => /\ i' \in Nat
              /\ pc' = "returned" <=> ret' # "none"
              /\ path' \in Seq(Hash)
  BY PathsStayLists DEF Next, SameSize, RejectArguments, Enter,
     StripLevel, Seed, RejectLongPath, FoldBoth, FoldSecond,
     SkipLevel, EndSkip, NextLevel, Finish, Return, Bool
<1>4. B!Next => /\ iB' \in Nat
                /\ pcB' = "returned" <=> retB' # "none"
                /\ pathB' \in Seq(Hash)
  BY PathsStayLists DEF B!Next, B!SameSize, B!RejectArguments, B!Enter,
     B!StripLevel, B!Seed, B!RejectLongPath, B!FoldBoth, B!FoldSecond,
     B!SkipLevel, B!EndSkip, B!NextLevel, B!Finish, B!Return, B!Bool
<1>5. CASE UNCHANGED vars /\ UNCHANGED varsB
  BY <1>5 DEF vars, varsB
<1>6. CASE Next /\ retB # "none" /\ UNCHANGED varsB
  <2>1. ret = "none" /\ retB # "True" /\ retB' = retB /\ retB # "none"
    BY <1>6, <1>1, <1>3 DEF varsB
  <2>2. SameSizes'
    BY <1>6, <1>1, <1>3 DEF varsB
  <2>3. callB' = callB /\ iB' = iB /\ pathB' = pathB /\ pcB' = pcB
    BY <1>6 DEF varsB
  <2>4. PairControl'
    BY <1>6, <1>1, <1>3, <2>1, <2>3
  <2> QED
    BY <2>1, <2>2, <2>4
<1>7. CASE B!Next /\ ret # "none" /\ UNCHANGED vars
  <2>1. retB = "none" /\ ret # "True" /\ ret' = ret /\ ret # "none"
    BY <1>7, <1>2, <1>4 DEF vars
  <2>2. SameSizes'
    BY <1>7, <1>2, <1>4 DEF vars
  <2>3. call' = call /\ i' = i /\ path' = path /\ pc' = pc
    BY <1>7 DEF vars
  <2>4. PairControl'
    BY <1>7, <1>2, <1>4, <2>1, <2>3
  <2> QED
    BY <2>1, <2>2, <2>4
<1> QED
  BY <1>1, <1>2, <1>5, <1>6, <1>7 DEF PairNext, AdvanceA, AdvanceB

LEMMA StepIInv == IInv /\ [PairNext]_pairVars => IInv'
<1> SUFFICES ASSUME IInv, [PairNext]_pairVars
             PROVE  IInv'
  OBVIOUS
<1>1. CASE UNCHANGED pairVars
  BY <1>1 DEF pairVars, vars, varsB, IInv, SameSizes, PairControl, Lockstep,
     AcceptTogether, SecondDeterminesFirst, AcceptedRoots, BothRunning,
     BothAccept
<1>2. CASE PairNext /\ BothRunning
  BY <1>2, RunningStep DEF PairNext, AdvanceA, AdvanceB, BothRunning
<1>3. CASE PairNext /\ ~BothRunning
  BY <1>3, WaitingStep
<1> QED
  BY <1>1, <1>2, <1>3

\* Two accepted consistency proofs between the same sizes with one second
\* root have one first root, whatever the sizes, the paths and the hashes.
THEOREM ConsistencyBinds == PairSpec => []HistoryIsUnique
<1>1. IInv => HistoryIsUnique
  BY DEF IInv, AcceptedRoots, HistoryIsUnique
<1> QED
  BY InitIInv, StepIInv, <1>1, PTL DEF PairSpec
=============================================================================
