-------------------------- MODULE LogConsistency --------------------------
(***************************************************************************)
(* One call of _log_verify_consistency (scripts/conformance-runner.py):    *)
(* the loop that decides whether a path of hashes shows that the tree of   *)
(* one size is a prefix of the tree of a later size.  It rebuilds both     *)
(* roots, fr and sr, from the same path.  Hashes are terms, as in          *)
(* LogInclusion.                                                           *)
(***************************************************************************)
EXTENDS Naturals, Sequences

CONSTANTS
  Hash,             \* the hashes that occur in arguments
  Calls             \* the argument lists the function may be called with

\* What every caller passes: two naturals, two hashes and a list of hashes.
ASSUME CallsAssumption ==
  \A c \in Calls : /\ c.first \in Nat
                   /\ c.second \in Nat
                   /\ c.path \in Seq(Hash)
                   /\ c.first_root \in Hash
                   /\ c.second_root \in Hash

VARIABLES
  call,             \* arguments: first, second, path, first_root, second_root
  pc,               \* control point
  path,             \* the local list, first_root in front for a full tree
  i,                \* elements of path consumed so far
  fn, sn, fr, sr,   \* the locals of the function
  ret               \* "none", then what the function returned

vars == <<call, pc, path, i, fn, sn, fr, sr, ret>>

NodeHash(left, right) == <<left, right>>

IsOdd(n) == n % 2 = 1
Half(n) == n \div 2

\* Bit by bit, from the lowest.
And[x \in Nat] ==
  [y \in Nat |-> IF x = 0 THEN 0
                 ELSE 2 * And[Half(x)][Half(y)]
                      + (IF IsOdd(x) /\ IsOdd(y) THEN 1 ELSE 0)]

\* first & (first - 1) == 0
IsPowerOf2(n) == And[n][n - 1] = 0

Bool(b) == IF b THEN "True" ELSE "False"

Control == {"entry", "strip", "loop", "shift", "halve", "returned"}

\* The locals of a call that has not taken a step yet.
Locals ==
  /\ pc = "entry"
  /\ path = call.path
  /\ i = 0
  /\ fn = 0 /\ sn = 0
  /\ fr = call.first_root /\ sr = call.first_root
  /\ ret = "none"

Init == call \in Calls /\ Locals

Return(verdict) ==
  /\ pc' = "returned"
  /\ ret' = Bool(verdict)
  /\ UNCHANGED <<call, path, i, fn, sn, fr, sr>>

\* Equal sizes: nothing to prove but equal roots.
SameSize ==
  /\ pc = "entry"
  /\ call.first = call.second
  /\ Return(Len(path) = 0 /\ call.first_root = call.second_root)

RejectArguments ==
  /\ pc = "entry"
  /\ call.first # call.second
  /\ ~(0 < call.first /\ call.first < call.second) \/ Len(path) = 0
  /\ Return(FALSE)

\* A power of two is a full tree: its root is the first known hash.
Enter ==
  /\ pc = "entry"
  /\ 0 < call.first /\ call.first < call.second
  /\ Len(path) # 0
  /\ path' = (IF IsPowerOf2(call.first) THEN <<call.first_root>> ELSE << >>) \o path
  /\ fn' = call.first - 1
  /\ sn' = call.second - 1
  /\ pc' = "strip"
  /\ UNCHANGED <<call, i, fr, sr, ret>>

\* while fn % 2 == 1: up to the root of the last full subtree of the first
\* tree.
StripLevel ==
  /\ pc = "strip"
  /\ IsOdd(fn)
  /\ fn' = Half(fn)
  /\ sn' = Half(sn)
  /\ UNCHANGED <<call, pc, path, i, fr, sr, ret>>

Seed ==
  /\ pc = "strip"
  /\ ~IsOdd(fn)
  /\ fr' = path[1]
  /\ sr' = path[1]
  /\ i' = 1
  /\ pc' = "loop"
  /\ UNCHANGED <<call, path, fn, sn, ret>>

RejectLongPath ==
  /\ pc = "loop"
  /\ i < Len(path)
  /\ sn = 0
  /\ Return(FALSE)

\* The hash belongs to both trees.
FoldBoth ==
  /\ pc = "loop"
  /\ i < Len(path)
  /\ sn # 0
  /\ IsOdd(fn) \/ fn = sn
  /\ fr' = NodeHash(path[i + 1], fr)
  /\ sr' = NodeHash(path[i + 1], sr)
  /\ pc' = IF IsOdd(fn) THEN "halve" ELSE "shift"
  /\ UNCHANGED <<call, path, i, fn, sn, ret>>

\* The hash covers leaves only the second tree has.
FoldSecond ==
  /\ pc = "loop"
  /\ i < Len(path)
  /\ sn # 0
  /\ ~IsOdd(fn) /\ fn # sn
  /\ sr' = NodeHash(sr, path[i + 1])
  /\ pc' = "halve"
  /\ UNCHANGED <<call, path, i, fn, sn, fr, ret>>

\* Mutant of SkipLevel: only fn climbs.
SkipNodeOnly ==
  /\ pc = "shift"
  /\ ~IsOdd(fn) /\ fn # 0
  /\ fn' = Half(fn)
  /\ UNCHANGED <<call, pc, path, i, sn, fr, sr, ret>>

SkipLevel ==
  /\ pc = "shift"
  /\ ~IsOdd(fn) /\ fn # 0
  /\ fn' = Half(fn)
  /\ sn' = Half(sn)
  /\ UNCHANGED <<call, pc, path, i, fr, sr, ret>>

EndSkip ==
  /\ pc = "shift"
  /\ IsOdd(fn) \/ fn = 0
  /\ pc' = "halve"
  /\ UNCHANGED <<call, path, i, fn, sn, fr, sr, ret>>

NextLevel ==
  /\ pc = "halve"
  /\ fn' = Half(fn)
  /\ sn' = Half(sn)
  /\ i' = i + 1
  /\ pc' = "loop"
  /\ UNCHANGED <<call, path, fr, sr, ret>>

\* Mutant of Finish: the first root is not compared.
FinishSecondOnly ==
  /\ pc = "loop"
  /\ i = Len(path)
  /\ Return(sr = call.second_root /\ sn = 0)

Finish ==
  /\ pc = "loop"
  /\ i = Len(path)
  /\ Return(fr = call.first_root /\ sr = call.second_root /\ sn = 0)

Next ==
  \/ SameSize
  \/ RejectArguments
  \/ Enter
  \/ StripLevel
  \/ Seed
  \/ RejectLongPath
  \/ FoldBoth
  \/ FoldSecond
  \/ SkipLevel
  \/ EndSkip
  \/ NextLevel
  \/ Finish

\* A call runs to its end: nothing else holds the single thread.
Spec == Init /\ [][Next]_vars /\ WF_vars(Next)
----------------------------------------------------------------------------
TypeOK ==
  /\ call.first \in Nat
  /\ call.second \in Nat
  /\ call.first_root \in Hash
  /\ path \in Seq(Hash)
  /\ pc \in Control
  /\ i \in Nat
  /\ fn \in Nat
  /\ sn \in Nat
  /\ ret \in {"none", "True", "False"}

\* The loop stands on a node both trees have a level for (fn <= sn), reads no
\* element past the list, and has climbed a level for every element but the
\* seed.  Stripping must stop below the root of the second tree, otherwise
\* sn = 0 before the first element is used.
WithinTrees ==
  pc \in {"strip", "loop", "shift", "halve"} =>
    /\ fn <= sn
    /\ pc = "strip" => fn < sn /\ sn < call.second /\ i = 0 /\ Len(path) > 0
    /\ pc # "strip" => i + sn <= call.second /\ i <= Len(path)
    /\ pc \in {"shift", "halve"} => i < Len(path) /\ sn > 0
    /\ pc = "shift" => fn = sn
=============================================================================
