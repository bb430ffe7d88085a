--------------------------- MODULE LogInclusion ---------------------------
(***************************************************************************)
(* One call of _log_verify_inclusion (scripts/conformance-runner.py): the  *)
(* folding loop that decides whether a path of sibling hashes leads from a *)
(* leaf hash to the root of a transparency log of a given size.            *)
(*                                                                         *)
(* A hash is a term: NodeHash is a free constructor, so equal hashes have  *)
(* equal arguments.  That is the collision resistance of SHA-256, and the  *)
(* 0x00 / 0x01 prefixes of leaves and nodes are the different lengths of   *)
(* the two kinds of tuples.                                                *)
(***************************************************************************)
EXTENDS Naturals, Sequences

CONSTANT Calls      \* the argument lists the function may be called with

\* What every caller passes: two naturals and a list.
ASSUME CallsAssumption ==
  \A c \in Calls : /\ c.leaf_index \in Nat
                   /\ c.tree_size \in Nat
                   /\ Len(c.path) \in Nat

VARIABLES
  call,             \* the arguments: lh, leaf_index, tree_size, path, root
  pc,               \* control point
  i,                \* elements of path already consumed by the for loop
  fn, sn, r,        \* the locals of the function
  ret               \* "none", then what the function returned

vars == <<call, pc, i, fn, sn, r, ret>>

LeafHash(data) == <<data>>
NodeHash(left, right) == <<left, right>>

IsOdd(n) == n % 2 = 1
Half(n) == n \div 2

Bool(b) == IF b THEN "True" ELSE "False"

Control == {"entry", "loop", "shift", "halve", "returned"}

\* The locals of a call that has not taken a step yet.
Locals ==
  /\ pc = "entry"
  /\ i = 0
  /\ fn = 0 /\ sn = 0
  /\ r = call.lh
  /\ ret = "none"

Init == call \in Calls /\ Locals

Return(verdict) ==
  /\ pc' = "returned"
  /\ ret' = Bool(verdict)
  /\ UNCHANGED <<call, i, fn, sn, r>>

\* if leaf_index >= tree_size: return False
RejectIndex ==
  /\ pc = "entry"
  /\ call.leaf_index >= call.tree_size
  /\ Return(FALSE)

Enter ==
  /\ pc = "entry"
  /\ call.leaf_index < call.tree_size
  /\ pc' = "loop"
  /\ fn' = call.leaf_index
  /\ sn' = call.tree_size - 1
  /\ UNCHANGED <<call, i, r, ret>>

\* An element is left although the root has been reached.
RejectLongPath ==
  /\ pc = "loop"
  /\ i < Len(call.path)
  /\ sn = 0
  /\ Return(FALSE)

\* The sibling is on the left: fn is a right child, or the last node of its
\* level.
FoldLeftSibling ==
  /\ pc = "loop"
  /\ i < Len(call.path)
  /\ sn # 0
  /\ IsOdd(fn) \/ fn = sn
  /\ r' = NodeHash(call.path[i + 1], r)
  /\ pc' = IF IsOdd(fn) THEN "halve" ELSE "shift"
  /\ UNCHANGED <<call, i, fn, sn, ret>>

FoldRightSibling ==
  /\ pc = "loop"
  /\ i < Len(call.path)
  /\ sn # 0
  /\ ~IsOdd(fn) /\ fn # sn
  /\ r' = NodeHash(r, call.path[i + 1])
  /\ pc' = "halve"
  /\ UNCHANGED <<call, i, fn, sn, ret>>

\* Mutant of SkipLevel: only fn climbs.
SkipNodeOnly ==
  /\ pc = "shift"
  /\ ~IsOdd(fn) /\ fn # 0
  /\ fn' = Half(fn)
  /\ UNCHANGED <<call, pc, i, sn, r, ret>>

\* while fn % 2 == 0 and fn != 0: the levels at which the last node has no
\* sibling.
SkipLevel ==
  /\ pc = "shift"
  /\ ~IsOdd(fn) /\ fn # 0
  /\ fn' = Half(fn)
  /\ sn' = Half(sn)
  /\ UNCHANGED <<call, pc, i, r, ret>>

\* Mutant of EndSkip: the inner loop never runs.
EndSkipAtOnce ==
  /\ pc = "shift"
  /\ pc' = "halve"
  /\ UNCHANGED <<call, i, fn, sn, r, ret>>

EndSkip ==
  /\ pc = "shift"
  /\ IsOdd(fn) \/ fn = 0
  /\ pc' = "halve"
  /\ UNCHANGED <<call, i, fn, sn, r, ret>>

\* The last two assignments of the loop body.
NextLevel ==
  /\ pc = "halve"
  /\ fn' = Half(fn)
  /\ sn' = Half(sn)
  /\ i' = i + 1
  /\ pc' = "loop"
  /\ UNCHANGED <<call, r, ret>>

\* Mutant of Finish: the final sn = 0 is dropped, so a node passes for a leaf.
FinishAnywhere ==
  /\ pc = "loop"
  /\ i = Len(call.path)
  /\ Return(r = call.root)

Finish ==
  /\ pc = "loop"
  /\ i = Len(call.path)
  /\ Return(sn = 0 /\ r = call.root)

Next ==
  \/ RejectIndex
  \/ Enter
  \/ RejectLongPath
  \/ FoldLeftSibling
  \/ FoldRightSibling
  \/ SkipLevel
  \/ EndSkip
  \/ NextLevel
  \/ Finish

\* A call runs to its end: nothing else holds the single thread.
Spec == Init /\ [][Next]_vars /\ WF_vars(Next)
----------------------------------------------------------------------------
TypeOK ==
  /\ call.leaf_index \in Nat
  /\ call.tree_size \in Nat
  /\ Len(call.path) \in Nat
  /\ pc \in Control
  /\ i \in Nat
  /\ fn \in Nat
  /\ sn \in Nat
  /\ ret \in {"none", "True", "False"}

\* The loop never leaves the tree: the node it stands on is a node of its
\* level (fn <= sn), every consumed element has cost at least one level, so
\* an accepted path is shorter than the tree, and no element is read past the
\* end of the path.  A wrong shift in the inner loop would break it.
WithinTree ==
  pc \in {"loop", "shift", "halve"} =>
    /\ fn <= sn
    /\ i + sn < call.tree_size
    /\ i <= Len(call.path)
    /\ pc # "loop" => i < Len(call.path) /\ sn > 0
    /\ pc = "shift" => fn = sn
=============================================================================
