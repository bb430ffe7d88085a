----------------------------- MODULE LogVector -----------------------------
(***************************************************************************)
(* check_log_vector and _log_verify_checkpoint of                          *)
(* scripts/conformance-runner.py on one vector of a log- fixture.  The     *)
(* proof it carries is folded by the verifiers themselves: this module     *)
(* calls LogInclusion and LogConsistency, once with the fixture's path and *)
(* then with the inputs that must be refused.                              *)
(*                                                                         *)
(* A pin is a member of the fixture that the check can compare with what   *)
(* it computes.  vector.pins maps the name of each pin that is present to  *)
(* "right" or "wrong".  The other members:                                 *)
(*   branch    "leaves", "consistency", or "neither"                       *)
(*   leaves    per leaf whether its own members are well-formed            *)
(*             (leaves branch); its length is the size of the tree         *)
(*   key       the registry key pair: "right", "absent", "malformed" when  *)
(*             the seed is no hex or no seed, or "wrong" when the declared *)
(*             public key is not the seed's                                *)
(*   version   every checkpoint says acdp-log/1                            *)
(*   rooted    the checkpoints that carry the recomputed root, of "first"  *)
(*             and "second" (consistency branch)                           *)
(*   proof     [present, m, n, path]; a consistency vector always has one  *)
(*   unreadable  the members that raise where they are read: absent where  *)
(*             the code subscripts, no hex or without the sha256: prefix   *)
(*             where it decodes                                            *)
(* Members have the JSON types of the fixtures; jcs encodes all of them.   *)
(***************************************************************************)
EXTENDS LogTree

CONSTANT Vectors    \* the vectors the check may be run on

\* What every fixture carries: a list of leaves, and numbers in its proof.
ASSUME VectorsAssumption ==
  \A v \in Vectors : /\ v.branch \in {"leaves", "consistency", "neither"}
                     /\ v.leaves \in Seq(BOOLEAN)
                     /\ v.rooted \subseteq {"first", "second"}
                     /\ v.proof.m \in Nat
                     /\ v.proof.n \in Nat

VARIABLES
  vector,           \* the vector, never changed
  stage,            \* the check that comes next
  leaf,             \* leaves compared so far
  result            \* "none", "True", "False", or "raised"

\* The locals of the two verifiers.
VARIABLES icall, ipc, ii, ifn, isn, ir, iret
VARIABLES ccall, cpc, cpath, ci, cfn, csn, cfr, csr, cret

ivars == <<icall, ipc, ii, ifn, isn, ir, iret>>
cvars == <<ccall, cpc, cpath, ci, cfn, csn, cfr, csr, cret>>
vars == <<vector, stage, leaf, result, ivars, cvars>>

Incl == INSTANCE LogInclusion
          WITH Calls <- {}, call <- icall, pc <- ipc, i <- ii, fn <- ifn,
               sn <- isn, r <- ir, ret <- iret
Cons == INSTANCE LogConsistency
          WITH Hash <- {}, Calls <- {}, call <- ccall, pc <- cpc, path <- cpath,
               i <- ci, fn <- cfn, sn <- csn, fr <- cfr, sr <- csr, ret <- cret

LeafHashes == [k \in 1..Len(vector.leaves) |-> Incl!LeafHash(k)]
Prefix(n) == SubSeq(LeafHashes, 1, IF n < Len(LeafHashes) THEN n ELSE Len(LeafHashes))
Tampered(path) == [path EXCEPT ![1] = Incl!LeafHash(0)]

Pinned(name) == name \in DOMAIN vector.pins
Deviates(name) == Pinned(name) /\ vector.pins[name] = "wrong"
Readable(members) == members \cap vector.unreadable = {}

\* The arguments before the first call.
NoInclusionCall ==
  [lh |-> << >>, leaf_index |-> 0, tree_size |-> 0, path |-> << >>, root |-> << >>]
NoConsistencyCall ==
  [first |-> 0, second |-> 0, path |-> << >>, first_root |-> << >>,
   second_root |-> << >>]

Init ==
  /\ vector \in Vectors
  /\ stage = "start"
  /\ leaf = 0
  /\ result = "none"
  /\ icall = NoInclusionCall /\ ipc = "returned" /\ ii = 0 /\ ifn = 0 /\ isn = 0
  /\ ir = << >> /\ iret = "none"
  /\ ccall = NoConsistencyCall /\ cpc = "returned" /\ cpath = << >>
  /\ ci = 0 /\ cfn = 0 /\ csn = 0 /\ cfr = << >> /\ csr = << >> /\ cret = "none"

Return(value) ==
  /\ stage' = "returned"
  /\ result' = value
  /\ UNCHANGED <<vector, leaf, ivars, cvars>>

Goto(next) ==
  /\ stage' = next
  /\ UNCHANGED <<vector, leaf, result, ivars, cvars>>

\* One comparison: an exception when what it compares cannot be read,
\* otherwise fail() and return False, or go on.
Check(at, legible, holds, next) ==
  /\ stage = at
  /\ IF ~legible THEN Return("raised")
     ELSE IF holds THEN Goto(next) ELSE Return("False")

Start ==
  /\ stage = "start"
  /\ CASE vector.branch = "leaves" -> Goto("leaf")
       [] vector.branch = "consistency" -> Goto("roots")
       [] OTHER -> Return("False")

\* Mutant of CheckLeaf: a malformed leaf is reported but does not end the
\* check.
CheckLeafGoOn ==
  /\ stage = "leaf"
  /\ leaf < Len(vector.leaves)
  /\ leaf' = leaf + 1
  /\ UNCHANGED <<vector, stage, result, ivars, cvars>>

\* One round of the loop over the leaves.  The producer key is decoded last.
CheckLeaf ==
  /\ stage = "leaf"
  /\ leaf < Len(vector.leaves)
  /\ IF ~vector.leaves[leaf + 1] THEN Return("False")
     ELSE IF ~Readable({"producer_key"}) THEN Return("raised")
     ELSE /\ leaf' = leaf + 1
          /\ UNCHANGED <<vector, stage, result, ivars, cvars>>

LeavesDone ==
  /\ stage = "leaf"
  /\ leaf = Len(vector.leaves)
  /\ Goto("tree")

CheckTree ==
  Check("tree", TRUE,
        ~Deviates("root_hash") /\ ~Deviates("empty_tree_root_hash"),
        "checkpoint")

\* _log_verify_checkpoint: the names it compares, by the prefix it is given.
CheckpointPins ==
  [checkpoint_ |-> {"checkpoint_canonical_form", "checkpoint_checkpoint_hash",
                    "checkpoint_signature_value_base64",
                    "checkpoint_signature_value_hex"},
   first_ |-> {"first_canonical_form", "first_checkpoint_hash",
               "first_signature_value_base64", "first_signature_value_hex"},
   second_ |-> {"second_canonical_form", "second_checkpoint_hash",
                "second_signature_value_base64", "second_signature_value_hex"}]

CheckpointOK(prefix) ==
  /\ vector.key = "right"
  /\ vector.version
  /\ \A pin \in CheckpointPins[prefix] : ~Deviates(pin)

\* A seed that is there is decoded before anything is compared.
SeedDecodes == vector.key # "malformed"

CheckCheckpoint ==
  Check("checkpoint", SeedDecodes, CheckpointOK("checkpoint_"), "assembled")

CheckAssembled ==
  Check("assembled", TRUE, ~Deviates("log_checkpoint"), "path")

\* The consistency branch: the leaf hashes and both sizes are read, the pinned
\* roots compared, then the root each checkpoint carries, the second only
\* after the first.
CheckRoots ==
  Check("roots", Readable({"leaf_hashes", "tree_sizes"}),
        ~Deviates("first_root_hash") /\ ~Deviates("second_root_hash"),
        "first root")

CheckFirstRoot ==
  Check("first root", Readable({"first_root"}), "first" \in vector.rooted,
        "second root")

CheckSecondRoot ==
  Check("second root", Readable({"second_root"}), "second" \in vector.rooted,
        "checkpoints")

CheckCheckpoints ==
  Check("checkpoints", SeedDecodes,
        CheckpointOK("first_") /\ CheckpointOK("second_"), "proof")
----------------------------------------------------------------------------
\* Calling a verifier sets its arguments and its control point; the caller
\* waits for its answer.
CallInclusion(path, next) ==
  /\ stage' = next
  /\ icall' = [lh |-> LeafHashes[vector.proof.m + 1],
               leaf_index |-> vector.proof.m, tree_size |-> vector.proof.n,
               path |-> path, root |-> MTH(LeafHashes)]
  /\ ipc' = "entry" /\ ii' = 0 /\ ifn' = 0 /\ isn' = 0
  /\ ir' = LeafHashes[vector.proof.m + 1] /\ iret' = "none"
  /\ UNCHANGED <<vector, leaf, result, cvars>>

CallConsistency(path, firstRoot, secondRoot, next) ==
  /\ stage' = next
  /\ ccall' = [first |-> vector.proof.m, second |-> vector.proof.n, path |-> path,
               first_root |-> firstRoot, second_root |-> secondRoot]
  /\ cpc' = "entry" /\ cpath' = path /\ ci' = 0 /\ cfn' = 0 /\ csn' = 0
  /\ cfr' = firstRoot /\ csr' = firstRoot /\ cret' = "none"
  /\ UNCHANGED <<vector, leaf, result, ivars>>

StepInclusion ==
  /\ stage \in {"fold", "fold tampered"}
  /\ Incl!Next
  /\ UNCHANGED <<vector, stage, leaf, result, cvars>>

StepConsistency ==
  /\ stage \in {"verify", "verify tampered", "verify swapped"}
  /\ Cons!Next
  /\ UNCHANGED <<vector, stage, leaf, result, ivars>>

\* The pinned path against the generated one.  Index, size and path are read
\* first.  An empty prefix never meets the generator's base case, and a leaf
\* index past the end of the list is an IndexError where the leaf hash is
\* taken.
NoInclusion ==
  /\ stage = "path"
  /\ ~vector.proof.present
  /\ Return("True")

ComparePath ==
  /\ stage = "path"
  /\ vector.proof.present
  /\ IF ~Readable({"log_inclusion"}) THEN Return("raised")
     ELSE IF Len(Prefix(vector.proof.n)) = 0 THEN Return("raised")
     ELSE IF vector.proof.path # PATH(vector.proof.m, Prefix(vector.proof.n))
       THEN Return("False")
     ELSE IF vector.proof.m >= Len(LeafHashes) THEN Return("raised")
     ELSE CallInclusion(vector.proof.path, "fold")

\* Mutant of FoldReturned: bad[0] is taken of an empty path too.
FoldReturnedUnguarded ==
  /\ stage = "fold"
  /\ iret # "none"
  /\ IF iret = "False" THEN Return("False")
     ELSE IF vector.proof.path = << >> THEN Return("raised")
     ELSE CallInclusion(Tampered(vector.proof.path), "fold tampered")

FoldReturned ==
  /\ stage = "fold"
  /\ iret # "none"
  /\ IF iret = "False" THEN Return("False")
     ELSE IF vector.proof.path = << >> THEN Return("True")
     ELSE CallInclusion(Tampered(vector.proof.path), "fold tampered")

\* Mutant of TamperedFoldReturned: the negative self-check is read the wrong
\* way.
TamperedFoldInverted ==
  /\ stage = "fold tampered"
  /\ iret # "none"
  /\ Return(iret)

TamperedFoldReturned ==
  /\ stage = "fold tampered"
  /\ iret # "none"
  /\ Return(IF iret = "True" THEN "False" ELSE "True")

\* The generator recurses without end unless 0 < m <= n.
CompareProof ==
  /\ stage = "proof"
  /\ IF ~Readable({"consistency_path"}) THEN Return("raised")
     ELSE IF ~(0 < vector.proof.m /\ vector.proof.m <= Len(Prefix(vector.proof.n)))
       THEN Return("raised")
     ELSE IF vector.proof.path #
             ConsistencyProof(vector.proof.m, Prefix(vector.proof.n))
       THEN Return("False")
     ELSE CallConsistency(vector.proof.path, MTH(Prefix(vector.proof.m)),
                          MTH(Prefix(vector.proof.n)), "verify")

\* bad[0] is taken without asking whether the path has an element.
ProofReturned ==
  /\ stage = "verify"
  /\ cret # "none"
  /\ IF cret = "False" THEN Return("False")
     ELSE IF vector.proof.path = << >> THEN Return("raised")
     ELSE CallConsistency(Tampered(vector.proof.path), MTH(Prefix(vector.proof.m)),
                          MTH(Prefix(vector.proof.n)), "verify tampered")

TamperedProofReturned ==
  /\ stage = "verify tampered"
  /\ cret # "none"
  /\ IF cret = "True" THEN Return("False")
     ELSE CallConsistency(vector.proof.path, MTH(Prefix(vector.proof.n)),
                          MTH(Prefix(vector.proof.m)), "verify swapped")

SwappedProofReturned ==
  /\ stage = "verify swapped"
  /\ cret # "none"
  /\ Return(IF cret = "True" THEN "False" ELSE "True")

Next ==
  \/ Start
  \/ CheckLeaf
  \/ LeavesDone
  \/ CheckTree
  \/ CheckCheckpoint
  \/ CheckAssembled
  \/ CheckRoots
  \/ CheckFirstRoot
  \/ CheckSecondRoot
  \/ CheckCheckpoints
  \/ NoInclusion
  \/ ComparePath
  \/ StepInclusion
  \/ FoldReturned
  \/ TamperedFoldReturned
  \/ CompareProof
  \/ StepConsistency
  \/ ProofReturned
  \/ TamperedProofReturned
  \/ SwappedProofReturned

\* The check is a plain call on one thread.
Spec == Init /\ [][Next]_vars
----------------------------------------------------------------------------
TypeOK ==
  /\ stage \in {"start", "leaf", "tree", "checkpoint", "assembled", "path",
                "fold", "fold tampered", "roots", "first root", "second root",
                "checkpoints", "proof", "verify", "verify tampered", "verify swapped", "returned"}
  /\ leaf \in 0..Len(vector.leaves)
  /\ result \in {"none", "True", "False", "raised"}

Size == Len(vector.leaves)

GoldenProof ==
  IF vector.branch = "leaves"
    THEN vector.proof.present =>
           /\ vector.proof.m < Size /\ vector.proof.n = Size
           /\ vector.proof.path = PATH(vector.proof.m, LeafHashes)
    ELSE /\ 0 < vector.proof.m /\ vector.proof.m < vector.proof.n
         /\ vector.proof.n <= Size
         /\ vector.proof.path =
              ConsistencyProof(vector.proof.m, Prefix(vector.proof.n))
         /\ vector.rooted = {"first", "second"}

Golden ==
  /\ vector.branch # "neither"
  /\ \A k \in 1..Size : vector.branch = "leaves" => vector.leaves[k]
  /\ vector.key = "right" /\ vector.version
  /\ vector.unreadable = {}
  /\ \A name \in DOMAIN vector.pins : ~Deviates(name)
  /\ GoldenProof

\* A vector whose every member is right passes, for every tree and every
\* proof a log can give in it: the comparisons and the negative self-checks
\* (tampered path, swapped roots) never turn a right fixture into a failure.
GoldenAccepted == result # "none" /\ Golden => result = "True"

\* What an accepted vector is known to show: an inclusion path is the one of
\* that leaf in the whole tree, although the code compares it with the path
\* in the tree cut at the size the fixture claims; a consistency proof lies
\* between two different sizes, not 0; and no malformed leaf, foreign key,
\* wrong root or member that cannot be read slipped through on the way.
AcceptedIsProved ==
  /\ TypeOK
  /\ result = "True" =>
       /\ vector.key = "right" /\ vector.version
       /\ vector.branch = "leaves" =>
            /\ \A k \in 1..Size : vector.leaves[k]
            /\ Size > 0 => Readable({"producer_key"})
            /\ ~Deviates("root_hash") /\ ~Deviates("log_checkpoint")
            /\ vector.proof.present =>
                 /\ Readable({"log_inclusion"})
                 /\ vector.proof.m < Size
                 /\ vector.proof.path = PATH(vector.proof.m, LeafHashes)
       /\ vector.branch = "consistency" =>
            /\ Readable({"leaf_hashes", "tree_sizes", "first_root",
                         "second_root", "consistency_path"})
            /\ vector.rooted = {"first", "second"}
            /\ 0 < vector.proof.m /\ vector.proof.m < vector.proof.n
            /\ ~Deviates("first_checkpoint_hash")
            /\ ~Deviates("second_checkpoint_hash")

\* Why the leaves branch may raise, each with what was found right before: a
\* producer key no leaf can be compared with, a seed that does not decode, an
\* inclusion proof that cannot be read, of an empty tree or of a leaf that
\* does not exist.
LeavesFault ==
  \/ ~Readable({"producer_key"}) /\ Size > 0 /\ vector.leaves[1]
  \/ /\ \A k \in 1..Size : vector.leaves[k]
     /\ ~Deviates("root_hash") /\ ~Deviates("empty_tree_root_hash")
     /\ \/ vector.key = "malformed"
        \/ /\ vector.key = "right" /\ vector.version
           /\ ~Deviates("log_checkpoint") /\ vector.proof.present
           /\ \/ ~Readable({"log_inclusion"})
              \/ vector.proof.n = 0
              \/ vector.proof.m >= Size

\* And the consistency branch: leaf hashes, sizes, roots, a seed or a proof
\* that cannot be read, or a proof between sizes that are equal, exchanged, 0
\* or beyond the list.
ConsistencyFault ==
  \/ ~Readable({"leaf_hashes", "tree_sizes"})
  \/ /\ ~Deviates("first_root_hash") /\ ~Deviates("second_root_hash")
     /\ \/ ~Readable({"first_root"})
        \/ "first" \in vector.rooted /\ ~Readable({"second_root"})
        \/ /\ vector.rooted = {"first", "second"}
           /\ \/ vector.key = "malformed"
              \/ /\ vector.key = "right" /\ vector.version
                 /\ \/ ~Readable({"consistency_path"})
                    \/ vector.proof.m = 0
                    \/ vector.proof.m >= vector.proof.n
                    \/ vector.proof.m >= Size

Fault ==
  \/ vector.branch = "leaves" /\ LeavesFault
  \/ vector.branch = "consistency" /\ ConsistencyFault

\* An exception ends the whole run, and no later fixture is checked.  It is
\* only ever the fault of a member that cannot be read or of a proof that is
\* degenerate, of the branch that was taken, and it never comes before the
\* report of a member that the check should have found wrong first.
RaisesOnlyOnFault == result = "raised" => Fault

\* README of the fixtures, log-001: byte-exact reproduction end-to-end of the
\* checkpoint it pins.
CheckpointReproduced ==
  result = "True" /\ vector.branch = "leaves" =>
    /\ ~Deviates("checkpoint_canonical_form")
    /\ ~Deviates("checkpoint_hash")
    /\ ~Deviates("signature_value_hex")
    /\ ~Deviates("signature_value_base64")
=============================================================================
