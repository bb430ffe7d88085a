--------------------------- MODULE WitnessFixture ---------------------------
(***************************************************************************)
(* The branch of a wit- fixture in scripts/conformance-runner.py:          *)
(* check_witness_cosignature_vector on each of its vectors, then           *)
(* check_witness_quorum on all of them.  Runner calls it: the counters are *)
(* those of the main loop, which has counted an empty list before.         *)
(*                                                                         *)
(* A checkpoint is the tuple (log_id, tree_size, root_hash), a model       *)
(* value.  A vector is                                                     *)
(*   [witness, checkpoint, keypair, version, pins, assembled, times]       *)
(* keypair "right", "absent", or "wrong" when the declared public key is   *)
(* not the seed's; pins and times say that the pinned members and the      *)
(* timestamps are as they must be; assembled "absent", "right", "wrong",   *)
(* or "foreign" when its key_id is not of the witness.  A fixture is       *)
(*   [vectors, chain, quorum]                                              *)
(* chain the checkpoint of the log fixture it names, None, or Missing when *)
(* there is no such file; quorum [pinned, target, count].                  *)
(***************************************************************************)
EXTENDS Naturals, Sequences, FiniteSets

CONSTANTS
  Witnesses, Checkpoints,
  None, Missing

VARIABLES
  fixture,          \* the fixture, never changed
  pc,               \* control point
  k,                \* vectors dealt with, in the loop at hand
  verdicts,         \* what the check answered for each vector
  seen,             \* check_witness_quorum: the witnesses of each checkpoint
  quorum,           \* "none", then what check_witness_quorum returned
  passes, failures, \* the counters of the main loop
  ret               \* "none", then "done" or "raised"

vars == <<fixture, pc, k, verdicts, seen, quorum, passes, failures, ret>>

Vectors == fixture.vectors

\* check_witness_cosignature_vector up to the log fixture.
Verifies(v) ==
  /\ v.keypair = "right"
  /\ v.version
  /\ v.pins
  /\ v.assembled \in {"absent", "right"}
  /\ v.times

\* Mutant of Chained: the log fixture is opened and not compared.
ChainedUnread(v) == v.checkpoint \in Checkpoints

\* The cosigned checkpoint is the one of the log fixture, if one is named.
Chained(v) == fixture.chain = None \/ v.checkpoint = fixture.chain

\* The branch is entered.
Call ==
  /\ pc' = "vectors"
  /\ k' = 0
  /\ verdicts' = << >>
  /\ seen' = [c \in Checkpoints |-> {}]
  /\ quorum' = "none"
  /\ ret' = "none"

\* One vector: True is counted here, and a False was counted by fail().
CheckVector ==
  /\ pc = "vectors"
  /\ k < Len(Vectors)
  /\ LET v == Vectors[k + 1]
         holds == Verifies(v) /\ Chained(v)
     IN  /\ ~(Verifies(v) /\ fixture.chain = Missing)
         /\ verdicts' = Append(verdicts, holds)
         /\ passes' = IF holds THEN passes + 1 ELSE passes
         /\ failures' = IF holds THEN failures ELSE failures + 1
  /\ k' = k + 1
  /\ UNCHANGED <<fixture, pc, seen, quorum, ret>>

\* The log fixture is only opened when the vector verifies so far.
LogFixtureMissing ==
  /\ pc = "vectors"
  /\ k < Len(Vectors)
  /\ Verifies(Vectors[k + 1]) /\ fixture.chain = Missing
  /\ pc' = "returned"
  /\ ret' = "raised"
  /\ UNCHANGED <<fixture, k, verdicts, seen, quorum, passes, failures>>

EndVectors ==
  /\ pc = "vectors"
  /\ k = Len(Vectors)
  /\ pc' = IF fixture.quorum.pinned THEN "count" ELSE "returned"
  /\ ret' = IF fixture.quorum.pinned THEN ret ELSE "done"
  /\ k' = 0
  /\ UNCHANGED <<fixture, verdicts, seen, quorum, passes, failures>>

\* Mutant of CollectWitness: a witness counts for every checkpoint.
CollectForAll ==
  /\ pc = "count"
  /\ k < Len(Vectors)
  /\ seen' = [c \in Checkpoints |-> seen[c] \cup {Vectors[k + 1].witness}]
  /\ k' = k + 1
  /\ UNCHANGED <<fixture, pc, verdicts, quorum, passes, failures, ret>>

\* One round of the loop that collects the witnesses, verified or not.
CollectWitness ==
  /\ pc = "count"
  /\ k < Len(Vectors)
  /\ LET v == Vectors[k + 1]
     IN  seen' = [seen EXCEPT ![v.checkpoint] = @ \cup {v.witness}]
  /\ k' = k + 1
  /\ UNCHANGED <<fixture, pc, verdicts, quorum, passes, failures, ret>>

CompareQuorum ==
  /\ pc = "count"
  /\ k = Len(Vectors)
  /\ LET reached == Cardinality(seen[fixture.quorum.target]) = fixture.quorum.count
     IN  /\ quorum' = IF reached THEN "True" ELSE "False"
         /\ passes' = IF reached THEN passes + 1 ELSE passes
         /\ failures' = IF reached THEN failures ELSE failures + 1
  /\ pc' = "returned"
  /\ ret' = "done"
  /\ UNCHANGED <<fixture, k, verdicts, seen>>

Next ==
  \/ CheckVector
  \/ LogFixtureMissing
  \/ EndVectors
  \/ CollectWitness
  \/ CompareQuorum
----------------------------------------------------------------------------
TypeOK ==
  /\ pc \in {"vectors", "count", "returned"}
  /\ k \in 0..Len(Vectors)
  /\ verdicts \in Seq(BOOLEAN) /\ Len(verdicts) <= Len(Vectors)
  /\ seen \in [Checkpoints -> SUBSET Witnesses]
  /\ quorum \in {"none", "True", "False"}
  /\ passes \in Nat /\ failures \in Nat
  /\ ret \in {"none", "done", "raised"}

\* The witnesses of a checkpoint whose cosignature was found to verify.
Verified(c) ==
  {Vectors[j].witness : j \in {m \in DOMAIN verdicts :
                                 verdicts[m] /\ Vectors[m].checkpoint = c}}

\* When nothing of the fixture failed, the pinned count is that of distinct
\* witnesses with a cosignature that verifies over the target: no vector over
\* another checkpoint and no second vector of one witness is in it.
CountIsOfVerified ==
  /\ TypeOK
  /\ ret = "done" /\ failures = 0 /\ fixture.quorum.pinned =>
       fixture.quorum.count = Cardinality(Verified(fixture.quorum.target))

\* A quorum that is reached in a fixture chained to a log is one over the
\* checkpoint of that log: the target need not be compared with it, because
\* every vector was.
QuorumIsOverTheLog ==
  /\ ret = "done" /\ failures = 0
  /\ fixture.chain # None
  /\ quorum = "True" /\ fixture.quorum.count > 0
  => fixture.quorum.target = fixture.chain
=============================================================================
