-------------------------- MODULE MCLogConsistency --------------------------
(***************************************************************************)
(* LogConsistencyPair on every pair of sizes up to MaxSize, with the path  *)
(* the generator produces, its near misses, and other first roots.  On the *)
(* trees of at most MaxPairSize leaves there is a rival call between the   *)
(* same sizes: its first root may be any node of the second tree or a      *)
(* stranger, its path the generated one, a part of it, or any single hash. *)
(***************************************************************************)
EXTENDS LogConsistencyPair

CONSTANTS MaxSize, MaxPairSize

LOCAL INSTANCE SequencesExt
T == INSTANCE LogTree

Leaves(n) == [k \in 1..n |-> <<k>>]
Junk == <<0>>

\* What the generators give, for all sizes at once.
Root == [n \in 0..MaxSize |-> T!MTH(Leaves(n))]
Proof == [n \in 1..MaxSize |->
            [m \in 1..n |-> T!ConsistencyProof(m, Leaves(n))]]

\* Every node of the tree over n leaves, and a stranger.
Nodes(n) == {Junk} \cup
  {T!MTH(SubSeq(Leaves(n), k, m)) :
     <<k, m>> \in {range \in (1..n) \X (1..n) : range[1] <= range[2]}}

Hashes == {Root[0]} \cup UNION {Nodes(n) : n \in 1..MaxSize}

NearMisses(proof) ==
  LET positions == DOMAIN proof
  IN  {ReplaceAt(proof, k, Junk) : k \in positions}
      \cup {RemoveAt(proof, k) : k \in positions}
      \cup {InsertAt(proof, k, Junk) : k \in 1..(Len(proof) + 1)}
      \cup {[proof EXCEPT ![k] = proof[k + 1], ![k + 1] = proof[k]] :
              k \in positions \ {Len(proof)}}

Proofs(n) == {Proof[n][m] : m \in 1..n}

CallsWith(m, n, paths, roots) ==
  [first : {m}, second : {n}, path : paths, first_root : roots,
   second_root : {Root[n]}]

CasesOf(m, n) ==
  CallsWith(m, n,
            Proofs(n) \cup NearMisses(Proof[n][IF m \in 1..n THEN m ELSE 1]),
            {Root[k] : k \in 0..n} \cup {Junk})

RivalsOf(m, n) ==
  LET proof == Proof[n][m]
  IN  CallsWith(m, n,
                {<< >>} \cup {<<h>> : h \in Nodes(n)}
                \cup {SubSeq(proof, k, Len(proof)) : k \in 1..Len(proof)}
                \cup {SubSeq(proof, 1, k) : k \in 1..Len(proof)},
                Nodes(n))

SomeRivals ==
  UNION {UNION {RivalsOf(m, n) : m \in 1..n} : n \in 1..MaxPairSize}
SomeCalls == SomeRivals \cup
  UNION {CasesOf(m, n) : m \in 0..MaxSize, n \in 1..MaxSize}

Claim ==
  /\ 0 < call.first /\ call.first <= call.second
  /\ call.first_root = Root[call.first]
  /\ call.path = Proof[call.second][call.first]

\* Against the root of the second tree, the loop accepts exactly the root of
\* the first tree with exactly the path _log_consistency_proof generates, and
\* it always returns.
Promise == INSTANCE Decision WITH right <- Bool(Claim), answer <- ret
FoldDecidesConsistency == Promise!Spec
=============================================================================
