--------------------------- MODULE MCLogInclusion ---------------------------
(***************************************************************************)
(* LogInclusionPair on every tree of at most MaxSize leaves, every index,  *)
(* the path the generator produces and its near misses.  On the trees of   *)
(* at most MaxPairSize leaves there is a rival call for the same position: *)
(* its leaf hash may be any node of the tree, and its path any list of at  *)
(* most one of its nodes or a generated path.                              *)
(***************************************************************************)
EXTENDS LogInclusionPair

CONSTANTS MaxSize, MaxPairSize

LOCAL INSTANCE SequencesExt
T == INSTANCE LogTree

Leaves(n) == [k \in 1..n |-> LeafHash(k)]
Junk == LeafHash(0)

\* What the generators give, for all sizes at once.
Roots == [n \in 1..MaxSize |-> T!MTH(Leaves(n))]
Paths == [n \in 1..MaxSize |-> [m \in 0..(n - 1) |-> T!PATH(m, Leaves(n))]]

\* The hashes of the nodes of the tree over n leaves.
Nodes(n) == {T!MTH(SubSeq(Leaves(n), k, m)) :
               <<k, m>> \in {range \in (1..n) \X (1..n) : range[1] <= range[2]}}

\* Paths that differ from path in one place: an element replaced, dropped or
\* added, or two neighbours exchanged.
NearMisses(path) ==
  LET positions == DOMAIN path
  IN  {ReplaceAt(path, k, Junk) : k \in positions}
      \cup {RemoveAt(path, k) : k \in positions}
      \cup {InsertAt(path, k, Junk) : k \in 1..(Len(path) + 1)}
      \cup {[path EXCEPT ![k] = path[k + 1], ![k + 1] = path[k]] :
              k \in positions \ {Len(path)}}

\* The generated paths of the tree over n leaves.
Generated(n) == {Paths[n][m] : m \in 0..(n - 1)}

CallsWith(n, hashes, indexes, paths) ==
  [lh : hashes, leaf_index : indexes, tree_size : {n}, path : paths,
   root : {Roots[n]}]

CasesOf(n, index) ==
  CallsWith(n, {LeafHash(k) : k \in 0..n}, {index, n},
            Generated(n) \cup NearMisses(Paths[n][index]))

RivalsOf(n) ==
  CallsWith(n, Nodes(n), 0..n,
            Generated(n) \cup {<< >>} \cup {<<h>> : h \in Nodes(n)})

Sizes == 1..MaxSize
SomeRivals == UNION {RivalsOf(n) : n \in 1..MaxPairSize}
SomeCalls == SomeRivals \cup
  UNION {UNION {CasesOf(n, index) : index \in 0..(n - 1)} : n \in Sizes}

Claim ==
  /\ call.leaf_index < call.tree_size
  /\ call.lh = LeafHash(call.leaf_index + 1)
  /\ call.path = Paths[call.tree_size][call.leaf_index]

\* Against the root of the tree, the folding loop accepts exactly the leaf at
\* that index with exactly the path _log_inclusion_path generates for it, and
\* it always returns.
Promise == INSTANCE Decision WITH right <- Bool(Claim), answer <- ret
FoldDecidesInclusion == Promise!Spec
=============================================================================
