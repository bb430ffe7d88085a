------------------------------ MODULE LogTree ------------------------------
(***************************************************************************)
(* The generators of the transparency-log section of                       *)
(* scripts/conformance-runner.py: Merkle tree hash, inclusion path and     *)
(* consistency proof of a sequence of leaf hashes.  They are the reference *)
(* the two verifiers (LogInclusion, LogConsistency) are checked against.   *)
(*                                                                         *)
(* The generators recurse on slices of the list of leaf hashes.  A slice   *)
(* is given here by its length len and the number lo of hashes before it,  *)
(* so each recursion is a function of the length.                          *)
(***************************************************************************)
EXTENDS Naturals, Sequences

Node(left, right) == <<left, right>>

EmptyTreeHash == << >>

\* k after so many rounds of k *= 2, starting from k = 1.
Doubled[rounds \in Nat] == IF rounds = 0 THEN 1 ELSE 2 * Doubled[rounds - 1]

\* k doubles while 2k < n.
LargestPow2Lt(n) ==
  Doubled[CHOOSE rounds \in 0..n :
            /\ ~(Doubled[rounds] * 2 < n)
            /\ \A before \in 0..rounds : before # rounds => Doubled[before] * 2 < n]

Roots(hashes) ==
  LET root[len \in Nat] ==
        [lo \in Nat |->
           IF len < 2 THEN hashes[lo + 1]
           ELSE LET k == LargestPow2Lt(len)
                IN  Node(root[k][lo], root[len - k][lo + k])]
  IN  root

MTH(hashes) ==
  IF Len(hashes) = 0 THEN EmptyTreeHash ELSE Roots(hashes)[Len(hashes)][0]

Paths(hashes) ==
  LET path[len \in Nat] ==
        [m \in Nat |-> [lo \in Nat |->
           IF len < 2 THEN << >>
           ELSE LET k == LargestPow2Lt(len)
                IN  IF m < k
                      THEN Append(path[k][m][lo], Roots(hashes)[len - k][lo + k])
                      ELSE Append(path[len - k][m - k][lo + k],
                                  Roots(hashes)[k][lo])]]
  IN  path

PATH(m, hashes) == Paths(hashes)[Len(hashes)][m][0]

\* b: the first m leaves are still a whole tree the verifier knows.  Called
\* with 0 < m <= len, as below, no slice gets shorter than its m.
SubProofs(hashes) ==
  LET subproof[len \in Nat] ==
        [m \in Nat |-> [b \in BOOLEAN |-> [lo \in Nat |->
           IF m = len \/ len < 2
             THEN IF b THEN << >> ELSE <<Roots(hashes)[len][lo]>>
           ELSE LET k == LargestPow2Lt(len)
                IN  IF m <= k
                      THEN Append(subproof[k][m][b][lo],
                                  Roots(hashes)[len - k][lo + k])
                      ELSE Append(subproof[len - k][m - k][FALSE][lo + k],
                                  Roots(hashes)[k][lo])]]]
  IN  subproof

ConsistencyProof(m, hashes) == SubProofs(hashes)[Len(hashes)][m][TRUE][0]
=============================================================================
