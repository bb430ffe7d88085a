------------------------ MODULE KeyRevocationProofs ------------------------
(***************************************************************************)
(* Proofs about check_revocation_class for every list of revocations, and  *)
(* about two calls of it.  What the two loops leave behind determines the  *)
(* answer: it is the one the list deserves when it is read at once.  Of a  *)
(* call that has returned nothing else needs to be remembered, so what two *)
(* calls say together follows from the two lists.                          *)
(***************************************************************************)
EXTENDS KeyRevocationPair, TLAPS

Applying == {j \in DOMAIN Revocations : Applies(Revocations[j])}

\* The comprehension has kept what applies of the elements it has passed.
Filtering ==
  IF pc = "filter" THEN members = {j \in Applying : j < k} /\ first = 0
                   ELSE members = Applying

\* first is the least member below n.
LeastBelow(n) ==
  /\ first = 0 => \A j \in members : n <= j
  /\ first # 0 => /\ first \in members
                  /\ \A j \in members : j < n => Since(first) <= Since(j)
                  /\ \A j \in members : j < first => Since(first) < Since(j)

Scanning == pc = "min" => members # {} /\ LeastBelow(k)

Least ==
  /\ first \in members
  /\ \A j \in members : Since(first) <= Since(j)
  /\ \A j \in members : j < first => Since(first) < Since(j)

\* The answer before and after the open lookups are looked at.
Placed ==
  IF members = {} THEN Without("not-revoked")
  ELSE [key_revocation |-> Placement(Since(first)),
        boundary |-> Since(first), revocation_ctx_id |-> first]

Final ==
  IF vector.unknown_lookups /\ Placed.key_revocation \in Accepting
    THEN Without("unknown") ELSE Placed

Settled ==
  pc \in {"lookups", "compare", "returned"} =>
    /\ members # {} => Least
    /\ got = IF pc = "lookups" THEN Placed ELSE Final

Compared == ret = IF pc = "returned"
                    THEN IF got = vector.expected THEN "True" ELSE "False"
                    ELSE "none"

IInv == TypeOK /\ Filtering /\ Scanning /\ Settled /\ Compared

LEMMA RevocationFacts ==
  ASSUME vector \in Vector
  PROVE  /\ Len(Revocations) \in Nat
         /\ DOMAIN Revocations = 1..Len(Revocations)
         /\ \A j \in DOMAIN Revocations : Since(j) \in Nat
<1>1. vector.revocations \in Seq(Revocation)
  BY DEF Vector
<1>2. /\ Len(vector.revocations) \in Nat
      /\ DOMAIN vector.revocations = 1..Len(vector.revocations)
      /\ \A j \in 1..Len(vector.revocations) : vector.revocations[j] \in Revocation
  BY <1>1
<1>3. \A r \in Revocation : r.compromised_since \in Nat
  BY DEF Revocation
<1> QED
  BY <1>2, <1>3 DEF Revocations, Since

\* A call that starts, whoever asks.
Start == vector \in Vector /\ Locals

LEMMA StartIInv == Start => IInv
<1> SUFFICES ASSUME Start PROVE IInv
  OBVIOUS
<1>1. vector \in Vector
  BY DEF Start
<1>2. Len(Revocations) \in Nat /\ DOMAIN Revocations = 1..Len(Revocations)
  BY <1>1, RevocationFacts
<1>3. got \in Answer
  BY DEF Start, Locals, Without, Answer, Classes, NoBoundary
<1>4. TypeOK
  BY <1>1, <1>2, <1>3 DEF Start, Locals, TypeOK
<1>5. Filtering
  BY <1>2 DEF Start, Locals, Filtering, Applying
<1> QED
  BY <1>4, <1>5 DEF Start, Locals, IInv, Scanning, Settled, Compared

LEMMA PlacedIsAnswer ==
  ASSUME vector \in Vector, members # {} => first \in DOMAIN Revocations
  PROVE  Placed \in Answer
<1>1. CASE members = {}
  BY <1>1 DEF Placed, Without, Answer, Classes, Accepting, NoBoundary
<1>2. CASE members # {}
  <2>1. first \in Nat /\ Since(first) \in Nat
    BY <1>2, RevocationFacts
  <2>2. Placement(Since(first)) \in Classes
    BY DEF Placement, Classes, Accepting
  <2> QED
    BY <1>2, <2>1, <2>2 DEF Placed, Answer
<1> QED
  BY <1>1, <1>2

LEMMA StepIInv == IInv /\ [Next]_vars => IInv'
<1> SUFFICES ASSUME IInv, [Next]_vars PROVE IInv'
  OBVIOUS
<1> DEFINE N == Len(Revocations)
<1>1. /\ vector \in Vector /\ N \in Nat /\ k \in 1..(N + 1)
      /\ DOMAIN Revocations = 1..N
      /\ \A j \in 1..N : Since(j) \in Nat
  BY RevocationFacts DEF IInv, TypeOK
<1>2. Applying \subseteq 1..N
  BY <1>1 DEF Applying
<1>12. \A j \in Applying : j \in Nat /\ 1 <= j /\ j <= N
  BY <1>1, <1>2
<1> HIDE DEF N
<1>3. CASE Keep
  <2>1. k \in 1..N /\ k \in Applying
    BY <1>1, <1>3 DEF Keep, Applying, N
  <2>2. TypeOK'
    BY <1>1, <1>3, <2>1 DEF Keep, IInv, TypeOK, N, Revocations
  <2>3. members' = {j \in Applying : j < k + 1}
    <3>1. members = {j \in Applying : j < k} /\ members' = members \cup {k}
      BY <1>3 DEF Keep, IInv, Filtering
    <3>2. \A j \in Applying : j < k + 1 <=> j < k \/ j = k
      BY <1>1, <1>12
    <3> QED
      BY <2>1, <3>1, <3>2
  <2>4. Filtering' /\ Scanning' /\ Settled'
    BY <1>3, <2>3 DEF Keep, IInv, Filtering, Applying, Scanning, Settled,
       Revocations, Applies
  <2>20. Compared'
    BY <1>3 DEF Keep, IInv, Compared
  <2> QED
    BY <2>2, <2>4, <2>20 DEF IInv
<1>4. CASE Drop
  <2>1. k \in 1..N /\ k \notin Applying
    BY <1>1, <1>4 DEF Drop, Applying, N
  <2>2. TypeOK'
    BY <1>1, <1>4, <2>1 DEF Drop, IInv, TypeOK, N, Revocations
  <2>3. members' = {j \in Applying : j < k + 1}
    <3>1. members = {j \in Applying : j < k} /\ members' = members
      BY <1>4 DEF Drop, IInv, Filtering
    <3>2. \A j \in Applying : j < k + 1 <=> j < k \/ j = k
      BY <1>1, <1>12
    <3> QED
      BY <2>1, <3>1, <3>2
  <2>4. Filtering' /\ Scanning' /\ Settled'
    BY <1>4, <2>3 DEF Drop, IInv, Filtering, Applying, Scanning, Settled,
       Revocations, Applies
  <2>20. Compared'
    BY <1>4 DEF Drop, IInv, Compared
  <2> QED
    BY <2>2, <2>4, <2>20 DEF IInv
<1>5. CASE NoMember
  <2>1. members = Applying
    <3>1. members = {j \in Applying : j < k} /\ k > N
      BY <1>5 DEF NoMember, IInv, Filtering, N
    <3>2. \A j \in Applying : j < k
      BY <1>1, <1>12, <3>1
    <3> QED
      BY <3>1, <3>2
  <2>2. TypeOK'
    BY <1>1, <1>5 DEF NoMember, IInv, TypeOK, N, Revocations, Without, Answer,
       Classes, Accepting, NoBoundary
  <2>3. Filtering' /\ Scanning' /\ Settled'
    BY <1>5, <2>1 DEF NoMember, Filtering, Applying, Scanning, Settled, Placed,
       Revocations, Applies
  <2>20. Compared'
    BY <1>5 DEF NoMember, IInv, Compared
  <2> QED
    BY <2>2, <2>3, <2>20 DEF IInv
<1>6. CASE SomeMember
  <2>1. members = Applying
    <3>1. members = {j \in Applying : j < k} /\ k > N
      BY <1>6 DEF SomeMember, IInv, Filtering, N
    <3>2. \A j \in Applying : j < k
      BY <1>1, <1>12, <3>1
    <3> QED
      BY <3>1, <3>2
  <2>2. first = 0
    BY <1>6 DEF SomeMember, IInv, Filtering
  <2>3. TypeOK'
    BY <1>1, <1>6 DEF SomeMember, IInv, TypeOK, N, Revocations
  <2>4. Filtering'
    BY <1>6, <2>1 DEF SomeMember, Filtering, Applying, Revocations, Applies
  <2>5. \A j \in members : 1 <= j /\ ~(j < 1)
    BY <1>2, <2>1, <1>1
  <2>6. Scanning' /\ Settled'
    BY <1>6, <2>2, <2>5
       DEF SomeMember, Scanning, LeastBelow, Settled, Revocations, Since
  <2>20. Compared'
    BY <1>6 DEF SomeMember, IInv, Compared
  <2> QED
    BY <2>3, <2>4, <2>6, <2>20 DEF IInv
<1>7. CASE CompareMember
  <2>1. k \in 1..N /\ k + 1 \in 1..(N + 1)
    BY <1>1, <1>7 DEF CompareMember, N
  <2>2. /\ members = Applying /\ members # {} /\ LeastBelow(k)
        /\ members \subseteq 1..N /\ first \in {0} \cup members
    BY <1>2, <1>7 DEF CompareMember, IInv, Filtering, Scanning, TypeOK, N
  <2>3. first' \in {0} \cup members
    BY <1>7, <2>2 DEF CompareMember, Earlier
  <2>4. TypeOK'
    BY <1>7, <2>1, <2>3 DEF CompareMember, IInv, TypeOK, N, Revocations
  <2>5. Filtering'
    BY <1>7, <2>2 DEF CompareMember, Filtering, Applying, Revocations, Applies
  <2>6. \A j : Since(j)' = Since(j)
    BY <1>7 DEF CompareMember, Since, Revocations
  <2>7. LeastBelow(k)'
    <3>1. CASE k \notin members
      BY <1>1, <1>7, <2>1, <2>2, <2>6, <3>1 DEF CompareMember, Earlier, LeastBelow
    <3>2. CASE k \in members /\ first = 0
      BY <1>1, <1>7, <2>1, <2>2, <2>6, <3>2 DEF CompareMember, Earlier, LeastBelow
    <3>3. CASE k \in members /\ first # 0 /\ Since(k) < Since(first)
      BY <1>1, <1>7, <2>1, <2>2, <2>6, <3>3 DEF CompareMember, Earlier, LeastBelow
    <3>4. CASE k \in members /\ first # 0 /\ ~(Since(k) < Since(first))
      BY <1>1, <1>7, <2>1, <2>2, <2>6, <3>4 DEF CompareMember, Earlier, LeastBelow
    <3> QED
      BY <3>1, <3>2, <3>3, <3>4
  <2>8. Scanning' /\ Settled'
    BY <1>7, <2>2, <2>7 DEF CompareMember, Scanning, Settled
  <2>20. Compared'
    BY <1>7 DEF CompareMember, IInv, Compared
  <2> QED
    BY <2>4, <2>5, <2>8, <2>20 DEF IInv
<1>8. CASE Place
  <2>1. /\ members = Applying /\ members # {} /\ LeastBelow(k) /\ k = N + 1
        /\ members \subseteq 1..N
    BY <1>1, <1>2, <1>8 DEF Place, IInv, Filtering, Scanning, TypeOK, N
  <2>2. first # 0
    <3>1. PICK j \in members : TRUE
      BY <2>1
    <3>2. j \in Nat /\ ~(k <= j)
      BY <1>1, <1>12, <2>1, <3>1
    <3> QED
      BY <2>1, <3>1, <3>2 DEF LeastBelow
  <2>3. Least
    BY <1>1, <2>1, <2>2 DEF LeastBelow, Least
  <2>4. got' = Placed
    BY <1>8, <2>1 DEF Place, Placed
  <2>5. got' \in Answer
    BY <1>1, <2>1, <2>3, <2>4, PlacedIsAnswer DEF Least
  <2>6. TypeOK'
    BY <1>8, <2>5 DEF Place, IInv, TypeOK, Revocations
  <2>7. Filtering' /\ Scanning'
    BY <1>8, <2>1 DEF Place, Filtering, Scanning, Applying, Revocations, Applies
  <2>8. Settled'
    BY <1>8, <2>3, <2>4 DEF Place, Settled, Least, Placed, Placement, Since,
       Revocations
  <2>20. Compared'
    BY <1>8 DEF Place, IInv, Compared
  <2> QED
    BY <2>6, <2>7, <2>8, <2>20 DEF IInv
<1>9. CASE OpenLookups
  <2>1. got' = Final
    BY <1>9 DEF OpenLookups, IInv, Settled, Final
  <2>2. got' \in Answer
    BY <1>9 DEF OpenLookups, IInv, TypeOK, Without, Answer, Classes, NoBoundary
  <2>3. TypeOK'
    BY <1>9, <2>2 DEF OpenLookups, IInv, TypeOK, Revocations
  <2>4. Filtering' /\ Scanning'
    BY <1>9 DEF OpenLookups, IInv, Filtering, Scanning, Applying, Revocations,
       Applies
  <2>5. Settled'
    BY <1>9, <2>1 DEF OpenLookups, IInv, Settled, Least, Final, Placed,
       Placement, Since, Revocations
  <2>20. Compared'
    BY <1>9 DEF OpenLookups, IInv, Compared
  <2> QED
    BY <2>3, <2>4, <2>5, <2>20 DEF IInv
<1>10. CASE Compare
  <2>1. TypeOK'
    BY <1>10 DEF Compare, IInv, TypeOK, Revocations
  <2>2. Filtering' /\ Scanning'
    BY <1>10 DEF Compare, IInv, Filtering, Scanning, Applying, Revocations,
       Applies
  <2>3. Settled'
    BY <1>10 DEF Compare, IInv, Settled, Least, Final, Placed,
       Placement, Since, Revocations
  <2>20. Compared'
    BY <1>10 DEF Compare, IInv, Compared
  <2> QED
    BY <2>1, <2>2, <2>3, <2>20 DEF IInv
<1>11. CASE UNCHANGED vars
  BY <1>11 DEF vars, IInv, TypeOK, Filtering, Scanning, LeastBelow, Settled,
     Least, Final, Placed, Placement, Since, Revocations, Applying, Applies, Compared
<1> QED
  BY <1>3, <1>4, <1>5, <1>6, <1>7, <1>8, <1>9, <1>10, <1>11 DEF Next
----------------------------------------------------------------------------
\* What an answer is, once given: a function of what applies.
LEMMA AnswerFacts ==
  ASSUME IInv, Answered
  PROVE  /\ vector \in Vector
         /\ members = Applying
         /\ members \subseteq DOMAIN Revocations
         /\ members # {} => Least
         /\ got = Final
<1>1. pc = "returned"
  BY DEF Answered
<1> QED
  BY <1>1 DEF IInv, TypeOK, Filtering, Settled, Applying

LEMMA EarliestLemma == IInv => BoundaryIsEarliest
<1> SUFFICES ASSUME IInv, Answered
             PROVE  IF got.key_revocation \in {"not-revoked", "unknown"}
                      THEN got = Without(got.key_revocation)
                      ELSE /\ got.revocation_ctx_id \in DOMAIN Revocations
                           /\ Applies(Revocations[got.revocation_ctx_id])
                           /\ got.boundary = Since(got.revocation_ctx_id)
                           /\ \A j \in DOMAIN Revocations :
                                Applies(Revocations[j]) => got.boundary <= Since(j)
  BY DEF BoundaryIsEarliest
<1>1. CASE members = {}
  BY <1>1, AnswerFacts DEF Final, Placed, Without
<1>2. CASE members # {} /\ got = Placed
  BY <1>2, AnswerFacts DEF Placed, Placement, Least, Applying
<1>3. CASE members # {} /\ got = Without("unknown")
  BY <1>3 DEF Without
<1> QED
  BY <1>1, <1>2, <1>3, AnswerFacts DEF Final

LEMMA EarnedLemma == IInv => AcceptanceIsEarned
<1> SUFFICES ASSUME IInv, Answered, got.key_revocation \in Accepting
             PROVE  /\ ~vector.unknown_lookups
                    /\ \A j \in DOMAIN Revocations :
                         Applies(Revocations[j]) =>
                           /\ got.key_revocation = "pre-compromise"
                           /\ vector.receipt.verified /\ vector.receipt.current
                           /\ vector.receipt.created_at < Since(j)
  BY DEF AcceptanceIsEarned
<1>1. got = Placed /\ ~vector.unknown_lookups
  BY AnswerFacts DEF Final, Without, Accepting
<1>2. CASE members = {}
  BY <1>1, <1>2, AnswerFacts DEF Applying
<1>3. CASE members # {}
  <2>1. got.key_revocation = Placement(Since(first))
    BY <1>1, <1>3 DEF Placed
  <2>2. /\ got.key_revocation = "pre-compromise"
        /\ vector.receipt.verified /\ vector.receipt.current
        /\ vector.receipt.created_at < Since(first)
    BY <2>1 DEF Placement, Accepting
  <2>3. vector.receipt.created_at \in Nat
    BY AnswerFacts DEF Vector
  <2>4. \A j \in Applying : Since(first) <= Since(j)
    BY <1>3, AnswerFacts DEF Least
  <2>5. \A j \in DOMAIN Revocations : Since(j) \in Nat
    BY AnswerFacts, RevocationFacts
  <2>6. first \in DOMAIN Revocations
    BY <1>3, AnswerFacts DEF Least
  <2> QED
    BY <1>1, <2>2, <2>3, <2>4, <2>5, <2>6 DEF Applying
<1> QED
  BY <1>2, <1>3

LEMMA JustifiedLemma == IInv => RefusalIsJustified
<1> SUFFICES ASSUME IInv, Answered,
                    got.key_revocation \in {"revoked", "unplaceable"}
             PROVE  \E j \in DOMAIN Revocations :
                      /\ Applies(Revocations[j])
                      /\ \/ ~vector.receipt.verified
                         \/ ~vector.receipt.current
                         \/ vector.receipt.created_at >= Since(j)
  BY DEF RefusalIsJustified
<1>1. got = Placed
  BY AnswerFacts DEF Final, Without
<1>2. members # {}
  BY <1>1 DEF Placed, Without
<1>3. Placement(Since(first)) # "pre-compromise"
  BY <1>1, <1>2 DEF Placed
<1>4. first \in DOMAIN Revocations /\ Applies(Revocations[first])
  BY <1>2, AnswerFacts DEF Least, Applying
<1>5. vector.receipt.created_at \in Nat /\ Since(first) \in Nat
  BY <1>4, AnswerFacts, RevocationFacts DEF Vector
<1> QED
  BY <1>3, <1>4, <1>5 DEF Placement

----------------------------------------------------------------------------
\* The reference reads off the list what the comprehension collects.
LEMMA ConcerningApplies ==
  ASSUME vector \in Vector
  PROVE  ConcerningIn(vector) = Applying
<1> SUFFICES ASSUME NEW j \in DOMAIN Revocations
             PROVE  Revocations[j] \in Concerning(vector.context)
                      <=> Applies(Revocations[j])
  BY DEF ConcerningIn, Applying, Revocations
<1>1. Revocations[j] \in Revocation
  BY DEF Vector, Revocations
<1> HIDE DEF Revocations
<1> QED
  BY <1>1 DEF Revocation, Concerning, Applies

\* Only one place in a list is the earliest.
LEMMA OneEarliest ==
  ASSUME NEW v \in Vector, NEW j, IsEarliestIn(v, j)
  PROVE  /\ EarliestIn(v) = j
         /\ IsEarliestIn(v, EarliestIn(v))
<1> DEFINE at(i) == v.revocations[i].compromised_since
<1>1. \A i \in ConcerningIn(v) : i \in Nat /\ at(i) \in Nat
  <2>1. v.revocations \in Seq(Revocation)
    BY DEF Vector
  <2>2. \A r \in Revocation : r.compromised_since \in Nat
    BY DEF Revocation
  <2>3. \A i \in ConcerningIn(v) : i \in Nat /\ v.revocations[i] \in Revocation
    BY <2>1 DEF ConcerningIn
  <2> QED
    BY <2>2, <2>3
<1>2. j \in ConcerningIn(v)
  BY DEF IsEarliestIn
<1>3. IsEarliestIn(v, EarliestIn(v)) /\ EarliestIn(v) \in ConcerningIn(v)
  BY <1>2 DEF EarliestIn
<1>4. EarliestIn(v) = j
  <2> DEFINE e == EarliestIn(v)
  <2>1. /\ at(e) < at(j) \/ (at(e) = at(j) /\ e <= j)
        /\ at(j) < at(e) \/ (at(j) = at(e) /\ j <= e)
    BY <1>2, <1>3 DEF IsEarliestIn
  <2>2. /\ e \in Nat /\ j \in Nat /\ at(e) \in Nat /\ at(j) \in Nat
    BY <1>1, <1>2, <1>3
  <2> HIDE DEF e, at
  <2>3. e = j
    BY <2>1, <2>2
  <2> QED
    BY <2>3 DEF e
<1> QED
  BY <1>3, <1>4

\* The two loops arrive at what the reference reads off.
LEMMA AnswerIsReference ==
  ASSUME IInv, Answered
  PROVE  /\ got = Reference(vector)
         /\ ret = Deserved(vector)
         /\ ConcerningIn(vector) # {} =>
              IsEarliestIn(vector, EarliestIn(vector))
<1>1. /\ vector \in Vector /\ members = Applying /\ got = Final
      /\ members # {} => Least
      /\ ConcerningIn(vector) = Applying
  BY AnswerFacts, ConcerningApplies
<1>2. ASSUME members # {}
      PROVE  /\ EarliestIn(vector) = first
             /\ IsEarliestIn(vector, EarliestIn(vector))
             /\ BoundaryOf(vector) = Since(first)
             /\ Since(first) \in Nat /\ vector.receipt.created_at \in Nat
  <2>1. \A j \in DOMAIN Revocations : Since(j) \in Nat /\ j \in Nat
    BY <1>1, RevocationFacts
  <2>2. first \in DOMAIN Revocations
    BY <1>1, <1>2 DEF Least, Applying
  <2>3. IsEarliestIn(vector, first)
    <3> SUFFICES ASSUME NEW i \in Applying
                 PROVE  Since(first) < Since(i)
                        \/ (Since(first) = Since(i) /\ first <= i)
      BY <1>1, <1>2 DEF IsEarliestIn, Since, Revocations, Least
    <3>1. i \in Nat /\ Since(i) \in Nat /\ first \in Nat /\ Since(first) \in Nat
      BY <2>1, <2>2 DEF Applying
    <3>2. Since(first) <= Since(i) /\ (i < first => Since(first) < Since(i))
      BY <1>1, <1>2 DEF Least
    <3> QED
      BY <3>1, <3>2
  <2>4. EarliestIn(vector) = first /\ IsEarliestIn(vector, EarliestIn(vector))
    BY <1>1, <2>3, OneEarliest
  <2>5. vector.receipt.created_at \in Nat
    BY <1>1 DEF Vector
  <2> QED
    BY <2>1, <2>2, <2>4, <2>5 DEF BoundaryOf, Since, Revocations
<1>3. got = Reference(vector)
  <2>1. CASE members = {}
    <3>1. ConcerningIn(vector) = {}
      BY <1>1, <2>1
    <3>2. Placed = Without("not-revoked") /\ ClassOf(vector) = "not-revoked"
      BY <2>1, <3>1 DEF Placed, ClassOf
    <3> QED
      BY <1>1, <3>1, <3>2 DEF Final, Reference, Without
  <2>2. CASE members # {}
    <3>1. ConcerningIn(vector) # {}
      BY <1>1, <2>2
    <3>2. ClassOf(vector) = Placement(Since(first))
      <4>1. vector.receipt.verified \in BOOLEAN /\ vector.receipt.current \in BOOLEAN
        BY <1>1 DEF Vector
      <4> QED
        BY <1>2, <2>2, <3>1, <4>1 DEF ClassOf, Placement
    <3>3. Placed = [key_revocation |-> ClassOf(vector),
                    boundary |-> BoundaryOf(vector),
                    revocation_ctx_id |-> EarliestIn(vector)]
      BY <1>2, <2>2, <3>2 DEF Placed
    <3>4. Placed.key_revocation = ClassOf(vector)
      BY <3>3
    <3> QED
      BY <1>1, <3>1, <3>3, <3>4 DEF Final, Reference
  <2> QED
    BY <2>1, <2>2
<1>4. ret = Deserved(vector)
  BY <1>3 DEF IInv, Compared, Answered, Deserved
<1> QED
  BY <1>1, <1>2, <1>3, <1>4
----------------------------------------------------------------------------
\* What is left of a call that has returned.
Told(c) ==
  /\ c \in Calls
  /\ c.got = Reference(c.vector)
  /\ c.ret = Deserved(c.vector)
  /\ ConcerningIn(c.vector) # {} =>
       IsEarliestIn(c.vector, EarliestIn(c.vector))

Remembered ==
  earlier # << >> =>
    /\ earlier = <<First>>
    /\ Told(First)
    /\ LearnedMore(First.vector, vector)

PairIInv == IInv /\ Remembered

LEMMA PairInitIInv == PairInit => PairIInv
BY StartIInv, VectorsAssumption
   DEF PairInit, Init, Start, PairIInv, Remembered

LEMMA CallIsTold ==
  ASSUME IInv, Answered
  PROVE  Told(Call)
<1>1. /\ vector \in Vector /\ got \in Answer /\ ret \in {"True", "False"}
  BY DEF IInv, TypeOK, Compared, Answered
<1>2. Call \in Calls
  BY <1>1 DEF Call, Calls
<1>3. Call.vector = vector /\ Call.got = got /\ Call.ret = ret
  BY DEF Call
<1> QED
  BY <1>2, <1>3, AnswerIsReference DEF Told

LEMMA PairStepIInv == PairIInv /\ [PairNext]_pairVars => PairIInv'
<1> SUFFICES ASSUME PairIInv, [PairNext]_pairVars PROVE PairIInv'
  OBVIOUS
<1>1. ASSUME [Next]_vars, UNCHANGED earlier
      PROVE  PairIInv'
  <2>1. IInv'
    BY <1>1, StepIInv DEF PairIInv
  <2>2. vector' = vector
    BY <1>1 DEF Next, Keep, Drop, NoMember, SomeMember, CompareMember, Place,
       OpenLookups, Compare, vars
  <2>3. First' = First
    BY <1>1 DEF First
  <2>4. Remembered'
    BY <1>1, <2>2, <2>3 DEF PairIInv, Remembered
  <2> QED
    BY <2>1, <2>4 DEF PairIInv
<1>2. CASE AskAgain
  <2>1. /\ vector' \in Vector
        /\ LearnedMore(vector, vector')
    BY <1>2, VectorsAssumption, RivalsAssumption
       DEF AskAgain, PairIInv, IInv, TypeOK
  <2>2. Start' => IInv'
    BY StartIInv, PTL
  <2>3. IInv'
    BY <1>2, <2>1, <2>2 DEF AskAgain, Start, Locals
  <2>4. First' = Call /\ earlier' = <<First'>>
    BY <1>2 DEF AskAgain, First
  <2>5. Told(First')
    BY <1>2, <2>4, CallIsTold DEF AskAgain, Answered, PairIInv
  <2> QED
    BY <2>1, <2>3, <2>4, <2>5 DEF PairIInv, Remembered, Call
<1> QED
  BY <1>1, <1>2 DEF PairNext, Classify, pairVars

LEMMA Invariance == PairSpec => []PairIInv
BY PairInitIInv, PairStepIInv, PTL DEF PairSpec

\* The types are right in every reachable state.
THEOREM TypeCorrect == PairSpec => []TypeOK
<1>1. PairIInv => TypeOK
  BY DEF PairIInv, IInv
<1> QED
  BY Invariance, <1>1, PTL

\* Whatever is in the list, and in whatever order, the boundary of an answer
\* is the earliest instant of all revocations that apply.
THEOREM BoundaryCorrect == PairSpec => []BoundaryIsEarliest
<1>1. PairIInv => BoundaryIsEarliest
  BY EarliestLemma DEF PairIInv
<1> QED
  BY Invariance, <1>1, PTL

\* No list of revocations leads to an acceptance that was not earned.
THEOREM AcceptanceCorrect == PairSpec => []AcceptanceIsEarned
<1>1. PairIInv => AcceptanceIsEarned
  BY EarnedLemma DEF PairIInv
<1> QED
  BY Invariance, <1>1, PTL

\* No context is refused without a revocation that justifies it.
THEOREM RefusalCorrect == PairSpec => []RefusalIsJustified
<1>1. PairIInv => RefusalIsJustified
  BY JustifiedLemma DEF PairIInv
<1> QED
  BY Invariance, <1>1, PTL
----------------------------------------------------------------------------
\* What concerns the key and is known is known to who knows more, with the
\* same instant.
LEMMA ConcerningIsKnown ==
  ASSUME NEW v, NEW w, LearnedMore(v, w), NEW j \in ConcerningIn(v)
  PROVE  \E i \in ConcerningIn(w) : w.revocations[i] = v.revocations[j]
BY DEF ConcerningIn, LearnedMore, Knows

LEMMA InstantsOf ==
  ASSUME NEW v \in Vector
  PROVE  /\ v.receipt.created_at \in Nat
         /\ v.receipt.verified \in BOOLEAN /\ v.receipt.current \in BOOLEAN
         /\ \A j \in ConcerningIn(v) : v.revocations[j].compromised_since \in Nat
<1>1. v.revocations \in Seq(Revocation)
  BY DEF Vector
<1>2. \A j \in ConcerningIn(v) : v.revocations[j] \in Revocation
  BY <1>1 DEF ConcerningIn
<1> QED
  BY <1>2 DEF Vector, Revocation

\* Knowing more moves the boundary back, if at all.
LEMMA BoundaryMovesBack ==
  ASSUME NEW v \in Vector, NEW w \in Vector, LearnedMore(v, w),
         ConcerningIn(v) # {},
         IsEarliestIn(v, EarliestIn(v)),
         ConcerningIn(w) # {} => IsEarliestIn(w, EarliestIn(w))
  PROVE  /\ ConcerningIn(w) # {}
         /\ BoundaryOf(v) \in Nat /\ BoundaryOf(w) \in Nat
         /\ BoundaryOf(w) <= BoundaryOf(v)
<1>1. EarliestIn(v) \in ConcerningIn(v)
  BY DEF IsEarliestIn
<1>2. PICK i \in ConcerningIn(w) : w.revocations[i] = v.revocations[EarliestIn(v)]
  BY <1>1, ConcerningIsKnown
<1>3. /\ EarliestIn(w) \in ConcerningIn(w)
      /\ \/ BoundaryOf(w) < w.revocations[i].compromised_since
         \/ BoundaryOf(w) = w.revocations[i].compromised_since
  BY <1>2 DEF IsEarliestIn, BoundaryOf
<1>4. BoundaryOf(w) \in Nat /\ BoundaryOf(v) \in Nat
  BY <1>1, <1>3, InstantsOf DEF BoundaryOf
<1> QED
  BY <1>2, <1>3, <1>4 DEF BoundaryOf

\* Whatever two lists of which the second holds the first: a refusal stands
\* and its boundary never moves forward.
THEOREM RefusalIsFinal == PairSpec => []RefusalStands
<1>1. ASSUME PairIInv, BothAnswered, First.got.key_revocation \in Refused
      PROVE  /\ got.key_revocation = First.got.key_revocation
             /\ got.boundary <= First.got.boundary
  <2> DEFINE v == First.vector
             w == vector
  <2>1. /\ v \in Vector /\ w \in Vector /\ LearnedMore(v, w)
        /\ First.got = Reference(v) /\ got = Reference(w)
        /\ ConcerningIn(v) # {} => IsEarliestIn(v, EarliestIn(v))
        /\ ConcerningIn(w) # {} => IsEarliestIn(w, EarliestIn(w))
    BY <1>1, AnswerIsReference
       DEF PairIInv, Remembered, Told, Calls, BothAnswered, IInv, TypeOK
  <2> HIDE DEF v, w
  <2>2. /\ ConcerningIn(v) # {} /\ ClassOf(v) \in Refused
        /\ First.got = [key_revocation |-> ClassOf(v),
                        boundary |-> BoundaryOf(v),
                        revocation_ctx_id |-> EarliestIn(v)]
    <3>1. Reference(v).key_revocation \in Refused
      BY <1>1, <2>1
    <3> QED
      BY <2>1, <3>1 DEF Reference, Refused, Accepting, Without, ClassOf
  <2>3. /\ ConcerningIn(w) # {} /\ BoundaryOf(w) <= BoundaryOf(v)
        /\ BoundaryOf(v) \in Nat /\ BoundaryOf(w) \in Nat
    BY <2>1, <2>2, BoundaryMovesBack
  <2>4. ClassOf(w) = ClassOf(v)
    <3>1. w.receipt = v.receipt /\ v.receipt.created_at \in Nat
      BY <2>1, InstantsOf DEF LearnedMore
    <3> QED
      BY <2>2, <2>3, <3>1 DEF ClassOf, Refused
  <2>5. got = [key_revocation |-> ClassOf(w), boundary |-> BoundaryOf(w),
               revocation_ctx_id |-> EarliestIn(w)]
    BY <2>1, <2>2, <2>3, <2>4 DEF Reference, Refused, Accepting
  <2> QED
    BY <2>2, <2>3, <2>4, <2>5
<1>2. PairIInv => RefusalStands
  BY <1>1 DEF RefusalStands
<1> QED
  BY Invariance, <1>2, PTL

\* Whatever the order of the revocations, and however often each is listed,
\* the class and the boundary are the same.
THEOREM OrderDoesNotMatter == PairSpec => []OrderIsIrrelevant
<1>1. ASSUME PairIInv, BothAnswered,
             ~First.vector.unknown_lookups, ~vector.unknown_lookups,
             LearnedMore(vector, First.vector)
      PROVE  /\ got.key_revocation = First.got.key_revocation
             /\ got.boundary = First.got.boundary
  <2> DEFINE v == First.vector
             w == vector
  <2>1. /\ v \in Vector /\ w \in Vector
        /\ LearnedMore(v, w) /\ LearnedMore(w, v)
        /\ ~v.unknown_lookups /\ ~w.unknown_lookups
        /\ First.got = Reference(v) /\ got = Reference(w)
        /\ ConcerningIn(v) # {} => IsEarliestIn(v, EarliestIn(v))
        /\ ConcerningIn(w) # {} => IsEarliestIn(w, EarliestIn(w))
    BY <1>1, AnswerIsReference
       DEF PairIInv, Remembered, Told, Calls, BothAnswered, IInv, TypeOK
  <2> HIDE DEF v, w
  <2>2. CASE ConcerningIn(v) = {}
    <3>1. ConcerningIn(w) = {}
      BY <2>1, <2>2, ConcerningIsKnown
    <3> QED
      BY <2>1, <2>2, <3>1 DEF Reference, ClassOf, Without
  <2>3. CASE ConcerningIn(v) # {}
    <3>1. /\ ConcerningIn(w) # {}
          /\ BoundaryOf(v) \in Nat /\ BoundaryOf(w) \in Nat
          /\ BoundaryOf(w) <= BoundaryOf(v)
      BY <2>1, <2>3, BoundaryMovesBack
    <3>2. BoundaryOf(v) <= BoundaryOf(w)
      BY <2>1, <3>1, BoundaryMovesBack
    <3>3. BoundaryOf(v) = BoundaryOf(w) /\ w.receipt = v.receipt
      BY <2>1, <3>1, <3>2 DEF LearnedMore
    <3>4. ClassOf(v) = ClassOf(w)
      BY <2>3, <3>1, <3>3 DEF ClassOf
    <3> QED
      BY <2>1, <2>3, <3>1, <3>3, <3>4 DEF Reference
  <2> QED
    BY <2>2, <2>3
<1>2. PairIInv => OrderIsIrrelevant
  BY <1>1 DEF OrderIsIrrelevant
<1> QED
  BY Invariance, <1>2, PTL
----------------------------------------------------------------------------
LEMMA AnswerIsDeserved == IInv /\ Answered => ret = Deserved(vector)
BY AnswerIsReference

\* Every step of the calls is a step of the abstract decision or none: the
\* answer that is asked for whatever happens is given once, and is the one
\* the vector deserves.
THEOREM ClassIsDecided == PairSpec => Promise!Safety
<1>1. PairInit => Promise!Init
  BY DEF PairInit, Init, Locals, Promise!Init, Asked, Call
<1>2. PairIInv /\ PairIInv' /\ [PairNext]_pairVars =>
        [Promise!Decide]_<<Deserved(Asked.vector), Asked.ret>>
  <2> SUFFICES ASSUME PairIInv, PairIInv', [PairNext]_pairVars
               PROVE  [Promise!Decide]_<<Deserved(Asked.vector), Asked.ret>>
    OBVIOUS
  <2>1. CASE Compare /\ UNCHANGED earlier /\ earlier = << >>
    <3>1. /\ Asked = Call /\ Asked' = Call'
          /\ Asked.vector = vector /\ Asked'.vector = vector'
          /\ Asked.ret = ret /\ Asked'.ret = ret'
      BY <2>1 DEF Asked, Call
    <3>2. vector' = vector /\ Answered'
      BY <2>1 DEF Compare, Answered
    <3>3. ret = "none"
      BY <2>1 DEF PairIInv, IInv, Compared, Compare
    <3>4. (IInv /\ Answered => ret = Deserved(vector))'
      BY AnswerIsDeserved, PTL
    <3>5. ret' = Deserved(vector')
      BY <3>2, <3>4 DEF PairIInv
    <3> QED
      BY <3>1, <3>2, <3>3, <3>5 DEF Promise!Decide
  <2>2. CASE UNCHANGED <<vector, ret, earlier>>
    BY <2>2 DEF Asked, Call, First
  <2>3. CASE AskAgain
    BY <2>3 DEF AskAgain, Asked, Call, First
  <2>4. CASE Classify /\ earlier # << >>
    BY <2>4 DEF Classify, Asked, First
  <2>5. CASE Classify /\ earlier = << >> /\ ~Compare
    <3>1. UNCHANGED <<vector, ret, earlier>>
      BY <2>5 DEF Classify, Next, Keep, Drop, NoMember, SomeMember,
         CompareMember, Place, OpenLookups
    <3> QED
      BY <2>2, <3>1
  <2> QED
    BY <2>1, <2>2, <2>3, <2>4, <2>5 DEF PairNext, Classify, pairVars, vars
<1> QED
  BY Invariance, <1>1, <1>2, PTL DEF PairSpec, Promise!Safety
=============================================================================
