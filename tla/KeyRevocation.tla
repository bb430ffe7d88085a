--------------------------- MODULE KeyRevocation ---------------------------
(***************************************************************************)
(* One call of check_revocation_class (scripts/conformance-runner.py): the *)
(* classification of a context from the revocations of its signing key.    *)
(*                                                                         *)
(* What the input says is abstracted to what the code compares:            *)
(*   - an instant is a natural number;                                     *)
(*   - a revocation is named, in got, by its place in the list rather than *)
(*     by its ctx_id;                                                      *)
(*   - the receipt is [verified, current, created_at], "verified" FALSE    *)
(*     standing also for no receipt at all;                                *)
(*   - unknown_lookups is whether the count is not 0.                      *)
(***************************************************************************)
EXTENDS Naturals, Sequences

CONSTANTS
  Keys, Agents,     \* key fingerprints and agent identifiers
  Vectors           \* the vectors the function may be called with

Revocation ==
  [type : {"key-revocation", "acdp:key-revocation", "other"},
   revoked_key_fingerprint : Keys,
   trust_class : {"producer-signed", "registry-attested", "other"},
   agent_id : Agents,
   revoked_key_controller : Agents,
   compromised_since : Nat]

Accepting == {"not-revoked", "pre-compromise"}
Classes == Accepting \cup {"unplaceable", "revoked", "unknown"}

NoBoundary == 0     \* None; the class tells it from an instant

\* The answer: a class, and the boundary and the revocation it rests on.
Answer ==
  [key_revocation : Classes, boundary : Nat, revocation_ctx_id : Nat]

Without(class) ==
  [key_revocation |-> class, boundary |-> NoBoundary, revocation_ctx_id |-> 0]

Vector ==
  [context : [key_fingerprint : Keys, agent_id : Agents],
   revocations : Seq(Revocation),
   receipt : [verified : BOOLEAN, current : BOOLEAN, created_at : Nat],
   unknown_lookups : BOOLEAN,
   expected : Answer]

ASSUME VectorsAssumption == \A v \in Vectors : v \in Vector

VARIABLES
  vector,           \* the argument
  pc,               \* control point
  k,                \* the revocation at hand, in either loop
  members,          \* the places of those that apply
  first,            \* the least of them so far, 0 before there is one
  got,              \* the answer
  ret               \* "none", then what the function returned

vars == <<vector, pc, k, members, first, got, ret>>

Revocations == vector.revocations
Since(j) == Revocations[j].compromised_since

\* applies(r): the right kind of event, about this key, from somebody who may
\* say so.
Applies(r) ==
  /\ r.type \in {"key-revocation", "acdp:key-revocation"}
  /\ r.revoked_key_fingerprint = vector.context.key_fingerprint
  /\ \/ /\ r.trust_class = "producer-signed"
        /\ r.agent_id = vector.context.agent_id
     \/ /\ r.trust_class = "registry-attested"
        /\ r.revoked_key_controller = vector.context.agent_id

\* The locals of a call that has not taken a step yet.
Locals ==
  /\ pc = "filter"
  /\ k = 1
  /\ members = {}
  /\ first = 0
  /\ got = Without("unknown")
  /\ ret = "none"

Init == vector \in Vectors /\ Locals

\* One revocation of the comprehension that builds members.
Keep ==
  /\ pc = "filter"
  /\ k <= Len(Revocations)
  /\ Applies(Revocations[k])
  /\ members' = members \cup {k}
  /\ k' = k + 1
  /\ UNCHANGED <<vector, pc, first, got, ret>>

Drop ==
  /\ pc = "filter"
  /\ k <= Len(Revocations)
  /\ ~Applies(Revocations[k])
  /\ k' = k + 1
  /\ UNCHANGED <<vector, pc, members, first, got, ret>>

NoMember ==
  /\ pc = "filter"
  /\ k > Len(Revocations)
  /\ members = {}
  /\ got' = Without("not-revoked")
  /\ pc' = "lookups"
  /\ UNCHANGED <<vector, k, members, first, ret>>

SomeMember ==
  /\ pc = "filter"
  /\ k > Len(Revocations)
  /\ members # {}
  /\ pc' = "min"
  /\ k' = 1
  /\ UNCHANGED <<vector, members, first, got, ret>>

\* Mutant of Earlier: the latest revocation is chosen.
Later == k \in members /\ (first = 0 \/ Since(k) > Since(first))

\* Mutant of Earlier: a tie goes to the later element.
EarlierOrEqual == k \in members /\ (first = 0 \/ Since(k) <= Since(first))

\* Mutant of Earlier: the first of the list is chosen, not the earliest.
EarlierInList == k \in members /\ first = 0

\* min keeps the earlier element of the list when two are equal.
Earlier == k \in members /\ (first = 0 \/ Since(k) < Since(first))

CompareMember ==
  /\ pc = "min"
  /\ k <= Len(Revocations)
  /\ first' = IF Earlier THEN k ELSE first
  /\ k' = k + 1
  /\ UNCHANGED <<vector, pc, members, got, ret>>

\* Mutant of Placement: the comparison of the instants is reversed.
PlacementReversed(boundary) ==
  IF ~vector.receipt.verified \/ ~vector.receipt.current THEN "unplaceable"
  ELSE IF boundary < vector.receipt.created_at THEN "pre-compromise"
  ELSE "revoked"

\* The class of a context of a revoked key: where its receipt places it.
Placement(boundary) ==
  IF ~vector.receipt.verified \/ ~vector.receipt.current THEN "unplaceable"
  ELSE IF vector.receipt.created_at < boundary THEN "pre-compromise"
  ELSE "revoked"

Place ==
  /\ pc = "min"
  /\ k > Len(Revocations)
  /\ got' = [key_revocation |-> Placement(Since(first)),
             boundary |-> Since(first), revocation_ctx_id |-> first]
  /\ pc' = "lookups"
  /\ UNCHANGED <<vector, k, members, first, ret>>

\* Mutant of OpenLookups: only "not-revoked" yields to an open lookup.
OpenLookupsUnrevoked ==
  /\ pc = "lookups"
  /\ got' = IF vector.unknown_lookups /\ got.key_revocation = "not-revoked"
              THEN Without("unknown") ELSE got
  /\ pc' = "compare"
  /\ UNCHANGED <<vector, k, members, first, ret>>

\* Mutant of OpenLookups: an open lookup overrides a refusal.
OpenLookupsAlways ==
  /\ pc = "lookups"
  /\ got' = IF vector.unknown_lookups THEN Without("unknown") ELSE got
  /\ pc' = "compare"
  /\ UNCHANGED <<vector, k, members, first, ret>>

\* An accepting class does not survive a lookup that is still open.
OpenLookups ==
  /\ pc = "lookups"
  /\ got' = IF vector.unknown_lookups /\ got.key_revocation \in Accepting
              THEN Without("unknown") ELSE got
  /\ pc' = "compare"
  /\ UNCHANGED <<vector, k, members, first, ret>>

Compare ==
  /\ pc = "compare"
  /\ ret' = IF got = vector.expected THEN "True" ELSE "False"
  /\ pc' = "returned"
  /\ UNCHANGED <<vector, k, members, first, got>>

Next ==
  \/ Keep
  \/ Drop
  \/ NoMember
  \/ SomeMember
  \/ CompareMember
  \/ Place
  \/ OpenLookups
  \/ Compare

\* A plain call on one thread.
Spec == Init /\ [][Next]_vars /\ WF_vars(Next)
----------------------------------------------------------------------------
TypeOK ==
  /\ vector \in Vector
  /\ pc \in {"filter", "min", "lookups", "compare", "returned"}
  /\ k \in 1..(Len(Revocations) + 1)
  /\ members \subseteq 1..Len(Revocations)
  /\ first \in {0} \cup members
  /\ got \in Answer
  /\ ret \in {"none", "True", "False"}

Answered == pc = "returned"

\* The revocations that concern the key of a context: the agent itself says
\* so, or a registry says so of its controller.
Concerning(context) ==
  LET said(trust, agents, controllers) ==
        [type : {"key-revocation", "acdp:key-revocation"},
         revoked_key_fingerprint : {context.key_fingerprint},
         trust_class : {trust}, agent_id : agents,
         revoked_key_controller : controllers, compromised_since : Nat]
  IN  said("producer-signed", {context.agent_id}, Agents)
      \cup said("registry-attested", Agents, {context.agent_id})

\* The answer read off the whole list at once: the earliest of all that
\* concern the key, in list order where instants are equal, against the
\* receipt; an open lookup leaves only a refusal standing.
ConcerningIn(v) ==
  {j \in DOMAIN v.revocations : v.revocations[j] \in Concerning(v.context)}

IsEarliestIn(v, j) ==
  /\ j \in ConcerningIn(v)
  /\ \A i \in ConcerningIn(v) :
       \/ v.revocations[j].compromised_since < v.revocations[i].compromised_since
       \/ /\ v.revocations[j].compromised_since = v.revocations[i].compromised_since
          /\ j <= i

EarliestIn(v) == CHOOSE j \in ConcerningIn(v) : IsEarliestIn(v, j)
BoundaryOf(v) == v.revocations[EarliestIn(v)].compromised_since

ClassOf(v) ==
  CASE ConcerningIn(v) = {} -> "not-revoked"
    [] ConcerningIn(v) # {} /\ ~(v.receipt.verified /\ v.receipt.current) ->
         "unplaceable"
    [] OTHER -> IF BoundaryOf(v) > v.receipt.created_at THEN "pre-compromise"
                ELSE "revoked"

Reference(v) ==
  IF v.unknown_lookups /\ ClassOf(v) \in Accepting THEN Without("unknown")
  ELSE IF ConcerningIn(v) = {} THEN Without(ClassOf(v))
  ELSE [key_revocation |-> ClassOf(v), boundary |-> BoundaryOf(v),
        revocation_ctx_id |-> EarliestIn(v)]

\* What the check of a vector deserves to answer.
Deserved(v) == IF v.expected = Reference(v) THEN "True" ELSE "False"

\* The boundary the answer carries is the earliest of all revocations that
\* apply, whoever made it, and the revocation it names is one that applies and
\* says so; without a boundary, none is named.  A later self-serving
\* revocation of the compromised agent can not move the boundary forward.
BoundaryIsEarliest ==
  Answered =>
    IF got.key_revocation \in {"not-revoked", "unknown"}
      THEN got = Without(got.key_revocation)
      ELSE /\ got.revocation_ctx_id \in DOMAIN Revocations
           /\ Applies(Revocations[got.revocation_ctx_id])
           /\ got.boundary = Since(got.revocation_ctx_id)
           /\ \A j \in DOMAIN Revocations :
                Applies(Revocations[j]) => got.boundary <= Since(j)

\* An accepting answer has earned it: no lookup is open, and either no
\* revocation of this key applies, or a verified receipt of a current key
\* places the context before every one of them.
AcceptanceIsEarned ==
  Answered /\ got.key_revocation \in Accepting =>
    /\ ~vector.unknown_lookups
    /\ \A j \in DOMAIN Revocations :
         Applies(Revocations[j]) =>
           /\ got.key_revocation = "pre-compromise"
           /\ vector.receipt.verified /\ vector.receipt.current
           /\ vector.receipt.created_at < Since(j)

\* A refusal rests on evidence: some revocation of this key applies that the
\* receipt can not place the context before.
RefusalIsJustified ==
  Answered /\ got.key_revocation \in {"revoked", "unplaceable"} =>
    \E j \in DOMAIN Revocations :
      /\ Applies(Revocations[j])
      /\ \/ ~vector.receipt.verified
         \/ ~vector.receipt.current
         \/ vector.receipt.created_at >= Since(j)
=============================================================================
