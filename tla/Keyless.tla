------------------------------ MODULE Keyless ------------------------------
(***************************************************************************)
(* One call of check_keyless_vector (scripts/conformance-runner.py): the   *)
(* golden attestation, body and proofs of possession, and the tables that  *)
(* replay keyless_classify (what a signature of a keyless key is worth)    *)
(* and keyless_supersede (who may replace a body).                         *)
(*                                                                         *)
(* Instants are natural numbers.  A case of the classification table is    *)
(*   [valid, registry_accepted, bindings_ok, retracted,                    *)
(*    receipt, created_at, signature_valid, revocations, listed, expected] *)
(* with receipt saying that there is one and that its three tests pass,    *)
(* revocations the instants since which the key is compromised, and listed *)
(* the answer of the controller: "yes", "no" or "unreachable".  A case of  *)
(* the supersession table is [predecessor, successor, expected], a body    *)
(* [kind, identity, org_wide].                                             *)
(***************************************************************************)
EXTENDS Naturals, Sequences

CONSTANTS
  MaxSpan,          \* the longest attestation window: 3600 s in the code
  Vectors

GoldenKinds == {"attestation", "keyless_body", "pop", "pop_p256"}

TableAnswer == [status : STRING, reason : STRING]
ClassificationCase ==
  [valid : BOOLEAN, registry_accepted : BOOLEAN, bindings_ok : BOOLEAN,
   retracted : BOOLEAN, receipt : BOOLEAN, created_at : Nat,
   signature_valid : BOOLEAN, revocations : SUBSET Nat,
   listed : {"yes", "no", "unreachable"}, expected : TableAnswer]
SignedBody == [kind : {"controller", "keyless"}, identity : STRING, org_wide : BOOLEAN]
SupersessionCase ==
  [predecessor : SignedBody, successor : SignedBody, expected : TableAnswer]

\* A table of another kind has cases of any shape.
ASSUME KeylessAssumption ==
  \A v \in Vectors :
    /\ v.window.not_before \in Nat /\ v.window.not_after \in Nat
    /\ v.cases \in Seq({v.cases[j] : j \in DOMAIN v.cases})
    /\ v.kind = "classification" => v.cases \in Seq(ClassificationCase)
    /\ v.kind = "supersession" => v.cases \in Seq(SupersessionCase)

VARIABLES
  vector,           \* the argument
  pc,               \* control point
  k,                \* cases judged so far
  got,              \* the answers of the table functions
  ok,               \* no deviation so far
  ret               \* "none", then "True", "False" or "raised"

vars == <<vector, pc, k, got, ok, ret>>

Refused(reason) == [status |-> "refused", reason |-> reason]
Status(status) == [status |-> status, reason |-> ""]
Allowed == [status |-> "allowed", reason |-> ""]

\* Mutant of InWindow: the end of the window still belongs to it.
InWindowClosed(t) == vector.window.not_before <= t /\ t <= vector.window.not_after

InWindow(t) == vector.window.not_before <= t /\ t < vector.window.not_after
\* Mutant of Compromised: the boundary is the latest instant.
CompromisedByAll(c) == \A since \in c.revocations : c.created_at >= since

Compromised(c) == \E since \in c.revocations : c.created_at >= since

\* keyless_classify, with its order of checks.  A boundary is the least of
\* the instants, so the body lies at or after it exactly when it is
\* Compromised.
Classify(c) ==
  CASE ~c.valid -> Refused("attestation_invalid")
    [] c.valid /\ ~c.registry_accepted -> Refused("untrusted_attester")
    [] c.valid /\ c.registry_accepted /\ ~c.bindings_ok ->
         Refused("attestation_mismatch")
    [] OTHER ->
         IF ~c.receipt THEN Refused("unplaceable")
         ELSE IF ~InWindow(c.created_at) THEN Refused("outside_attestation_window")
         ELSE IF ~c.signature_valid THEN Refused("invalid_signature")
         ELSE IF c.retracted THEN Refused("attestation_withdrawn")
         ELSE IF c.revocations # {}
           THEN IF Compromised(c) THEN Refused("revoked")
                ELSE Status("historically_authorized_pre_compromise")
         ELSE IF c.listed = "unreachable" THEN Refused("controller_unreachable")
         ELSE IF c.listed = "yes" THEN Status("currently_authorized")
         ELSE Status("historically_authorized")

FreeHand(body) == body.kind = "controller" \/ body.org_wide

\* Mutant of Supersede: any keyless body may replace a keyless one.
SupersedeKeyless(pred, succ) ==
  IF FreeHand(succ) \/ pred.kind = "keyless" THEN Allowed
  ELSE Refused("keyless_identity_mismatch")

\* keyless_supersede
Supersede(pred, succ) ==
  IF \/ FreeHand(succ)
     \/ pred.kind = "keyless" /\ pred.identity = succ.identity
    THEN Allowed
    ELSE Refused("keyless_identity_mismatch")

Init ==
  /\ vector \in Vectors
  /\ pc = "key pair"
  /\ k = 0
  /\ got = << >>
  /\ ok = TRUE
  /\ ret = "none"

Return(value) ==
  /\ pc' = "returned"
  /\ ret' = value
  /\ UNCHANGED <<vector, k, got, ok>>

Goto(next) ==
  /\ pc' = next
  /\ UNCHANGED <<vector, k, got, ok, ret>>

CheckKeyPair ==
  /\ pc = "key pair"
  /\ CASE ~vector.key_pair -> Return("False")
       [] vector.key_pair /\ vector.kind \in GoldenKinds -> Goto("golden")
       [] OTHER -> Goto("cases")

\* The window of an attestation is not empty and not too long.
Span(window) == window.not_after - window.not_before
SpanAllowed ==
  vector.window.not_before < vector.window.not_after /\ Span(vector.window) <= MaxSpan

\* The comparisons of the four golden kinds: with the vector's own content
\* first, then with the attestation of the fixture, which a body and a proof
\* of possession take for granted.
CheckGolden ==
  /\ pc = "golden"
  /\ IF vector.wrong = "content" /\ vector.kind # "pop" THEN Return("False")
     ELSE IF vector.kind \in {"keyless_body", "pop"} /\ ~vector.attested
       THEN Return("raised")
     ELSE Return(IF vector.wrong # "none"
                    \/ (vector.kind = "attestation" /\ ~SpanAllowed)
                   THEN "False" ELSE "True")

JudgeCase ==
  /\ pc = "cases"
  /\ k < Len(vector.cases)
  /\ vector.kind \in {"classification", "supersession"}
  /\ LET case == vector.cases[k + 1]
         answer == IF vector.kind = "classification" THEN Classify(case)
                   ELSE Supersede(case.predecessor, case.successor)
     IN  /\ got' = Append(got, answer)
         /\ ok' = (ok /\ answer = case.expected)
  /\ k' = k + 1
  /\ UNCHANGED <<vector, pc, ret>>

UnknownKind ==
  /\ pc = "cases"
  /\ k < Len(vector.cases)
  /\ vector.kind \notin {"classification", "supersession"}
  /\ Return("False")

EndCases ==
  /\ pc = "cases"
  /\ k = Len(vector.cases)
  /\ Return(IF ok /\ vector.cases # << >> THEN "True" ELSE "False")

Next ==
  \/ CheckKeyPair
  \/ CheckGolden
  \/ JudgeCase
  \/ UnknownKind
  \/ EndCases

\* A plain call on one thread.
Spec == Init /\ [][Next]_vars /\ WF_vars(Next)
----------------------------------------------------------------------------
TypeOK ==
  /\ pc \in {"key pair", "golden", "cases", "returned"}
  /\ k \in 0..Len(vector.cases)
  /\ Len(got) = k
  /\ ok \in BOOLEAN
  /\ ret \in {"none", "True", "False", "raised"}

Refuses(answer) == answer.status = "refused"

Classified == IF vector.kind = "classification" THEN 1..k ELSE {}
Superseded == IF vector.kind = "supersession" THEN 1..k ELSE {}

\* Everything a keyless signature must have going for it, without an order:
\* no test hides another, and no revocation or absent controller is passed
\* over.
Earned(c) ==
  /\ c.valid /\ c.registry_accepted /\ c.bindings_ok /\ ~c.retracted
  /\ c.receipt /\ c.signature_valid
  /\ vector.window.not_before <= c.created_at
  /\ c.created_at < vector.window.not_after
  /\ \A since \in c.revocations : c.created_at < since
  /\ c.revocations # {} \/ c.listed \in {"yes", "no"}

AuthorizedIffEarned ==
  /\ TypeOK
  /\ \A j \in Classified : ~Refuses(got[j]) <=> Earned(vector.cases[j])

\* Knows(j, m): case m is case j with more revocations known.
Knows(j, m) ==
  LET c == vector.cases[j]
      d == vector.cases[m]
  IN  /\ c.revocations \subseteq d.revocations
      /\ d = [c EXCEPT !.revocations = d.revocations]

\* To learn of more revocations never turns a refusal into an authorization,
\* with one exception the code makes: an unreachable controller is asked no
\* more once a revocation places the body before the compromise.  Nor does it
\* make anybody currently authorized who was not.
MoreRevocationsOnlyRefuse ==
  \A j, m \in Classified :
    Knows(j, m) =>
      /\ Refuses(got[j]) /\ ~Refuses(got[m]) =>
           /\ got[j].reason = "controller_unreachable"
           /\ got[m].status = "historically_authorized_pre_compromise"
      /\ got[m].status = "currently_authorized" =>
           got[j].status = "currently_authorized"

\* No keyless identity takes over the bodies of another in two steps: between
\* two identities stands a body of the controller or an org-wide one.
NoTakeover ==
  \A j, m \in Superseded :
    LET first == vector.cases[j]
        second == vector.cases[m]
    IN  /\ first.successor = second.predecessor
        /\ ~Refuses(got[j]) /\ ~Refuses(got[m])
        /\ ~FreeHand(second.successor)
        /\ first.predecessor.identity # second.successor.identity
        => FreeHand(first.successor) /\ first.successor.kind = "keyless"
=============================================================================
