---------------------------- MODULE GoldenVector ----------------------------
(***************************************************************************)
(* The vectors of one fixture, checked one after another as the main loop  *)
(* of scripts/conformance-runner.py does, each by the comparisons of its   *)
(* family.                                                                 *)
(***************************************************************************)
EXTENDS ReceiptVectors, ChangeFeed

CONSTANT Fixtures     \* the sequences of vectors to be checked

\* The members of a P-256 vector that are taken apart, and the length that
\* stands for all but the two that are told from others.
Signatures == {"signature_value_base64", "der_encoded_signature_base64"}
DerLength == 70

\* What a check takes apart of its vector has the form it is taken apart in.
IsGolden(v) ==
  /\ v = [family |-> v.family, in |-> v.in, pins |-> v.pins, label |-> v.label]
  /\ v.family = "trust" => v.in.list.bound \in Seq(BOOLEAN)
  /\ v.family = "sig" /\ v.in.algorithm = "strict" =>
       v.in.points \in Seq(STRING) /\ DOMAIN v.in.found = Found
  /\ v.family = "sig" /\ v.in.algorithm = "ecdsa-p256" =>
       /\ v.in = [m \in DOMAIN v.in |-> v.in[m]]
       /\ {"key", "content", "ctx_id", "outcome"} \subseteq DOMAIN v.in
       /\ \A m \in Signatures \cap DOMAIN v.pins :
            LET blob == v.pins[m]
            IN  /\ blob = Blob(blob[1], blob[2], blob[3], blob[4])
                /\ blob[2] \in {0, 64, DerLength}
  /\ v.family \in {"rcpt", "lhr"} /\ Has(v.pins, "assembled") =>
       v.pins.assembled = <<v.pins.assembled[1], v.pins.assembled[2]>>
  /\ v.family = "rec" /\ v.in.shape = "entry" /\ v.in.whole =>
       /\ "at" \in DOMAIN v.in.entry.receipt
       /\ "at" \notin DOMAIN v.in.entry.event

ASSUME FixturesAssumption ==
  \A f \in Fixtures :
    /\ f \in Seq({f[i] : i \in DOMAIN f})
    /\ \A i \in DOMAIN f : IsGolden(f[i])

VARIABLES
  fixture,            \* the vectors of the fixture
  tests,              \* what the comparisons still to be made will answer
  sound,              \* the flag of the checks that go on after a deviation
  reported,           \* calls of fail()
  answers             \* "True", "False", "None" or "raised", per vector

goldenVars == <<fixture, tests, sound, reported, answers>>

\* check_signature_vector, and before it the test for a negative vector.
SigTests(v) ==
  CASE v.in.algorithm = "strict" -> StrictTests(v)
    [] v.in.algorithm = "ecdsa-p256" -> P256Tests(v)
    [] OTHER -> Ed25519Tests(v)

\* The dispatch of rec- vectors on their shape.
ChangeTests(v) ==
  CASE v.in.shape = "entry" -> EnvelopeTests(v)
    [] v.in.shape = "secret" -> HintTests(v)
    [] v.in.shape = "bucket_of" -> BucketTests(v)
    [] OTHER -> <<"fail">>

Tests(v) ==
  CASE v.family \in {"can", "lin", "anc"} -> CanonicalTests(v)
    [] v.family = "sig" -> SigTests(v)
    [] v.family = "rev" -> RevocationTests(v)
    [] v.family = "fp" -> FingerprintTests(v)
    [] v.family = "rcpt" -> ReceiptTests(v)
    [] v.family = "lhr" -> HeadReceiptTests(v)
    [] v.family = "rec" -> ChangeTests(v)
    [] v.family = "mcp" -> ToolResultTests(v)
    [] v.family = "trust" -> TrustBodyTests(v)
    [] v.family = "chain" -> ChainTests(v)
    [] v.family = "retrieval" -> RetrievalTests(v)
    [] OTHER -> ReceiptExampleTests(v)

TestsOf(k) == IF k \in DOMAIN fixture THEN Tests(fixture[k]) ELSE << >>

GoldenLocals ==
  /\ tests = TestsOf(1)
  /\ sound = TRUE
  /\ reported = 0
  /\ answers = << >>

GoldenInit == fixture \in Fixtures /\ GoldenLocals

Raised == answers # << >> /\ answers[Len(answers)] = "raised"
AtVector == Len(answers) < Len(fixture) /\ ~Raised
AtTest(outcome) == AtVector /\ tests # << >> /\ Head(tests) = outcome

\* The check returns and the loop goes on to the next vector.
Answer(value) ==
  /\ answers' = Append(answers, value)
  /\ tests' = TestsOf(Len(answers) + 2)
  /\ sound' = TRUE
  /\ UNCHANGED fixture

Hold ==
  /\ AtTest("ok")
  /\ tests' = Tail(tests)
  /\ UNCHANGED <<fixture, sound, reported, answers>>

Refuse ==
  /\ AtTest("fail")
  /\ Answer("False")
  /\ reported' = reported + 1

Note ==
  /\ AtTest("note")
  /\ tests' = Tail(tests)
  /\ sound' = FALSE
  /\ reported' = reported + 1
  /\ UNCHANGED <<fixture, answers>>

Raise ==
  /\ AtTest("raise")
  /\ answers' = Append(answers, "raised")
  /\ UNCHANGED <<fixture, tests, sound, reported>>

Skip ==
  /\ AtTest("none")
  /\ Answer("None")
  /\ UNCHANGED reported

Finish ==
  /\ AtVector
  /\ tests = << >>
  /\ Answer(IF sound THEN "True" ELSE "False")
  /\ UNCHANGED reported

GoldenNext ==
  \/ Hold
  \/ Refuse
  \/ Note
  \/ Raise
  \/ Skip
  \/ Finish

GoldenSpec == GoldenInit /\ [][GoldenNext]_goldenVars /\ WF_goldenVars(GoldenNext)
----------------------------------------------------------------------------
Judged(answer) == {i \in DOMAIN answers : answers[i] = answer}

\* A vector that must be refused for its form alone would pass, as a success
\* vector, in the right form: nothing else is wrong with it.
InRightForm(v) ==
  LET blob == v.pins.der_encoded_signature_base64
      raw == [blob EXCEPT ![1] = "r||s", ![2] = 64]
  IN  [v EXCEPT !.in.outcome = "success",
                !.pins = [signature_value_base64 |-> raw]]

NegativeIsolatesForm ==
  \A i \in Judged("True") :
    LET v == fixture[i]
    IN  v.family = "sig" /\ v.in.algorithm = "ecdsa-p256" /\ v.in.outcome = "failure"
          => \A t \in DOMAIN P256Tests(InRightForm(v)) :
               P256Tests(InRightForm(v))[t] = "ok"

\* What the evidence behind an accepted entry says of the context recorded.
Recorded(entry) ==
  IF entry.kind = "superseded" THEN entry.superseded_by ELSE entry.ctx_id

\* Two accepted entries for which the registry serves the same evidence are
\* of the same context, and two receipts of one instant and, between
\* superseded entries, of one lineage: an entry cannot be moved to another
\* context, time or lineage.  The context a superseded entry replaces and the
\* instant of a lifecycle entry are not in the evidence.
EvidenceBindsEntry ==
  \A i, j \in Judged("True") :
    LET v == fixture[i]
        w == fixture[j]
        a == v.in.entry
        b == w.in.entry
    IN  /\ v.family = "rec" /\ v.in.shape = "entry"
        /\ w.family = "rec" /\ w.in.shape = "entry"
        /\ v.pins.verdict = <<Accept>> /\ w.pins.verdict = <<Accept>>
        /\ v.in.served = w.in.served
        => /\ Recorded(a) = Recorded(b)
           /\ a.kind # "lifecycle" => a.recorded_at = b.recorded_at
           /\ a.kind = "superseded" /\ b.kind = "superseded" =>
                a.lineage_id = b.lineage_id
=============================================================================
