---------------------------- MODULE VectorProofs ----------------------------
(***************************************************************************)
(* What it means that a golden vector or a table of a kl- fixture passes,  *)
(* for every fixture and every table.  Fixtures first: the comparisons of  *)
(* each family are a sequence of outcomes; the loop answers "True" exactly *)
(* if they all hold; and what all of them holding says of one vector, or   *)
(* of two, is then a fact about the terms compared.                        *)
(***************************************************************************)
EXTENDS GoldenPrintout, Keyless, SequenceTheorems, TLAPS

Outcome == {"ok", "fail", "note", "raise", "none"}
AllOk(s) == \A t \in DOMAIN s : s[t] = "ok"

\* A comparison has an outcome.
LEMMA Outcomes ==
  /\ \A b : Test(b) \in Outcome /\ Soft(b) \in Outcome /\ RaiseUnless(b) \in Outcome
  /\ \A pins, member, term : Pinned(pins, member, term) \in Outcome
  /\ \A unsigned, others : SameAuthority(unsigned, others) \in Outcome
  /\ \A unsigned : FirstVersion(unsigned) \in Outcome
  /\ \A object, member, term : Read(object, member, term) \in Outcome
  /\ \A v, part : CallTest(v, part) \in Outcome
  /\ \A v : FlagsTest(v) \in Outcome /\ DerivedTest(v) \in Outcome
                                    /\ ReturnedTest(v) \in Outcome
BY DEF Outcome, Test, Soft, RaiseUnless, Pinned, SameAuthority, FirstVersion, Read,
       CallTest, FlagsTest, DerivedTest, ReturnedTest

\* One sequence of comparisons after another.
LEMMA Joined ==
  ASSUME NEW s \in Seq(Outcome), NEW t \in Seq(Outcome)
  PROVE  /\ s \o t \in Seq(Outcome)
         /\ AllOk(s \o t) <=> AllOk(s) /\ AllOk(t)
<1>1. /\ s \o t \in Seq(Outcome) /\ Len(s \o t) = Len(s) + Len(t)
      /\ \A i \in 1..Len(s) : (s \o t)[i] = s[i]
      /\ \A i \in 1..Len(t) : (s \o t)[Len(s) + i] = t[i]
  BY ConcatProperties
<1>2. /\ Len(s) \in Nat /\ DOMAIN s = 1..Len(s)
      /\ Len(t) \in Nat /\ DOMAIN t = 1..Len(t)
      /\ DOMAIN (s \o t) = 1..(Len(s) + Len(t))
  BY <1>1, LenProperties
<1>3. ASSUME AllOk(s), AllOk(t), NEW i \in 1..(Len(s) + Len(t))
      PROVE  (s \o t)[i] = "ok"
  <2>1. CASE i \in 1..Len(s)  BY <1>1, <1>2, <1>3, <2>1 DEF AllOk
  <2>2. CASE i \notin 1..Len(s)
    <3>1. i - Len(s) \in 1..Len(t) /\ Len(s) + (i - Len(s)) = i
      BY <1>2, <2>2
    <3> QED  BY <1>1, <1>2, <1>3, <3>1 DEF AllOk
  <2> QED  BY <2>1, <2>2
<1>4. ASSUME AllOk(s \o t)  PROVE AllOk(s) /\ AllOk(t)
  <2>1. ASSUME NEW i \in 1..Len(s)  PROVE s[i] = "ok"
    <3>1. i \in 1..(Len(s) + Len(t))  BY <1>2
    <3> QED  BY <1>1, <1>2, <1>4, <3>1 DEF AllOk
  <2>2. ASSUME NEW i \in 1..Len(t)  PROVE t[i] = "ok"
    <3>1. Len(s) + i \in 1..(Len(s) + Len(t))  BY <1>2
    <3> QED  BY <1>1, <1>2, <1>4, <3>1 DEF AllOk
  <2> QED  BY <1>2, <2>1, <2>2 DEF AllOk
<1> QED  BY <1>1, <1>2, <1>3, <1>4 DEF AllOk

\* The checks are sequences of comparisons.
LEMMA Ed25519Outcomes == ASSUME NEW v PROVE Ed25519Tests(v) \in Seq(Outcome)
<1>1. KeyTests(v) \in Seq(Outcome)  BY Outcomes DEF KeyTests
<1>2. <<Pinned(v.pins, "did_key", DidKey(v.in.key)), KeyIdTest(v)>> \in Seq(Outcome)
  BY Outcomes DEF KeyIdTest
<1>3. ContentTests(v) \in Seq(Outcome)  BY Outcomes DEF ContentTests
<1>4. SignatureTests(v.pins, Sign(v.in.key, Hash(v.in.content))) \in Seq(Outcome)
  BY Outcomes DEF SignatureTests
<1>5. <<LineageTest(v)>> \in Seq(Outcome)  BY Outcomes DEF LineageTest
<1> QED  BY <1>1, <1>2, <1>3, <1>4, <1>5, Joined DEF Ed25519Tests

LEMMA ContentOutcomes == ASSUME NEW v PROVE ContentTests(v) \in Seq(Outcome)
BY Outcomes DEF ContentTests

LEMMA Single == \A o \in Outcome : <<o>> \in Seq(Outcome)
OBVIOUS

LEMMA BlobOutcomes ==
  ASSUME NEW v
  PROVE  NegativeTests(v) \in Seq(Outcome) /\ PositiveTests(v) \in Seq(Outcome)
<1>1. <<"fail">> \in Seq(Outcome)  BY Single DEF Outcome
<1>2. ASSUME NEW blob
      PROVE  /\ <<Test(blob[2] > 0), Test(blob[1] = "DER"), Test(blob[2] # 64),
                  Test(VerifiesAs("DER", blob, v))>> \in Seq(Outcome)
             /\ <<Test(blob[2] > 0), Test(blob[2] = 64),
                  Pinned(v.pins, "signature_value_hex", blob),
                  Test(VerifiesAs("r||s", blob, v))>> \in Seq(Outcome)
  BY Outcomes
<1> QED  BY <1>1, <1>2 DEF NegativeTests, PositiveTests

LEMMA P256Outcomes == ASSUME NEW v PROVE P256Tests(v) \in Seq(Outcome)
<1>1. <<Test(v.in.key # "missing"), Test(v.in.key # "malformed")>> \in Seq(Outcome)
  BY Outcomes
<1>2. ContentTests(v) \in Seq(Outcome)  BY ContentOutcomes
<1>3. NegativeTests(v) \in Seq(Outcome) /\ PositiveTests(v) \in Seq(Outcome)
  BY BlobOutcomes
<1>4. <<LineageTest(v)>> \in Seq(Outcome)  BY Outcomes DEF LineageTest
<1> QED  BY <1>1, <1>2, <1>3, <1>4, Joined DEF P256Tests

LEMMA StrictOutcomes ==
  ASSUME NEW v, v.in.points \in Seq(STRING) PROVE StrictTests(v) \in Seq(Outcome)
<1> DEFINE judge(point) == CASE point = "small" -> "ok"
                             [] point = "large" -> "fail"
                             [] OTHER -> "raise"
           points == [i \in DOMAIN v.in.points |-> judge(v.in.points[i])]
           found == Test(Found \subseteq DOMAIN v.pins
                           /\ \A f \in Found : v.pins[f] = v.in.found[f])
           first == <<Test(v.in.pins_rejection), RaiseUnless(v.in.decodes),
                      Test(v.in.s_reduced)>>
<1>1. \A point : judge(point) \in Outcome  BY DEF Outcome
<1> HIDE DEF judge
<1>2. DOMAIN v.in.points = 1..Len(v.in.points) /\ Len(v.in.points) \in Nat
  OBVIOUS
<1>3. points \in Seq(Outcome)  BY <1>1, <1>2
<1>4. first \in Seq(Outcome)  BY Outcomes
<1>5. <<found>> \in Seq(Outcome)
  <2>1. found \in Outcome  BY Outcomes
  <2> HIDE DEF found
  <2> QED  BY <2>1, Single
<1>6. StrictTests(v) = first \o <<found>> \o points  BY DEF StrictTests, judge
<1> HIDE DEF first, found, points
<1> QED  BY <1>3, <1>4, <1>5, <1>6, Joined

LEMMA RevocationOutcomes == ASSUME NEW v PROVE RevocationTests(v) \in Seq(Outcome)
<1>1. <<Test(v.in.type = "key-revocation"), Test(v.in.visibility = "public"),
        Test(RevokedFingerprint(v)[1] = "sha256:"), Test(v.in.since = "canonical"),
        NotSelfSigned(v), RevokedKeyTest(v)>> \in Seq(Outcome)
  BY Outcomes DEF NotSelfSigned, RevokedKeyTest
<1> QED  BY <1>1, Ed25519Outcomes, Joined DEF RevocationTests

LEMMA TrustBodyOutcomes ==
  ASSUME NEW v, v.in.list.bound \in Seq(BOOLEAN)
  PROVE  TrustBodyTests(v) \in Seq(Outcome)
<1> DEFINE bound == [i \in DOMAIN v.in.list.bound |-> Test(v.in.list.bound[i])]
<1>1. DOMAIN v.in.list.bound = 1..Len(v.in.list.bound) /\ Len(v.in.list.bound) \in Nat
  OBVIOUS
<1>2. bound \in Seq(Outcome)  BY <1>1, Outcomes
<1>3. <<Test(v.in.list.type = "acdp:trust-list"),
        Test(Get(v.pins, "did_key") = v.in.list.issuer),
        Test(v.in.list.valid_from < v.in.list.valid_until)>> \in Seq(Outcome)
  BY Outcomes
<1> HIDE DEF bound
<1> QED  BY <1>2, <1>3, Ed25519Outcomes, Joined DEF TrustBodyTests, bound

LEMMA CanonicalOutcomes == ASSUME NEW v PROVE CanonicalTests(v) \in Seq(Outcome)
<1>1. <<"none">> \in Seq(Outcome)  BY Single DEF Outcome
<1>2. <<Test(v.in.content # Unencodable),
        Pinned(v.pins, "canonical_form", Jcs(v.in.content)),
        Pinned(v.pins, "sha256_hex", Hex(Jcs(v.in.content))),
        Test({"sha256_hex", "content_hash_field_value"} \subseteq DOMAIN v.pins =>
               v.pins.content_hash_field_value = Prefixed(v.pins.sha256_hex)),
        Pinned(v.pins, "lineage_id", Lineage(v.in.ctx_id))>> \in Seq(Outcome)
  BY Outcomes
<1> QED  BY <1>1, <1>2 DEF CanonicalTests

LEMMA FingerprintOutcomes == ASSUME NEW v PROVE FingerprintTests(v) \in Seq(Outcome)
<1> DEFINE bytes == <<v.in.form, v.in.key>>
           signed == v.in.algorithm = "ed25519" => v.in.form = "public key"
           point == v.in.algorithm = "ecdsa-p256" =>
                      /\ v.in.form \in CompressedForms
                      /\ v.in.point # Null => bytes = v.in.point
           a == Test(v.in.key # "missing" /\ Has(v.pins, "key_fingerprint"))
           b == Test(v.in.form # "not hex")
           c == Test(signed)
           d == Test(point)
           e == Test(Get(v.pins, "key_fingerprint") = Fingerprint(bytes))
<1>1. FingerprintTests(v) = <<a, b, c, d, e>>  BY DEF FingerprintTests
<1>2. a \in Outcome /\ b \in Outcome /\ c \in Outcome /\ d \in Outcome /\ e \in Outcome
  <2> HIDE DEF point
  <2> QED  BY Outcomes
<1> HIDE DEF a, b, c, d, e
<1> QED  BY <1>1, <1>2

LEMMA SignedOutcomes == ASSUME NEW v PROVE SignedTests(v) \in Seq(Outcome)
<1>1. KeyTests(v) \in Seq(Outcome)  BY Outcomes DEF KeyTests
<1>2. <<Pinned(v.pins, "canonical_form", Jcs(v.in.unsigned)),
        Pinned(v.pins, "receipt_hash", Hash(v.in.unsigned))>> \in Seq(Outcome)
  BY Outcomes
<1>3. SignatureTests(v.pins, Sign(v.in.key, Hash(v.in.unsigned))) \in Seq(Outcome)
  BY Outcomes DEF SignatureTests
<1> QED  BY <1>1, <1>2, <1>3, Joined DEF SignedTests

LEMMA ReceiptOutcomes ==
  ASSUME NEW v
  PROVE  ReceiptTests(v) \in Seq(Outcome) /\ HeadReceiptTests(v) \in Seq(Outcome)
<1>1. SignedTests(v) \in Seq(Outcome)  BY SignedOutcomes
<1>2. AssembledTests(v, Sign(v.in.key, Hash(v.in.unsigned))) \in Seq(Outcome)
  BY Outcomes DEF AssembledTests
<1>3. <<Test(v.in.producer # "missing" =>
               v.in.unsigned.key_fingerprint = Fingerprint(Public(v.in.producer)))>>
        \in Seq(Outcome)
  BY Outcomes, Single
<1>4. <<SameAuthority(v.in.unsigned, {v.in.unsigned.origin, v.in.unsigned.ctx_registry})>>
        \in Seq(Outcome)
  BY Outcomes, Single
<1>5. <<Test(v.in.unsigned.receipt_version = "acdp-lhr/1"),
        SameAuthority(v.in.unsigned, {v.in.unsigned.ctx_registry}),
        Test(v.in.unsigned.head_status \notin {"superseded", "malformed"}),
        Test(v.in.unsigned.as_of = "canonical"),
        Test(v.in.unsigned.head_version >= 1),
        FirstVersion(v.in.unsigned)>> \in Seq(Outcome)
  BY Outcomes
<1>6. ReceiptTests(v) \in Seq(Outcome)
  BY <1>1, <1>2, <1>3, <1>4, Joined DEF ReceiptTests
<1>7. HeadReceiptTests(v) \in Seq(Outcome)
  BY <1>1, <1>2, <1>5, Joined DEF HeadReceiptTests
<1> QED  BY <1>6, <1>7

LEMMA ChainOutcomes == ASSUME NEW v PROVE ChainTests(v) \in Seq(Outcome)
<1>1. <<"fail">> \in Seq(Outcome)  BY Single DEF Outcome
<1>2. CASE ~v.in.loads  BY <1>1, <1>2 DEF ChainTests
<1>3. CASE v.in.loads  BY <1>3, Outcomes DEF ChainTests
<1> QED  BY <1>2, <1>3

LEMMA ExampleOutcomes ==
  ASSUME NEW v
  PROVE  RetrievalTests(v) \in Seq(Outcome) /\ ReceiptExampleTests(v) \in Seq(Outcome)
<1>1. RetrievalTests(v) \in Seq(Outcome)  BY Outcomes DEF RetrievalTests
<1>2. ReceiptExampleTests(v) \in Seq(Outcome)
  <2> DEFINE unsigned == v.in.unsigned
             a == Test(v.in.exists)
             b == Test(Get(v.pins, "signature_value_base64")
                         = Sign(v.in.key, Hash(unsigned)))
             c == Read(unsigned, "content_hash", Hash(v.in.content))
             d == IF Has(v.in, "body") THEN Read(unsigned, "copied", v.in.body)
                                       ELSE "raise"
             e == Read(unsigned, "key_fingerprint", Fingerprint(Public(v.in.producer)))
             f == IF Has(unsigned, "registry")
                    THEN SameAuthority(unsigned, {unsigned.origin}) ELSE "raise"
  <2>1. ReceiptExampleTests(v) = <<a, b, c, d, e, f>>  BY DEF ReceiptExampleTests
  <2>2. a \in Outcome /\ b \in Outcome /\ c \in Outcome /\ e \in Outcome
    BY Outcomes
  <2>3. d \in Outcome
    <3>1. "raise" \in Outcome  BY DEF Outcome
    <3> QED  BY <3>1, Outcomes
  <2>4. f \in Outcome
    <3>1. "raise" \in Outcome  BY DEF Outcome
    <3> QED  BY <3>1, Outcomes
  <2> HIDE DEF a, b, c, d, e, f
  <2> QED  BY <2>1, <2>2, <2>3, <2>4
<1> QED  BY <1>1, <1>2

LEMMA ChangeOutcomes == ASSUME NEW v PROVE ChangeTests(v) \in Seq(Outcome)
<1>1. <<"fail">> \in Seq(Outcome) /\ <<"raise">> \in Seq(Outcome)
  BY Single DEF Outcome
<1>2. EnvelopeTests(v) \in Seq(Outcome)  BY <1>1, Outcomes, Single DEF EnvelopeTests
<1>3. HintTests(v) \in Seq(Outcome)
  <2> DEFINE under(reading) ==
               Header(v.in.t, Mac(reading, v.in.secret, v.in.t, v.in.body))
             a == RaiseUnless(v.in.secret # "not base64")
             b == Soft(Get(v.pins, "expected_header") = under("utf-8"))
             c == Soft(Get(v.pins, "not_header") = under("base64"))
  <2>1. HintTests(v) = <<a, b, c>>  BY DEF HintTests
  <2>2. a \in Outcome /\ b \in Outcome /\ c \in Outcome
    <3> HIDE DEF under
    <3> QED  BY Outcomes
  <2> HIDE DEF a, b, c
  <2> QED  BY <2>1, <2>2
<1>4. BucketTests(v) \in Seq(Outcome)  BY Outcomes DEF BucketTests
<1> QED  BY <1>1, <1>2, <1>3, <1>4 DEF ChangeTests

LEMMA ToolResultOutcomes == ASSUME NEW v PROVE ToolResultTests(v) \in Seq(Outcome)
<1> DEFINE a == Test(v.in.salt # "not base64url")
           b == Test(v.in.salt # "not 32 bytes")
           c == RaiseUnless(Has(v.pins, "salt_hex"))
           d == Test(Get(v.pins, "salt_hex") = <<v.in.salt>>)
           e == RaiseUnless(Expected \subseteq DOMAIN v.pins)
           f == Soft(Get(v.pins, "hashed_result") = <<v.in.call.result>>)
           g == FlagsTest(v)
           h == DerivedTest(v)
           i == Soft(Get(v.pins, "idempotency_key")
                       = <<"acdp-mcp-", Get(v.pins, "content_hash")>>)
           j == ReturnedTest(v)
           l == Soft(Get(v.pins, "provenance") = Provenance(v))
           head == <<a, b, c, d, e, f>>
           call == <<CallTest(v, "endpoint"), CallTest(v, "arguments"),
                     CallTest(v, "result"), CallTest(v, "request_id")>>
           last == <<g, h, i, j, l>>
           rest == <<a, b, c, d, e, f, CallTest(v, "endpoint"),
                     CallTest(v, "arguments"), CallTest(v, "result"),
                     CallTest(v, "request_id"), g, h, i, j, l>>
<1>1. ToolResultTests(v) = Ed25519Tests(v) \o rest  BY DEF ToolResultTests
<1>2. /\ a \in Outcome /\ b \in Outcome /\ c \in Outcome /\ d \in Outcome
      /\ e \in Outcome /\ f \in Outcome /\ g \in Outcome /\ h \in Outcome
      /\ i \in Outcome /\ j \in Outcome /\ l \in Outcome
  BY Outcomes
<1> HIDE DEF a, b, c, d, e, f, g, h, i, j, l
<1>3. head \in Seq(Outcome)  BY <1>2
<1>4. call \in Seq(Outcome)  BY Outcomes
<1>5. last \in Seq(Outcome)  BY <1>2
<1>6. rest = head \o call \o last  OBVIOUS
<1> HIDE DEF head, call, last, rest
<1> QED  BY <1>1, <1>3, <1>4, <1>5, <1>6, Ed25519Outcomes, Joined

LEMMA TestsOutcomes == ASSUME NEW v, IsGolden(v) PROVE Tests(v) \in Seq(Outcome)
<1>1. v.family = "sig" => SigTests(v) \in Seq(Outcome)
  BY StrictOutcomes, P256Outcomes, Ed25519Outcomes DEF SigTests, IsGolden
<1>2. v.family = "trust" => TrustBodyTests(v) \in Seq(Outcome)
  BY TrustBodyOutcomes DEF IsGolden
<1>3. /\ CanonicalTests(v) \in Seq(Outcome) /\ RevocationTests(v) \in Seq(Outcome)
      /\ FingerprintTests(v) \in Seq(Outcome) /\ ChangeTests(v) \in Seq(Outcome)
      /\ ToolResultTests(v) \in Seq(Outcome) /\ ChainTests(v) \in Seq(Outcome)
  BY CanonicalOutcomes, RevocationOutcomes, FingerprintOutcomes, ChangeOutcomes,
     ToolResultOutcomes, ChainOutcomes
<1> QED
  BY <1>1, <1>2, <1>3, ReceiptOutcomes, ExampleOutcomes DEF Tests
----------------------------------------------------------------------------
(* The loop over the vectors of a fixture.                                 *)

\* What is still to be compared is the end of the check's comparisons, and
\* the flag says whether all those before it held.
Place ==
  LET all == TestsOf(Len(answers) + 1)
  IN  \E done \in Nat :
        /\ done + Len(tests) = Len(all)
        /\ \A i \in 1..Len(tests) : tests[i] = all[done + i]
        /\ sound <=> \A i \in 1..done : all[i] = "ok"

\* "True" is the answer to the vectors of which every comparison holds.
TrueIffAllOk ==
  \A i \in DOMAIN answers : answers[i] = "True" <=> AllOk(Tests(fixture[i]))

GoldenTypeOK ==
  /\ fixture \in Fixtures
  /\ answers \in Seq({"True", "False", "None", "raised"})
  /\ Len(answers) <= Len(fixture)
  /\ tests \in Seq(Outcome)
  /\ sound \in BOOLEAN

GoldenIInv == GoldenTypeOK /\ (AtVector => Place) /\ TrueIffAllOk

LEMMA FixtureShape ==
  ASSUME fixture \in Fixtures
  PROVE  /\ Len(fixture) \in Nat /\ DOMAIN fixture = 1..Len(fixture)
         /\ \A i \in 1..Len(fixture) :
              TestsOf(i) = Tests(fixture[i]) /\ TestsOf(i) \in Seq(Outcome)
         /\ \A i : TestsOf(i) \in Seq(Outcome)
<1>1. Len(fixture) \in Nat /\ DOMAIN fixture = 1..Len(fixture)
  BY FixturesAssumption
<1>2. \A i \in DOMAIN fixture : Tests(fixture[i]) \in Seq(Outcome)
  BY FixturesAssumption, TestsOutcomes
<1>3. << >> \in Seq(Outcome)
  OBVIOUS
<1> QED
  BY <1>1, <1>2, <1>3 DEF TestsOf

\* At the first comparison of a vector.
LEMMA AtFirst ==
  ASSUME NEW all \in Seq(Outcome)
  PROVE  \E done \in Nat :
           /\ done + Len(all) = Len(all)
           /\ \A i \in 1..Len(all) : all[i] = all[done + i]
           /\ \A i \in 1..done : all[i] = "ok"
<1>1. Len(all) \in Nat
  OBVIOUS
<1>2. 1..0 = {} /\ \A i \in 1..Len(all) : all[i] = all[0 + i]
  BY <1>1
<1> WITNESS 0 \in Nat
<1> QED
  BY <1>1, <1>2

LEMMA GoldenInitIInv == GoldenInit => GoldenIInv
<1> SUFFICES ASSUME GoldenInit PROVE GoldenIInv
  OBVIOUS
<1>1. /\ fixture \in Fixtures /\ tests = TestsOf(1) /\ sound = TRUE
      /\ answers = << >> /\ Len(answers) = 0
  BY DEF GoldenInit, GoldenLocals
<1>2. Len(fixture) \in Nat /\ tests \in Seq(Outcome)
  BY <1>1, FixtureShape
<1>3. GoldenTypeOK
  BY <1>1, <1>2 DEF GoldenTypeOK
<1>4. Place
  BY <1>1, <1>2, AtFirst DEF Place
<1> QED
  BY <1>1, <1>3, <1>4 DEF GoldenIInv, TrueIffAllOk

\* One comparison further in the same check.
LEMMA Advance ==
  ASSUME GoldenIInv, AtVector, tests # << >>, tests' = Tail(tests),
         sound' = (sound /\ Head(tests) = "ok"), UNCHANGED <<fixture, answers>>
  PROVE  GoldenIInv'
<1> DEFINE all == TestsOf(Len(answers) + 1)
<1>1. /\ Len(answers) \in Nat /\ Len(fixture) \in Nat
      /\ Len(answers) + 1 \in 1..Len(fixture) /\ all \in Seq(Outcome)
  BY FixtureShape DEF GoldenIInv, GoldenTypeOK, AtVector
<1>2. PICK done \in Nat :
        /\ done + Len(tests) = Len(all)
        /\ \A i \in 1..Len(tests) : tests[i] = all[done + i]
        /\ sound <=> \A i \in 1..done : all[i] = "ok"
  BY DEF GoldenIInv, Place
<1>3. all' = all
  BY DEF TestsOf
<1> HIDE DEF all
<1>4. /\ tests' \in Seq(Outcome) /\ Len(tests') = Len(tests) - 1
      /\ Len(tests) \in Nat \ {0} /\ Head(tests) = tests[1]
      /\ \A i \in 1..Len(tests) - 1 : tests'[i] = tests[i + 1]
  BY DEF GoldenIInv, GoldenTypeOK
<1>5. Head(tests) = all[done + 1]
  BY <1>2, <1>4
<1>6. (done + 1) + Len(tests') = Len(all)
  BY <1>2, <1>4
<1>7. ASSUME NEW i \in 1..Len(tests')  PROVE tests'[i] = all[(done + 1) + i]
  <2>1. i + 1 \in 1..Len(tests) /\ done + (i + 1) = (done + 1) + i
    BY <1>4
  <2> QED
    BY <1>2, <1>4, <2>1
<1>8. sound' <=> \A i \in 1..(done + 1) : all[i] = "ok"
  <2>1. 1..(done + 1) = (1..done) \cup {done + 1}
    BY <1>2
  <2> QED
    BY <1>2, <1>5, <2>1
<1>9. Place'
  <2>1. done + 1 \in Nat
    OBVIOUS
  <2> QED
    BY <1>3, <1>6, <1>7, <1>8, <2>1 DEF Place, all
<1>10. GoldenTypeOK'
  BY <1>4 DEF GoldenIInv, GoldenTypeOK
<1>11. TrueIffAllOk'
  BY DEF GoldenIInv, TrueIffAllOk
<1> QED
  BY <1>9, <1>10, <1>11 DEF GoldenIInv

\* An answer, "True" only if every comparison held.
LEMMA Answering ==
  ASSUME GoldenIInv, AtVector, UNCHANGED fixture,
         NEW value \in {"True", "False", "None", "raised"},
         value = "True" <=> AllOk(TestsOf(Len(answers) + 1)),
         answers' = Append(answers, value),
         \/ tests' = TestsOf(Len(answers) + 2) /\ sound' = TRUE
         \/ value = "raised" /\ UNCHANGED <<tests, sound>>
  PROVE  GoldenIInv'
<1>1. /\ Len(answers) \in Nat /\ Len(fixture) \in Nat /\ fixture \in Fixtures
      /\ Len(answers) + 1 \in 1..Len(fixture)
      /\ TestsOf(Len(answers) + 1) = Tests(fixture[Len(answers) + 1])
  BY FixtureShape DEF GoldenIInv, GoldenTypeOK, AtVector
<1>2. /\ answers' \in Seq({"True", "False", "None", "raised"})
      /\ Len(answers') = Len(answers) + 1
      /\ DOMAIN answers' = 1..(Len(answers) + 1) /\ DOMAIN answers = 1..Len(answers)
      /\ \A i \in 1..Len(answers) : answers'[i] = answers[i]
      /\ answers'[Len(answers) + 1] = value
  BY DEF GoldenIInv, GoldenTypeOK
<1>3. TestsOf(Len(answers) + 2) \in Seq(Outcome)
  BY <1>1, FixtureShape
<1>4. GoldenTypeOK'
  <2>1. tests' \in Seq(Outcome) /\ sound' \in BOOLEAN
    BY <1>3 DEF GoldenIInv, GoldenTypeOK
  <2>2. Len(answers') <= Len(fixture')
    BY <1>1, <1>2
  <2> QED
    BY <1>1, <1>2, <2>1, <2>2 DEF GoldenTypeOK
<1>5. TrueIffAllOk'
  <2>1. ASSUME NEW i \in 1..(Len(answers) + 1)
        PROVE  answers'[i] = "True" <=> AllOk(Tests(fixture[i]))
    <3>1. CASE i = Len(answers) + 1
      BY <1>1, <1>2, <3>1
    <3>2. CASE i # Len(answers) + 1
      <4>1. i \in 1..Len(answers)
        BY <1>1, <3>2
      <4> QED
        BY <1>2, <4>1 DEF GoldenIInv, TrueIffAllOk
    <3> QED
      BY <3>1, <3>2
  <2> QED
    BY <1>2, <2>1 DEF TrueIffAllOk
<1>6. AtVector' => Place'
  <2>1. CASE tests' = TestsOf(Len(answers) + 2) /\ sound' = TRUE
    <3>1. Len(answers') + 1 = Len(answers) + 2
      BY <1>1, <1>2
    <3>2. TestsOf(Len(answers) + 1)' = tests'
      BY <2>1, <3>1 DEF TestsOf
    <3>3. tests' \in Seq(Outcome)
      BY <2>1, <1>3
    <3> QED
      BY <2>1, <3>2, <3>3, AtFirst DEF Place
  <2>2. CASE value = "raised"
    BY <1>1, <1>2, <2>2 DEF AtVector, Raised
  <2> QED
    BY <2>1, <2>2
<1> QED
  BY <1>4, <1>5, <1>6 DEF GoldenIInv

LEMMA GoldenNextIInv == GoldenIInv /\ [GoldenNext]_goldenVars => GoldenIInv'
<1> SUFFICES ASSUME GoldenIInv, [GoldenNext]_goldenVars PROVE GoldenIInv'
  OBVIOUS
\* Where the check is, in terms of its comparisons.
<1>1. ASSUME AtVector, tests # << >>
      PROVE  \E m \in DOMAIN TestsOf(Len(answers) + 1) :
               TestsOf(Len(answers) + 1)[m] = Head(tests)
  <2> DEFINE all == TestsOf(Len(answers) + 1)
  <2>1. all \in Seq(Outcome) /\ tests \in Seq(Outcome)
    BY FixtureShape DEF GoldenIInv, GoldenTypeOK
  <2>2. PICK done \in Nat :
          /\ done + Len(tests) = Len(all)
          /\ \A i \in 1..Len(tests) : tests[i] = all[done + i]
    BY <1>1 DEF GoldenIInv, Place
  <2> HIDE DEF all
  <2>3. Len(tests) \in Nat \ {0} /\ Head(tests) = tests[1]
    BY <1>1, <2>1
  <2>4. done + 1 \in 1..Len(all) /\ DOMAIN all = 1..Len(all)
    BY <2>1, <2>2, <2>3
  <2>5. all[done + 1] = Head(tests)
    BY <2>2, <2>3
  <2> QED
    BY <2>4, <2>5 DEF all
<1>2. ASSUME AtVector, tests = << >>
      PROVE  sound <=> AllOk(TestsOf(Len(answers) + 1))
  <2> DEFINE all == TestsOf(Len(answers) + 1)
  <2>1. all \in Seq(Outcome)
    BY FixtureShape DEF GoldenIInv, GoldenTypeOK
  <2>2. PICK done \in Nat :
          /\ done + Len(tests) = Len(all)
          /\ sound <=> \A i \in 1..done : all[i] = "ok"
    BY <1>2 DEF GoldenIInv, Place
  <2> HIDE DEF all
  <2>3. done = Len(all) /\ DOMAIN all = 1..Len(all)
    BY <1>2, <2>1, <2>2
  <2> QED
    BY <2>2, <2>3 DEF AllOk, all
<1>3. CASE Hold
  BY <1>3, Advance DEF Hold, AtTest, GoldenIInv, GoldenTypeOK
<1>4. CASE Note
  BY <1>4, Advance DEF Note, AtTest
<1>5. CASE Refuse
  BY <1>1, <1>5, Answering DEF Refuse, Answer, AtTest, AllOk
<1>6. CASE Skip
  BY <1>1, <1>6, Answering DEF Skip, Answer, AtTest, AllOk
<1>7. CASE Raise
  BY <1>1, <1>7, Answering DEF Raise, AtTest, AllOk
<1>8. CASE Finish
  BY <1>2, <1>8, Answering DEF Finish, Answer, GoldenIInv, GoldenTypeOK
<1>9. CASE UNCHANGED goldenVars
  BY <1>9
  DEF goldenVars, GoldenIInv, GoldenTypeOK, AtVector, Raised, Place, TestsOf, TrueIffAllOk
<1> QED
  BY <1>3, <1>4, <1>5, <1>6, <1>7, <1>8, <1>9 DEF GoldenNext

LEMMA GoldenInvariance == GoldenSpec => []GoldenIInv
<1> QED
  BY GoldenInitIInv, GoldenNextIInv, PTL DEF GoldenSpec
----------------------------------------------------------------------------
(* What the answers say of the vectors.                                    *)

\* Every comparison of an accepted vector holds.
LEMMA AcceptedHolds ==
  ASSUME GoldenIInv, NEW i \in Judged("True")
  PROVE  AllOk(Tests(fixture[i])) /\ IsGolden(fixture[i])
<1>1. i \in DOMAIN answers /\ answers[i] = "True"
  BY DEF Judged
<1>2. i \in DOMAIN fixture
  <2>1. DOMAIN answers = 1..Len(answers) /\ Len(answers) \in Nat
    BY DEF GoldenIInv, GoldenTypeOK
  <2>2. Len(answers) <= Len(fixture) /\ Len(fixture) \in Nat
        /\ DOMAIN fixture = 1..Len(fixture)
    BY FixtureShape DEF GoldenIInv, GoldenTypeOK
  <2> QED
    BY <1>1, <2>1, <2>2
<1>3. IsGolden(fixture[i])
  BY <1>2, FixturesAssumption DEF GoldenIInv, GoldenTypeOK
<1> QED
  BY <1>1, <1>3 DEF GoldenIInv, TrueIffAllOk

\* What an accepted entry has passed.
LEMMA AcceptedEntry ==
  ASSUME GoldenIInv, NEW i \in Judged("True"),
         fixture[i].family = "rec", fixture[i].in.shape = "entry",
         fixture[i].pins.verdict = <<Accept>>
  PROVE  LET a == fixture[i].in.entry
         IN  /\ EnvelopeVerdict(a, fixture[i].in.served) = Accept
             /\ "at" \in DOMAIN a.receipt
             /\ "at" \notin DOMAIN a.event
<1> DEFINE v == fixture[i]
           decided == EnvelopeVerdict(v.in.entry, v.in.served)
<1>1. AllOk(EnvelopeTests(v)) /\ IsGolden(v)
  BY AcceptedHolds DEF Tests, ChangeTests
<1>2. v.in.whole
  <2>1. CASE ~v.in.whole
    <3>1. EnvelopeTests(v) = <<"raise">>
      BY <2>1 DEF EnvelopeTests
    <3>2. <<"raise">>[1] = "raise" /\ 1 \in DOMAIN <<"raise">>
      OBVIOUS
    <3> QED
      BY <1>1, <3>1, <3>2 DEF AllOk
  <2> QED
    BY <2>1
<1>3. Test(Get(v.pins, "verdict") = <<decided>>) = "ok"
  <2>1. EnvelopeTests(v) = <<Test(Get(v.pins, "verdict") = <<decided>>)>>
    BY <1>2 DEF EnvelopeTests
  <2> QED
    BY <1>1, <2>1 DEF AllOk
<1>4. decided # "null"
  BY DEF EnvelopeVerdict, Accept
<1> HIDE DEF decided
<1>5. decided = Accept
  <2>1. Get(v.pins, "verdict") = <<decided>>
    BY <1>3 DEF Test
  <2>2. Get(v.pins, "verdict") = <<Accept>> \/ Get(v.pins, "verdict") = <<"null">>
    BY DEF Get, Null
  <2> QED
    BY <1>4, <2>1, <2>2
<1>6. "at" \in DOMAIN v.in.entry.receipt /\ "at" \notin DOMAIN v.in.entry.event
  BY <1>1, <1>2 DEF IsGolden
<1> QED
  BY <1>5, <1>6 DEF decided

\* The accepting verdict, undone.
LEMMA Accepting ==
  ASSUME NEW entry, NEW served, EnvelopeVerdict(entry, served) = Accept
  PROVE  /\ entry.recorded_at = entry.receipt.at
         /\ entry.kind \in {"lifecycle", "key_revocation", "superseded"}
         /\ ContextBound(entry)
         /\ entry.kind = "superseded" => entry.receipt.lineage_id = entry.lineage_id
         /\ served = Evidence(entry)
BY DEF EnvelopeVerdict, Accept

LEMMA EvidenceFollows == GoldenIInv => EvidenceBindsEntry
<1> SUFFICES ASSUME GoldenIInv, NEW i \in Judged("True"), NEW j \in Judged("True"),
                    fixture[i].family = "rec", fixture[i].in.shape = "entry",
                    fixture[j].family = "rec", fixture[j].in.shape = "entry",
                    fixture[i].pins.verdict = <<Accept>>,
                    fixture[j].pins.verdict = <<Accept>>,
                    fixture[i].in.served = fixture[j].in.served
             PROVE  LET a == fixture[i].in.entry
                        b == fixture[j].in.entry
                    IN  /\ Recorded(a) = Recorded(b)
                        /\ a.kind # "lifecycle" => a.recorded_at = b.recorded_at
                        /\ a.kind = "superseded" /\ b.kind = "superseded" =>
                             a.lineage_id = b.lineage_id
  BY DEF EvidenceBindsEntry
<1> DEFINE a == fixture[i].in.entry
           b == fixture[j].in.entry
           served == fixture[i].in.served
<1>1. /\ EnvelopeVerdict(a, served) = Accept /\ EnvelopeVerdict(b, served) = Accept
      /\ "at" \in DOMAIN a.receipt /\ "at" \notin DOMAIN a.event
      /\ "at" \in DOMAIN b.receipt /\ "at" \notin DOMAIN b.event
  BY AcceptedEntry
<1> HIDE DEF a, b, served
<1>2. /\ a.recorded_at = a.receipt.at /\ b.recorded_at = b.receipt.at
      /\ a.kind \in {"lifecycle", "key_revocation", "superseded"}
      /\ b.kind \in {"lifecycle", "key_revocation", "superseded"}
      /\ ContextBound(a) /\ ContextBound(b)
      /\ a.kind = "superseded" => a.receipt.lineage_id = a.lineage_id
      /\ b.kind = "superseded" => b.receipt.lineage_id = b.lineage_id
      /\ Evidence(a) = Evidence(b)
  BY <1>1, Accepting
\* A lifecycle event is no receipt, and one is served where the other is.
<1>3. a.kind = "lifecycle" <=> b.kind = "lifecycle"
  BY <1>1, <1>2 DEF Evidence
<1>4. CASE a.kind = "lifecycle"
  <2>1. a.event = b.event
    BY <1>2, <1>3, <1>4 DEF Evidence
  <2> QED
    BY <1>2, <1>3, <1>4, <2>1 DEF ContextBound, Recorded, a, b
<1>5. CASE a.kind # "lifecycle"
  <2>1. a.receipt = b.receipt
    BY <1>2, <1>3, <1>5 DEF Evidence
  <2>2. Recorded(a) = a.receipt.ctx_id /\ Recorded(b) = b.receipt.ctx_id
    BY <1>2, <1>3, <1>5 DEF ContextBound, Recorded
  <2> QED
    BY <1>2, <1>5, <2>1, <2>2 DEF a, b
<1> QED
  BY <1>4, <1>5

\* What an accepted negative vector has passed.
LEMMA AcceptedNegative ==
  ASSUME NEW v, IsGolden(v), AllOk(P256Tests(v)), v.in.outcome = "failure",
         v.family = "sig", v.in.algorithm = "ecdsa-p256"
  PROVE  LET blob == v.pins.der_encoded_signature_base64
         IN  /\ v.in.key \notin {"missing", "malformed"}
             /\ v.in.content # Unencodable
             /\ blob = Blob(blob[1], blob[2], blob[3], blob[4])
             /\ VerifiesAs("DER", blob, v)
<1> DEFINE blob == v.pins.der_encoded_signature_base64
           keys == <<Test(v.in.key # "missing"), Test(v.in.key # "malformed")>>
<1>1. AllOk(keys) /\ AllOk(ContentTests(v)) /\ AllOk(NegativeTests(v))
  <2>1. keys \in Seq(Outcome)
    BY Outcomes
  <2>2. /\ ContentTests(v) \in Seq(Outcome) /\ NegativeTests(v) \in Seq(Outcome)
        /\ <<LineageTest(v)>> \in Seq(Outcome)
    BY ContentOutcomes, BlobOutcomes, Outcomes DEF LineageTest
  <2>3. P256Tests(v) = keys \o ContentTests(v) \o NegativeTests(v) \o <<LineageTest(v)>>
    BY DEF P256Tests
  <2> HIDE DEF keys
  <2> DEFINE before == keys \o ContentTests(v)
             upto == before \o NegativeTests(v)
  <2>4. before \in Seq(Outcome) /\ upto \in Seq(Outcome)
    BY <2>1, <2>2, Joined
  <2>5. AllOk(upto)
    <3>1. P256Tests(v) = upto \o <<LineageTest(v)>>
      BY <2>3
    <3> HIDE DEF upto
    <3> QED
      BY <2>2, <2>4, <3>1, Joined
  <2>6. AllOk(before) /\ AllOk(NegativeTests(v))
    <3> HIDE DEF before
    <3> QED
      BY <2>2, <2>4, <2>5, Joined
  <2> QED
    BY <2>1, <2>2, <2>6, Joined
<1>2. v.in.key \notin {"missing", "malformed"}
  <2>1. keys[1] = "ok" /\ keys[2] = "ok"
    BY <1>1 DEF AllOk
  <2> QED
    BY <2>1 DEF Test
<1>3. v.in.content # Unencodable
  <2>1. ContentTests(v)[1] = "ok"
    BY <1>1 DEF AllOk, ContentTests
  <2> QED
    BY <2>1 DEF ContentTests, RaiseUnless
<1>4. Has(v.pins, "der_encoded_signature_base64")
  <2>1. CASE ~Has(v.pins, "der_encoded_signature_base64")
    <3>1. NegativeTests(v) = <<"fail">>
      BY <2>1 DEF NegativeTests
    <3> QED
      BY <1>1, <3>1 DEF AllOk
  <2> QED
    BY <2>1
<1>5. VerifiesAs("DER", blob, v)
  <2>1. NegativeTests(v)
          = <<Test(blob[2] > 0), Test(blob[1] = "DER"), Test(blob[2] # 64),
              Test(VerifiesAs("DER", blob, v))>>
    BY <1>4 DEF NegativeTests
  <2>2. Test(VerifiesAs("DER", blob, v)) = "ok"
    BY <1>1, <2>1 DEF AllOk
  <2> QED
    BY <2>2 DEF Test
<1>6. blob = Blob(blob[1], blob[2], blob[3], blob[4])
  BY <1>4 DEF IsGolden, Signatures, Has
<1> QED
  BY <1>2, <1>3, <1>5, <1>6

\* It would pass in the right form.
LEMMA RightFormPasses ==
  ASSUME NEW v, IsGolden(v), v.in.outcome = "failure", AllOk(P256Tests(v)),
         v.family = "sig", v.in.algorithm = "ecdsa-p256"
  PROVE  AllOk(P256Tests(InRightForm(v)))
<1> DEFINE blob == v.pins.der_encoded_signature_base64
           w == InRightForm(v)
           raw == [blob EXCEPT ![1] = "r||s", ![2] = 64]
<1>1. /\ v.in.key \notin {"missing", "malformed"}
      /\ v.in.content # Unencodable
      /\ blob = Blob(blob[1], blob[2], blob[3], blob[4])
      /\ VerifiesAs("DER", blob, v)
  BY AcceptedNegative
<1>2. /\ w.in.key = v.in.key /\ w.in.content = v.in.content
      /\ w.in.outcome = "success"
      /\ w.pins = [signature_value_base64 |-> raw]
  <2>1. /\ v = [family |-> v.family, in |-> v.in, pins |-> v.pins, label |-> v.label]
        /\ v.in = [m \in DOMAIN v.in |-> v.in[m]]
        /\ {"key", "content", "ctx_id", "outcome"} \subseteq DOMAIN v.in
    BY DEF IsGolden
  <2> HIDE DEF blob, raw
  <2>2. w = [v EXCEPT !.in.outcome = "success",
                      !.pins = [signature_value_base64 |-> raw]]
    BY DEF InRightForm, blob, raw
  <2> HIDE DEF w
  <2>3. /\ w.in = [v.in EXCEPT !.outcome = "success"]
        /\ w.pins = [signature_value_base64 |-> raw]
    BY <2>1, <2>2
  <2> QED
    BY <2>1, <2>3
<1>3. raw[1] = "r||s" /\ raw[2] = 64 /\ raw[3] = v.in.key
      /\ raw[4] = Hash(v.in.content)
  <2>1. blob[3] = v.in.key /\ blob[4] = Hash(v.in.content)
    BY <1>1 DEF VerifiesAs
  <2>2. raw = <<"r||s", 64, blob[3], blob[4]>>
    BY <1>1 DEF Blob
  <2> HIDE DEF raw
  <2> QED
    BY <2>1, <2>2
<1> HIDE DEF w, raw
<1>4. \A member : Has(w.pins, member) <=> member = "signature_value_base64"
  BY <1>2 DEF Has
<1>5. w.pins.signature_value_base64 = raw
  BY <1>2
<1> DEFINE keys == <<Test(w.in.key # "missing"), Test(w.in.key # "malformed")>>
<1>6. keys \in Seq(Outcome) /\ AllOk(keys)
  <2>1. Test(w.in.key # "missing") = "ok" /\ Test(w.in.key # "malformed") = "ok"
    BY <1>1, <1>2 DEF Test
  <2>2. keys = <<"ok", "ok">>
    BY <2>1
  <2> HIDE DEF keys
  <2> QED
    BY <2>2 DEF AllOk, Outcome
<1>7. AllOk(ContentTests(w))
  <2>1. RaiseUnless(w.in.content # Unencodable) = "ok"
    BY <1>1, <1>2 DEF RaiseUnless
  <2>2. \A term : /\ Pinned(w.pins, "canonical_form", term) = "ok"
                  /\ Pinned(w.pins, "content_hash", term) = "ok"
    BY <1>4 DEF Pinned, Test
  <2>3. ContentTests(w) = <<"ok", "ok", "ok">>
    BY <2>1, <2>2 DEF ContentTests
  <2> QED
    BY <2>3 DEF AllOk
<1>8. AllOk(PositiveTests(w))
  <2>1. PositiveTests(w) = <<Test(raw[2] > 0), Test(raw[2] = 64),
                             Pinned(w.pins, "signature_value_hex", raw),
                             Test(VerifiesAs("r||s", raw, w))>>
    BY <1>4, <1>5 DEF PositiveTests
  <2>2. /\ Test(raw[2] > 0) = "ok" /\ Test(raw[2] = 64) = "ok"
        /\ Test(VerifiesAs("r||s", raw, w)) = "ok"
    BY <1>2, <1>3 DEF Test, VerifiesAs
  <2>3. Pinned(w.pins, "signature_value_hex", raw) = "ok"
    BY <1>4 DEF Pinned, Test
  <2>4. PositiveTests(w) = <<"ok", "ok", "ok", "ok">>
    BY <2>1, <2>2, <2>3
  <2> QED
    BY <2>4 DEF AllOk
<1>9. <<LineageTest(w)>> \in Seq(Outcome) /\ AllOk(<<LineageTest(w)>>)
  <2>1. LineageTest(w) = "ok"
    BY <1>4 DEF LineageTest, Test
  <2> QED
    BY <2>1 DEF AllOk, Outcome
<1>10. P256Tests(w) = keys \o ContentTests(w) \o PositiveTests(w) \o <<LineageTest(w)>>
  BY <1>2 DEF P256Tests
<1> HIDE DEF keys
<1>11. AllOk(P256Tests(w))
  BY <1>6, <1>7, <1>8, <1>9, <1>10, ContentOutcomes, BlobOutcomes, Joined, ZenonT(60)
<1> QED
  BY <1>11 DEF w

LEMMA NegativesFollow == GoldenIInv => NegativeIsolatesForm
<1> SUFFICES ASSUME GoldenIInv, NEW i \in Judged("True"),
                    fixture[i].family = "sig",
                    fixture[i].in.algorithm = "ecdsa-p256",
                    fixture[i].in.outcome = "failure"
             PROVE  AllOk(P256Tests(InRightForm(fixture[i])))
  BY DEF NegativeIsolatesForm, AllOk
<1>1. AllOk(P256Tests(fixture[i])) /\ IsGolden(fixture[i])
  BY AcceptedHolds DEF Tests, SigTests
<1> QED
  BY <1>1, RightFormPasses

\* ---- Agreement with the printout, member by member -----------------------

\* A comparison that holds, undone.
LEMMA Holds ==
  /\ \A b : Test(b) = "ok" => b
  /\ \A b : Soft(b) = "ok" => b
  /\ \A b : RaiseUnless(b) = "ok" => b
BY DEF Test, Soft, RaiseUnless

LEMMA HoldsPinned ==
  ASSUME NEW pins, NEW member, NEW term, Pinned(pins, member, term) = "ok",
         member \in DOMAIN pins
  PROVE  pins[member] = term
BY DEF Pinned, Has, Test

LEMMA HoldsGot ==
  ASSUME NEW pins, NEW member, NEW term, Get(pins, member) = term,
         member \in DOMAIN pins
  PROVE  pins[member] = term
BY DEF Get, Has

\* To agree with two printouts is to agree with one under the other.
LEMMA AgreeBoth ==
  ASSUME NEW v, NEW above, NEW below, Agrees(v, above), Agrees(v, below)
  PROVE  Agrees(v, above ++ below)
BY DEF Agrees, ++

\* What the checks of signed bodies have in common.
LEMMA SignedAgrees ==
  ASSUME NEW v, AllOk(Ed25519Tests(v))
  PROVE  /\ Agrees(v, PrintDidKey(v.in.key, v.in.content))
         /\ "lineage_id" \in Unread(v) \/ v.in.ctx_id # "missing" =>
              Agrees(v, Lineaged(v))
<1> DEFINE sig == Sign(v.in.key, Hash(v.in.content))
           first == <<Pinned(v.pins, "did_key", DidKey(v.in.key)), KeyIdTest(v)>>
           second == SignatureTests(v.pins, sig)
           last == <<LineageTest(v)>>
<1>1. /\ KeyTests(v) \in Seq(Outcome) /\ ContentTests(v) \in Seq(Outcome)
      /\ first \in Seq(Outcome) /\ second \in Seq(Outcome) /\ last \in Seq(Outcome)
  BY Outcomes, ContentOutcomes DEF KeyTests, KeyIdTest, SignatureTests, LineageTest
<1>2. Ed25519Tests(v)
        = KeyTests(v) \o first \o ContentTests(v) \o second \o last
  BY DEF Ed25519Tests
<1> HIDE DEF first, second, last
<1>3. /\ AllOk(KeyTests(v)) /\ AllOk(first) /\ AllOk(ContentTests(v))
      /\ AllOk(second) /\ AllOk(last)
  <2> DEFINE two == KeyTests(v) \o first
             three == two \o ContentTests(v)
             four == three \o second
  <2>1. two \in Seq(Outcome)
    BY <1>1, Joined
  <2>2. three \in Seq(Outcome)
    <3> HIDE DEF two
    <3> QED
      BY <1>1, <2>1, Joined
  <2>3. four \in Seq(Outcome)
    <3> HIDE DEF three
    <3> QED
      BY <1>1, <2>2, Joined
  <2>4. AllOk(four) /\ AllOk(last)
    <3>1. Ed25519Tests(v) = four \o last
      BY <1>2
    <3> HIDE DEF four
    <3> QED
      BY <1>1, <2>3, <3>1, Joined
  <2>5. AllOk(three) /\ AllOk(second)
    <3> HIDE DEF three
    <3> QED
      BY <1>1, <2>2, <2>4, Joined
  <2>6. AllOk(two) /\ AllOk(ContentTests(v))
    <3> HIDE DEF two
    <3> QED
      BY <1>1, <2>1, <2>5, Joined
  <2> QED
    BY <1>1, <2>4, <2>5, <2>6, Joined
<1>4. Pinned(v.pins, "public_key_hex", Public(v.in.key)) = "ok"
  BY <1>3 DEF AllOk, KeyTests
<1>5. Pinned(v.pins, "did_key", DidKey(v.in.key)) = "ok" /\ KeyIdTest(v) = "ok"
  BY <1>3 DEF AllOk, first
<1>6. /\ Pinned(v.pins, "canonical_form", Jcs(v.in.content)) = "ok"
      /\ Pinned(v.pins, "content_hash", Hash(v.in.content)) = "ok"
  BY <1>3 DEF AllOk, ContentTests
<1>7. /\ Pinned(v.pins, "signature_value_hex", sig) = "ok"
      /\ Pinned(v.pins, "signature_value_base64", sig) = "ok"
  BY <1>3 DEF AllOk, second, SignatureTests
<1>8. LineageTest(v) = "ok"
  BY <1>3 DEF AllOk, last
<1> HIDE DEF sig
<1>9. Agrees(v, PrintKey(v.in.key))
  BY <1>4, HoldsPinned DEF Agrees, PrintKey, Unread
<1>10. Agrees(v, [did_key |-> DidKey(v.in.key), key_id |-> KeyId(DidKey(v.in.key)),
                  fingerprint |-> Fingerprint(Public(v.in.key)),
                  canonical_form |-> Jcs(v.in.content),
                  content_hash |-> Hash(v.in.content),
                  signature_value_hex |-> sig, signature_value_base64 |-> sig])
  <2>1. "did_key" \in DOMAIN v.pins => v.pins.did_key = DidKey(v.in.key)
    BY <1>5, HoldsPinned
  <2>2. {"did_key", "key_id"} \subseteq DOMAIN v.pins =>
          v.pins.key_id = KeyId(DidKey(v.in.key))
    BY <1>5, <2>1, Holds DEF KeyIdTest
  <2>3. "key_id" \notin Unread(v) => "did_key" \in DOMAIN v.pins
    BY DEF Unread, Has
  <2>4. "fingerprint" \in Unread(v)
    BY DEF Unread
  <2>5. /\ "canonical_form" \in DOMAIN v.pins => v.pins.canonical_form = Jcs(v.in.content)
        /\ "content_hash" \in DOMAIN v.pins => v.pins.content_hash = Hash(v.in.content)
    BY <1>6, HoldsPinned
  <2>6. /\ "signature_value_hex" \in DOMAIN v.pins => v.pins.signature_value_hex = sig
        /\ "signature_value_base64" \in DOMAIN v.pins => v.pins.signature_value_base64 = sig
    BY <1>7, HoldsPinned
  <2> QED
    BY <2>1, <2>2, <2>3, <2>4, <2>5, <2>6 DEF Agrees
<1>11. Agrees(v, PrintDidKey(v.in.key, v.in.content))
  BY <1>9, <1>10, AgreeBoth DEF PrintDidKey, sig
<1>12. "lineage_id" \in Unread(v) \/ v.in.ctx_id # "missing" => Agrees(v, Lineaged(v))
  <2>1. CASE "lineage_id" \in Unread(v)
    BY <2>1 DEF Agrees, Lineaged
  <2>2. CASE v.in.ctx_id # "missing"
    <3>1. "lineage_id" \in DOMAIN v.pins => v.pins.lineage_id = Lineage(v.in.ctx_id)
      BY <1>8, <2>2, Holds DEF LineageTest, Has
    <3> QED
      BY <3>1 DEF Agrees, Lineaged
  <2> QED
    BY <2>1, <2>2
<1> QED
  BY <1>11, <1>12

LEMMA CanonicalAgrees ==
  ASSUME NEW v, AllOk(CanonicalTests(v))
  PROVE  Agrees(v, PrintAnchored(v.in.content) ++ Lineaged(v))
<1> DEFINE field == {"sha256_hex", "content_hash_field_value"} \subseteq DOMAIN v.pins =>
                      v.pins.content_hash_field_value = Prefixed(v.pins.sha256_hex)
           form == Jcs(v.in.content)
<1>1. ~Descriptive(v)
  <2>1. CASE Descriptive(v)
    <3>1. CanonicalTests(v) = <<"none">>
      BY <2>1 DEF CanonicalTests
    <3> QED
      BY <3>1 DEF AllOk
  <2> QED
    BY <2>1
<1>2. CanonicalTests(v)
        = <<Test(v.in.content # Unencodable),
            Pinned(v.pins, "canonical_form", form),
            Pinned(v.pins, "sha256_hex", Hex(form)),
            Test(field),
            Pinned(v.pins, "lineage_id", Lineage(v.in.ctx_id))>>
  BY <1>1 DEF CanonicalTests
<1> HIDE DEF field, form
<1>3. /\ Pinned(v.pins, "canonical_form", form) = "ok"
      /\ Pinned(v.pins, "sha256_hex", Hex(form)) = "ok"
      /\ Test(field) = "ok"
      /\ Pinned(v.pins, "lineage_id", Lineage(v.in.ctx_id)) = "ok"
  BY <1>2 DEF AllOk
<1>4. /\ "canonical_form" \in DOMAIN v.pins => v.pins.canonical_form = form
      /\ "sha256_hex" \in DOMAIN v.pins => v.pins.sha256_hex = Hex(form)
      /\ "lineage_id" \in DOMAIN v.pins => v.pins.lineage_id = Lineage(v.in.ctx_id)
  BY <1>3, HoldsPinned
<1>5. field
  BY <1>3, Holds
<1>6. Agrees(v, PrintCanonical(v.in.content))
  BY <1>4 DEF Agrees, PrintCanonical, form
<1>7. Agrees(v, [content_hash_field_value |-> Hash(v.in.content)])
  <2>1. "content_hash_field_value" \notin Unread(v) => "sha256_hex" \in DOMAIN v.pins
    BY DEF Unread, Has
  <2>2. Hash(v.in.content) = Prefixed(Hex(form))
    BY DEF Hash, form
  <2> QED
    BY <1>4, <1>5, <2>1, <2>2 DEF Agrees, field
<1>8. Agrees(v, Lineaged(v))
  BY <1>4 DEF Agrees, Lineaged
<1> QED
  BY <1>6, <1>7, <1>8, AgreeBoth DEF PrintAnchored

LEMMA StrictAgrees ==
  ASSUME NEW v, v.in.points \in Seq(STRING), DOMAIN v.in.found = Found,
         AllOk(StrictTests(v))
  PROVE  Agrees(v, v.in.found)
<1> DEFINE found == Found \subseteq DOMAIN v.pins
                      /\ \A f \in Found : v.pins[f] = v.in.found[f]
<1>1. Test(found) = "ok"
  <2> DEFINE first == <<Test(v.in.pins_rejection), RaiseUnless(v.in.decodes),
                        Test(v.in.s_reduced)>>
             judge(point) == CASE point = "small" -> "ok"
                               [] point = "large" -> "fail"
                               [] OTHER -> "raise"
             points == [i \in DOMAIN v.in.points |-> judge(v.in.points[i])]
  <2>1. StrictTests(v) = first \o <<Test(found)>> \o points
    BY DEF StrictTests
  <2>2. /\ first \in Seq(Outcome)
        /\ <<Test(found)>> \in Seq(Outcome)
    <3>1. Test(found) \in Outcome
      BY Outcomes
    <3> HIDE DEF found
    <3> QED
      BY <3>1, Outcomes
  <2>3. points \in Seq(Outcome)
    <3>1. \A point : judge(point) \in Outcome
      BY DEF Outcome
    <3> HIDE DEF judge
    <3>2. DOMAIN v.in.points = 1..Len(v.in.points) /\ Len(v.in.points) \in Nat
      OBVIOUS
    <3> QED
      BY <3>1, <3>2
  <2> DEFINE middle == <<Test(found)>>
             both == first \o middle
  <2> HIDE DEF found, first, points
  <2>4. middle \in Seq(Outcome) /\ both \in Seq(Outcome)
        /\ (AllOk(both) => AllOk(middle))
    BY <2>2, Joined
  <2>5. AllOk(both)
    <3>1. StrictTests(v) = both \o points
      BY <2>1
    <3> HIDE DEF both, middle
    <3> QED
      BY <2>3, <2>4, <3>1, Joined
  <2> QED
    BY <2>4, <2>5 DEF AllOk
<1>2. found
  <2> HIDE DEF found
  <2> QED
    BY <1>1, Holds
<1> QED
  BY <1>2 DEF Agrees

LEMMA P256Parts ==
  ASSUME NEW v, AllOk(P256Tests(v))
  PROVE  /\ AllOk(ContentTests(v)) /\ LineageTest(v) = "ok"
         /\ IF v.in.outcome = "failure" THEN AllOk(NegativeTests(v))
                                        ELSE AllOk(PositiveTests(v))
<1> DEFINE keys == <<Test(v.in.key # "missing"), Test(v.in.key # "malformed")>>
           form == IF v.in.outcome = "failure" THEN NegativeTests(v)
                                               ELSE PositiveTests(v)
           last == <<LineageTest(v)>>
<1>1. /\ keys \in Seq(Outcome) /\ last \in Seq(Outcome) /\ form \in Seq(Outcome)
      /\ ContentTests(v) \in Seq(Outcome)
  BY Outcomes, ContentOutcomes, BlobOutcomes DEF LineageTest
<1>2. P256Tests(v) = keys \o ContentTests(v) \o form \o last
  BY DEF P256Tests
<1> HIDE DEF keys, form, last
<1> DEFINE two == keys \o ContentTests(v)
           three == two \o form
<1>3. two \in Seq(Outcome)
  BY <1>1, Joined
<1>4. three \in Seq(Outcome) /\ (AllOk(three) => AllOk(two) /\ AllOk(form))
  <2> HIDE DEF two
  <2> QED
    BY <1>1, <1>3, Joined
<1>5. AllOk(three) /\ AllOk(last)
  <2>1. P256Tests(v) = three \o last
    BY <1>2
  <2> HIDE DEF three
  <2> QED
    BY <1>1, <1>4, <2>1, Joined
<1>6. AllOk(ContentTests(v))
  BY <1>1, <1>4, <1>5, Joined
<1>7. AllOk(form)
  BY <1>4, <1>5
<1>8. LineageTest(v) = "ok"
  BY <1>5 DEF AllOk, last
<1> QED
  BY <1>6, <1>7, <1>8 DEF form

\* A signature as it stands in the fixture, taken apart and found right.
LEMMA BlobIs ==
  ASSUME NEW v, IsGolden(v), v.family = "sig", v.in.algorithm = "ecdsa-p256",
         NEW member \in Signatures, member \in DOMAIN v.pins,
         NEW form, VerifiesAs(form, v.pins[member], v)
  PROVE  /\ v.pins[member] = <<form, v.pins[member][2], v.in.key, Hash(v.in.content)>>
         /\ v.pins[member][2] \in {0, 64, DerLength}
<1> DEFINE blob == v.pins[member]
<1>1. blob = Blob(blob[1], blob[2], blob[3], blob[4]) /\ blob[2] \in {0, 64, DerLength}
  BY DEF IsGolden
<1>2. blob[1] = form /\ blob[3] = v.in.key /\ blob[4] = Hash(v.in.content)
  BY DEF VerifiesAs
<1> HIDE DEF blob
<1>3. blob = <<form, blob[2], v.in.key, Hash(v.in.content)>>
  BY <1>1, <1>2 DEF Blob
<1> QED
  BY <1>1, <1>3 DEF blob

LEMMA P256Agrees ==
  ASSUME NEW v, IsGolden(v), v.family = "sig", v.in.algorithm = "ecdsa-p256",
         AllOk(P256Tests(v))
  PROVE  Agrees(v, RightSignature(v))
<1> DEFINE hash == Hash(v.in.content)
           raw == Blob("r||s", 64, v.in.key, hash)
           der == [raw EXCEPT ![1] = "DER", ![2] = DerLength]
           pinned(member) == v.pins[member]
<1>1. /\ AllOk(ContentTests(v)) /\ LineageTest(v) = "ok"
      /\ v.in.outcome = "failure" => AllOk(NegativeTests(v))
      /\ v.in.outcome # "failure" => AllOk(PositiveTests(v))
  BY P256Parts
<1>2. Agrees(v, [canonical_form |-> Jcs(v.in.content), content_hash |-> hash])
  <2>1. /\ Pinned(v.pins, "canonical_form", Jcs(v.in.content)) = "ok"
        /\ Pinned(v.pins, "content_hash", hash) = "ok"
    BY <1>1 DEF AllOk, ContentTests
  <2> HIDE DEF hash
  <2>2. /\ "canonical_form" \in DOMAIN v.pins => v.pins.canonical_form = Jcs(v.in.content)
        /\ "content_hash" \in DOMAIN v.pins => v.pins.content_hash = hash
    BY <2>1, HoldsPinned
  <2> QED
    BY <2>2 DEF Agrees
<1>3. Agrees(v, Lineaged(v))
  <2>1. v.in.ctx_id = "missing" => "lineage_id" \in Unread(v)
    BY DEF Unread
  <2>2. v.in.ctx_id # "missing" /\ "lineage_id" \in DOMAIN v.pins =>
          v.pins.lineage_id = Lineage(v.in.ctx_id)
    BY <1>1, Holds DEF LineageTest, Has
  <2> QED
    BY <2>1, <2>2 DEF Agrees, Lineaged
<1>4. raw = <<"r||s", 64, v.in.key, hash>> /\ der = <<"DER", DerLength, v.in.key, hash>>
  BY DEF Blob
<1> HIDE DEF raw, der, hash
<1>5. CASE v.in.outcome = "failure"
  <2> DEFINE blob == v.pins.der_encoded_signature_base64
  <2>1. "signature_value_base64" \in Unread(v) /\ "signature_value_hex" \in Unread(v)
    BY <1>5 DEF Unread
  <2>2. "der_encoded_signature_base64" \in DOMAIN v.pins
    <3>1. CASE ~Has(v.pins, "der_encoded_signature_base64")
      <4>1. NegativeTests(v) = <<"fail">>
        BY <3>1 DEF NegativeTests
      <4> QED
        BY <1>1, <1>5, <4>1 DEF AllOk
    <3> QED
      BY <3>1 DEF Has
  <2>3. blob[2] > 0 /\ blob[2] # 64 /\ VerifiesAs("DER", blob, v)
    <3>1. NegativeTests(v)
            = <<Test(blob[2] > 0), Test(blob[1] = "DER"), Test(blob[2] # 64),
                Test(VerifiesAs("DER", blob, v))>>
      BY <2>2 DEF NegativeTests, Has
    <3>2. Test(blob[2] > 0) = "ok" /\ Test(blob[2] # 64) = "ok"
          /\ Test(VerifiesAs("DER", blob, v)) = "ok"
      BY <1>1, <1>5, <3>1 DEF AllOk
    <3> QED
      BY <3>2 DEF Test
  <2>4. /\ blob = <<"DER", blob[2], v.in.key, hash>>
        /\ blob[2] \in {0, 64, DerLength}
    BY <2>2, <2>3, BlobIs DEF Signatures, hash
  <2> HIDE DEF blob
  <2>5. blob[2] = DerLength
    BY <2>3, <2>4
  <2>6. blob = der
    BY <1>4, <2>4, <2>5
  <2>7. Agrees(v, [signature_value_base64 |-> raw, signature_value_hex |-> raw,
                   der_encoded_signature_base64 |-> der])
    BY <2>1, <2>6 DEF Agrees, blob
  <2>8. Agrees(v, [signature_value_base64 |-> raw, signature_value_hex |-> raw,
                   der_encoded_signature_base64 |-> der,
                   canonical_form |-> Jcs(v.in.content), content_hash |-> hash])
    BY <1>2, <2>7 DEF Agrees
  <2> QED
    BY <1>3, <2>8, AgreeBoth DEF RightSignature, raw, der, hash
<1>6. CASE v.in.outcome # "failure"
  <2> DEFINE blob == v.pins.signature_value_base64
  <2>1. "der_encoded_signature_base64" \in Unread(v)
    BY <1>6 DEF Unread
  <2>2. "signature_value_base64" \in DOMAIN v.pins
    <3>1. CASE ~Has(v.pins, "signature_value_base64")
      <4>1. PositiveTests(v) = <<"fail">>
        BY <3>1 DEF PositiveTests
      <4> QED
        BY <1>1, <1>6, <4>1 DEF AllOk
    <3> QED
      BY <3>1 DEF Has
  <2>3. /\ blob[2] = 64 /\ VerifiesAs("r||s", blob, v)
        /\ Pinned(v.pins, "signature_value_hex", blob) = "ok"
    <3>1. PositiveTests(v)
            = <<Test(blob[2] > 0), Test(blob[2] = 64),
                Pinned(v.pins, "signature_value_hex", blob),
                Test(VerifiesAs("r||s", blob, v))>>
      BY <2>2 DEF PositiveTests, Has
    <3>2. Test(blob[2] = 64) = "ok" /\ Pinned(v.pins, "signature_value_hex", blob) = "ok"
          /\ Test(VerifiesAs("r||s", blob, v)) = "ok"
      BY <1>1, <1>6, <3>1 DEF AllOk
    <3> QED
      BY <3>2 DEF Test
  <2>4. blob = <<"r||s", blob[2], v.in.key, hash>>
    BY <2>2, <2>3, BlobIs DEF Signatures, hash
  <2>5. "signature_value_hex" \in DOMAIN v.pins => v.pins.signature_value_hex = blob
    BY <2>3, HoldsPinned
  <2> HIDE DEF blob
  <2>6. blob = raw
    BY <1>4, <2>3, <2>4
  <2>7. Agrees(v, [signature_value_base64 |-> raw, signature_value_hex |-> raw,
                   der_encoded_signature_base64 |-> der])
    BY <2>1, <2>5, <2>6 DEF Agrees, blob
  <2>8. Agrees(v, [signature_value_base64 |-> raw, signature_value_hex |-> raw,
                   der_encoded_signature_base64 |-> der,
                   canonical_form |-> Jcs(v.in.content), content_hash |-> hash])
    BY <1>2, <2>7 DEF Agrees
  <2> QED
    BY <1>3, <2>8, AgreeBoth DEF RightSignature, raw, der, hash
<1> QED
  BY <1>5, <1>6

\* Revocations, trust lists and tool results are signed bodies first.
LEMMA LineageRead ==
  ASSUME NEW v, v.family \in {"sig", "rev", "mcp", "trust"}
  PROVE  "lineage_id" \in Unread(v) \/ v.in.ctx_id # "missing"
BY DEF Unread

LEMMA RevocationAgrees ==
  ASSUME NEW v, v.family = "rev", AllOk(RevocationTests(v))
  PROVE  Agrees(v, Right(v))
<1> DEFINE rest == <<Test(v.in.type = "key-revocation"), Test(v.in.visibility = "public"),
                     Test(RevokedFingerprint(v)[1] = "sha256:"),
                     Test(v.in.since = "canonical"),
                     NotSelfSigned(v), RevokedKeyTest(v)>>
<1>1. RevocationTests(v) = Ed25519Tests(v) \o rest
  BY DEF RevocationTests
<1>2. rest \in Seq(Outcome)
  BY Outcomes DEF NotSelfSigned, RevokedKeyTest
<1>3. AllOk(Ed25519Tests(v)) /\ AllOk(rest)
  <2> HIDE DEF rest
  <2> QED
    BY <1>1, <1>2, Ed25519Outcomes, Joined
<1>4. RevokedKeyTest(v) = "ok"
  BY <1>3 DEF AllOk
<1>5. Agrees(v, PrintDidKey(v.in.key, v.in.content)) /\ Agrees(v, Lineaged(v))
  BY <1>3, SignedAgrees, LineageRead
<1>6. Agrees(v, [revoked_key_fingerprint |-> Fingerprint(Public(v.in.revoked.key))])
  <2>1. v.in.revoked.key = "missing" => "revoked_key_fingerprint" \in Unread(v)
    BY DEF Unread
  <2>2. v.in.revoked.key # "missing" =>
          Get(v.pins, "revoked_key_fingerprint") = Fingerprint(Public(v.in.revoked.key))
    BY <1>4, Holds DEF RevokedKeyTest
  <2> QED
    BY <2>1, <2>2, HoldsGot DEF Agrees
<1>7. Right(v) = PrintDidKey(v.in.key, v.in.content) ++ Lineaged(v)
                   ++ [revoked_key_fingerprint |-> Fingerprint(Public(v.in.revoked.key))]
  BY DEF Right
<1> QED
  BY <1>5, <1>6, <1>7, AgreeBoth

LEMMA TrustAgrees ==
  ASSUME NEW v, v.family = "trust", IsGolden(v), AllOk(TrustBodyTests(v))
  PROVE  Agrees(v, Right(v))
<1> DEFINE body == <<Test(v.in.list.type = "acdp:trust-list"),
                     Test(Get(v.pins, "did_key") = v.in.list.issuer),
                     Test(v.in.list.valid_from < v.in.list.valid_until)>>
           bound == [i \in DOMAIN v.in.list.bound |-> Test(v.in.list.bound[i])]
           both == Ed25519Tests(v) \o body
<1>1. TrustBodyTests(v) = both \o bound
  BY DEF TrustBodyTests
<1>2. body \in Seq(Outcome)
  BY Outcomes
<1>3. bound \in Seq(Outcome)
  <2>1. DOMAIN v.in.list.bound = 1..Len(v.in.list.bound) /\ Len(v.in.list.bound) \in Nat
    BY DEF IsGolden
  <2> QED
    BY <2>1, Outcomes
<1> HIDE DEF body, bound
<1>4. both \in Seq(Outcome) /\ (AllOk(both) => AllOk(Ed25519Tests(v)))
  BY <1>2, Ed25519Outcomes, Joined
<1> HIDE DEF both
<1>5. AllOk(both)
  BY <1>1, <1>3, <1>4, Joined
<1>6. Agrees(v, PrintDidKey(v.in.key, v.in.content)) /\ Agrees(v, Lineaged(v))
  BY <1>4, <1>5, SignedAgrees, LineageRead
<1>7. Right(v) = PrintDidKey(v.in.key, v.in.content) ++ Lineaged(v)
  BY DEF Right
<1> QED
  BY <1>6, <1>7, AgreeBoth

LEMMA FingerprintAgrees ==
  ASSUME NEW v, AllOk(FingerprintTests(v))
  PROVE  Agrees(v, PrintFingerprint(v.in.form, v.in.key))
<1>1. Get(v.pins, "key_fingerprint") = Fingerprint(<<v.in.form, v.in.key>>)
  <2> DEFINE last == Get(v.pins, "key_fingerprint") = Fingerprint(<<v.in.form, v.in.key>>)
  <2>1. Test(last) = "ok"
    <3>1. PICK a, b, c, d : FingerprintTests(v) = <<a, b, c, d, Test(last)>>
      BY DEF FingerprintTests
    <3> HIDE DEF last
    <3> QED
      BY <3>1 DEF AllOk
  <2> HIDE DEF last
  <2>2. last
    BY <2>1, Holds
  <2> QED
    BY <2>2 DEF last
<1> QED
  BY <1>1, HoldsGot DEF Agrees, PrintFingerprint

\* What receipts and lineage-head receipts have in common.
LEMMA ReceiptAgrees ==
  ASSUME NEW v, v.family \in {"rcpt", "lhr"}, IsGolden(v), AllOk(Tests(v))
  PROVE  Agrees(v, RightReceipt(v))
<1> DEFINE sig == Sign(v.in.key, Hash(v.in.unsigned))
           forms == <<Pinned(v.pins, "canonical_form", Jcs(v.in.unsigned)),
                      Pinned(v.pins, "receipt_hash", Hash(v.in.unsigned))>>
           parts == AssembledTests(v, sig)
           signed == SignatureTests(v.pins, sig)
           producer == <<Test(v.in.producer # "missing" =>
               v.in.unsigned.key_fingerprint = Fingerprint(Public(v.in.producer)))>>
           origin == <<SameAuthority(v.in.unsigned,
               {v.in.unsigned.origin, v.in.unsigned.ctx_registry})>>
           head == <<Test(v.in.unsigned.receipt_version = "acdp-lhr/1"),
                     SameAuthority(v.in.unsigned, {v.in.unsigned.ctx_registry}),
                     Test(v.in.unsigned.head_status \notin {"superseded", "malformed"}),
                     Test(v.in.unsigned.as_of = "canonical"),
                     Test(v.in.unsigned.head_version >= 1),
                     FirstVersion(v.in.unsigned)>>
<1>1. /\ KeyTests(v) \in Seq(Outcome) /\ forms \in Seq(Outcome)
      /\ signed \in Seq(Outcome) /\ parts \in Seq(Outcome)
  BY Outcomes DEF KeyTests, SignatureTests, AssembledTests
<1>2. producer \in Seq(Outcome) /\ origin \in Seq(Outcome)
  BY Outcomes, Single
<1>3. head \in Seq(Outcome)
  BY Outcomes
<1>4. SignedTests(v) = KeyTests(v) \o forms \o signed
  BY DEF SignedTests
<1>5. v.family = "rcpt" => Tests(v) = SignedTests(v) \o producer \o parts \o origin
  BY DEF Tests, ReceiptTests
<1>6. v.family = "lhr" => Tests(v) = SignedTests(v) \o parts \o head
  BY DEF Tests, HeadReceiptTests
<1> HIDE DEF producer, origin, head, forms, signed, parts
<1>7. AllOk(SignedTests(v)) /\ AllOk(parts)
  <2>1. CASE v.family = "rcpt"
    <3> DEFINE two == SignedTests(v) \o producer
               three == two \o parts
    <3>1. two \in Seq(Outcome) /\ (AllOk(two) => AllOk(SignedTests(v)))
      BY <1>2, SignedOutcomes, Joined
    <3>2. three \in Seq(Outcome) /\ (AllOk(three) => AllOk(two) /\ AllOk(parts))
      <4> HIDE DEF two
      <4> QED
        BY <1>1, <3>1, Joined
    <3>3. AllOk(three)
      <4>1. Tests(v) = three \o origin
        BY <1>5, <2>1
      <4> HIDE DEF three
      <4> QED
        BY <1>2, <3>2, <4>1, Joined
    <3> QED
      BY <3>1, <3>2, <3>3
  <2>2. CASE v.family = "lhr"
    <3> DEFINE two == SignedTests(v) \o parts
    <3>1. two \in Seq(Outcome) /\ (AllOk(two) => AllOk(SignedTests(v)) /\ AllOk(parts))
      BY <1>1, SignedOutcomes, Joined
    <3>2. AllOk(two)
      <4>1. Tests(v) = two \o head
        BY <1>6, <2>2
      <4> HIDE DEF two
      <4> QED
        BY <1>3, <3>1, <4>1, Joined
    <3> QED
      BY <3>1, <3>2
  <2> QED
    BY <2>1, <2>2
<1>8. AllOk(KeyTests(v)) /\ AllOk(forms) /\ AllOk(signed)
  <2> DEFINE two == KeyTests(v) \o forms
  <2>1. two \in Seq(Outcome) /\ (AllOk(two) => AllOk(KeyTests(v)) /\ AllOk(forms))
    BY <1>1, Joined
  <2>2. AllOk(two) /\ AllOk(signed)
    <3>1. SignedTests(v) = two \o signed
      BY <1>4
    <3> HIDE DEF two
    <3> QED
      BY <1>1, <1>7, <2>1, <3>1, Joined
  <2> QED
    BY <2>1, <2>2
<1>9. Agrees(v, PrintKey(v.in.key))
  <2>1. Pinned(v.pins, "public_key_hex", Public(v.in.key)) = "ok"
    BY <1>8 DEF AllOk, KeyTests
  <2> QED
    BY <2>1, HoldsPinned DEF Agrees, PrintKey, Unread
<1>10. Agrees(v, PrintSigned(v.in.key, v.in.unsigned))
  <2>1. /\ Pinned(v.pins, "canonical_form", Jcs(v.in.unsigned)) = "ok"
        /\ Pinned(v.pins, "receipt_hash", Hash(v.in.unsigned)) = "ok"
    BY <1>8 DEF AllOk, forms
  <2>2. /\ Pinned(v.pins, "signature_value_hex", sig) = "ok"
        /\ Pinned(v.pins, "signature_value_base64", sig) = "ok"
    BY <1>8 DEF AllOk, signed, SignatureTests
  <2> HIDE DEF sig
  <2>3. /\ "canonical_form" \in DOMAIN v.pins => v.pins.canonical_form = Jcs(v.in.unsigned)
        /\ "receipt_hash" \in DOMAIN v.pins => v.pins.receipt_hash = Hash(v.in.unsigned)
    BY <2>1, HoldsPinned
  <2>4. /\ "signature_value_hex" \in DOMAIN v.pins => v.pins.signature_value_hex = sig
        /\ "signature_value_base64" \in DOMAIN v.pins => v.pins.signature_value_base64 = sig
    BY <2>2, HoldsPinned
  <2>5. PrintSigned(v.in.key, v.in.unsigned)
          = [canonical_form |-> Jcs(v.in.unsigned), receipt_hash |-> Hash(v.in.unsigned),
             signature_value_hex |-> sig, signature_value_base64 |-> sig]
    BY DEF PrintSigned, sig
  <2> QED
    BY <2>3, <2>4, <2>5 DEF Agrees
<1>11. Agrees(v, [assembled |-> <<v.in.unsigned, sig>>])
  <2>1. /\ Test(Has(v.pins, "assembled") => v.pins.assembled[1] = v.in.unsigned) = "ok"
        /\ Test(Has(v.pins, "assembled") => v.pins.assembled[2] = sig) = "ok"
    BY <1>7 DEF AllOk, parts, AssembledTests
  <2>2. "assembled" \in DOMAIN v.pins =>
          v.pins.assembled[1] = v.in.unsigned /\ v.pins.assembled[2] = sig
    BY <2>1, Holds DEF Has
  <2>3. "assembled" \in DOMAIN v.pins => v.pins.assembled = <<v.in.unsigned, sig>>
    <3> HIDE DEF sig
    <3> QED
      BY <2>2 DEF IsGolden, Has
  <2> QED
    BY <2>3 DEF Agrees
<1> QED
  BY <1>9, <1>10, <1>11, AgreeBoth DEF RightReceipt

LEMMA ChangeAgrees ==
  ASSUME NEW v, AllOk(ChangeTests(v))
  PROVE  Agrees(v, RightChange(v))
<1>1. CASE v.in.shape = "entry"
  <2> DEFINE decided == EnvelopeVerdict(v.in.entry, v.in.served)
  <2>1. AllOk(EnvelopeTests(v))
    BY <1>1 DEF ChangeTests
  <2>2. v.in.whole
    <3>1. CASE ~v.in.whole
      <4>1. EnvelopeTests(v) = <<"raise">>
        BY <3>1 DEF EnvelopeTests
      <4> QED
        BY <2>1, <4>1 DEF AllOk
    <3> QED
      BY <3>1
  <2>3. Test(Get(v.pins, "verdict") = <<decided>>) = "ok"
    BY <2>1, <2>2 DEF EnvelopeTests, AllOk
  <2> HIDE DEF decided
  <2>4. Get(v.pins, "verdict") = <<decided>>
    BY <2>3 DEF Test
  <2> QED
    BY <1>1, <2>4, HoldsGot DEF Agrees, RightChange, decided
<1>2. CASE v.in.shape = "secret"
  <2> DEFINE under(reading) ==
               Header(v.in.t, Mac(reading, v.in.secret, v.in.t, v.in.body))
             expected == Get(v.pins, "expected_header") = under("utf-8")
             wrong == Get(v.pins, "not_header") = under("base64")
  <2>1. PICK first : ChangeTests(v) = <<first, Soft(expected), Soft(wrong)>>
    BY <1>2 DEF ChangeTests, HintTests
  <2> HIDE DEF expected, wrong
  <2>2. Soft(expected) = "ok" /\ Soft(wrong) = "ok"
    BY <2>1 DEF AllOk
  <2>3. expected /\ wrong
    BY <2>2, Holds
  <2> HIDE DEF under
  <2>4. /\ "expected_header" \in DOMAIN v.pins => v.pins.expected_header = under("utf-8")
        /\ "not_header" \in DOMAIN v.pins => v.pins.not_header = under("base64")
    BY <2>3, HoldsGot DEF expected, wrong
  <2>5. RightChange(v) = [expected_header |-> under("utf-8"), not_header |-> under("base64")]
    BY <1>2 DEF RightChange, under
  <2> QED
    BY <2>4, <2>5 DEF Agrees
<1>3. CASE v.in.shape = "bucket_of"
  <2> DEFINE hash == Hex(v.in.id)
             whole == Get(v.pins, "sha256_hex") = hash
             two == Has(v.pins, "bucket_2") => v.pins.bucket_2 = Prefix(2, hash)
             four == Has(v.pins, "bucket_4") => v.pins.bucket_4 = Prefix(4, hash)
             other == Get(v.pins, "not_bucket_4") # Prefix(4, hash)
  <2>1. AllOk(<<Soft(whole), Soft(two), Soft(four), Soft(other)>>)
    BY <1>3 DEF ChangeTests, BucketTests
  <2> HIDE DEF whole, two, four, other
  <2>2. Soft(whole) = "ok" /\ Soft(two) = "ok" /\ Soft(four) = "ok"
    BY <2>1 DEF AllOk
  <2>3. whole /\ two /\ four
    BY <2>2, Holds
  <2>4. RightChange(v) = [sha256_hex |-> hash, bucket_2 |-> Prefix(2, hash),
                          bucket_4 |-> Prefix(4, hash)]
    BY <1>3 DEF RightChange
  <2> HIDE DEF hash
  <2>5. "sha256_hex" \in DOMAIN v.pins => v.pins.sha256_hex = hash
    BY <2>3, HoldsGot DEF whole
  <2> QED
    BY <2>3, <2>4, <2>5 DEF Agrees, two, four, Has
<1>4. CASE v.in.shape \notin {"entry", "secret", "bucket_of"}
  <2>1. ChangeTests(v) = <<"fail">>
    BY <1>4 DEF ChangeTests
  <2> QED
    BY <2>1 DEF AllOk
<1> QED
  BY <1>1, <1>2, <1>3, <1>4

LEMMA ChainAgrees ==
  ASSUME NEW v, AllOk(ChainTests(v))
  PROVE  Agrees(v, RightChain(v))
<1> DEFINE evidence == Hash(v.in.evidence)
           verdict == VerdictDigest(v.in.verdict)
           as_of == AsOfDigest(v.in.verdict)
           is(member, digest) == Get(v.pins, member) = digest
<1>1. v.in.loads
  <2>1. CASE ~v.in.loads
    <3>1. ChainTests(v) = <<"fail">>
      BY <2>1 DEF ChainTests
    <3> QED
      BY <3>1 DEF AllOk
  <2> QED
    BY <2>1
<1>2. PICK first, last :
        ChainTests(v) = <<first,
                          Soft(is("evidence_digest", evidence)),
                          Soft(is("carried_evidence_digest", evidence)),
                          Soft(is("verdict_digest", verdict)),
                          Soft(is("carried_verdict_digest", verdict)),
                          Soft(is("as_of_digest", as_of)),
                          Soft(is("carried_as_of_digest", as_of)), last>>
  BY <1>1 DEF ChainTests
<1>3. RightChain(v) = [evidence_digest |-> evidence, carried_evidence_digest |-> evidence,
                       verdict_digest |-> verdict, carried_verdict_digest |-> verdict,
                       as_of_digest |-> as_of, carried_as_of_digest |-> as_of]
  BY DEF RightChain
<1> HIDE DEF evidence, verdict, as_of, is
<1>4. /\ Soft(is("evidence_digest", evidence)) = "ok"
      /\ Soft(is("carried_evidence_digest", evidence)) = "ok"
      /\ Soft(is("verdict_digest", verdict)) = "ok"
      /\ Soft(is("carried_verdict_digest", verdict)) = "ok"
      /\ Soft(is("as_of_digest", as_of)) = "ok"
      /\ Soft(is("carried_as_of_digest", as_of)) = "ok"
  BY <1>2 DEF AllOk
<1>5. /\ is("evidence_digest", evidence) /\ is("carried_evidence_digest", evidence)
      /\ is("verdict_digest", verdict) /\ is("carried_verdict_digest", verdict)
      /\ is("as_of_digest", as_of) /\ is("carried_as_of_digest", as_of)
  BY <1>4, Holds
<1>6. \A member, digest : is(member, digest) /\ member \in DOMAIN v.pins =>
                            v.pins[member] = digest
  BY HoldsGot DEF is
<1> QED
  BY <1>3, <1>5, <1>6 DEF Agrees

LEMMA RetrievalAgrees ==
  ASSUME NEW v, AllOk(RetrievalTests(v))
  PROVE  Agrees(v, [content_hash |-> Hash(v.in.content),
                    signature_value_base64 |-> Sign(v.in.key, Hash(v.in.content))]
                     ++ Lineaged(v))
<1> DEFINE hash == Get(v.pins, "content_hash") = Hash(v.in.content)
           signature == Get(v.pins, "signature_value_base64")
                          = Sign(v.in.key, Get(v.pins, "content_hash"))
           lineage == Get(v.pins, "lineage_id") = Lineage(v.in.ctx_id)
<1>1. PICK a, b, c : RetrievalTests(v)
                       = <<a, Test(hash), b, Test(signature), c, Test(lineage)>>
  BY DEF RetrievalTests
<1> HIDE DEF hash, signature, lineage
<1>2. Test(hash) = "ok" /\ Test(signature) = "ok" /\ Test(lineage) = "ok"
  BY <1>1 DEF AllOk
<1>3. hash /\ signature /\ lineage
  BY <1>2, Holds
<1>4. /\ "content_hash" \in DOMAIN v.pins => v.pins.content_hash = Hash(v.in.content)
      /\ "signature_value_base64" \in DOMAIN v.pins =>
           v.pins.signature_value_base64 = Sign(v.in.key, Hash(v.in.content))
      /\ "lineage_id" \in DOMAIN v.pins => v.pins.lineage_id = Lineage(v.in.ctx_id)
  BY <1>3, HoldsGot DEF hash, signature, lineage
<1>5. Agrees(v, [content_hash |-> Hash(v.in.content),
                 signature_value_base64 |-> Sign(v.in.key, Hash(v.in.content))])
  BY <1>4 DEF Agrees
<1>6. Agrees(v, Lineaged(v))
  BY <1>4 DEF Agrees, Lineaged
<1> QED
  BY <1>5, <1>6, AgreeBoth

LEMMA ExampleAgrees ==
  ASSUME NEW v, AllOk(ReceiptExampleTests(v))
  PROVE  Agrees(v, [signature_value_base64 |-> Sign(v.in.key, Hash(v.in.unsigned))])
<1> DEFINE signature == Get(v.pins, "signature_value_base64")
                          = Sign(v.in.key, Hash(v.in.unsigned))
<1>1. PICK a, b, c, d, e :
        ReceiptExampleTests(v) = <<a, Test(signature), b, c, d, e>>
  BY DEF ReceiptExampleTests
<1> HIDE DEF signature
<1>2. Test(signature) = "ok"
  BY <1>1 DEF AllOk
<1>3. signature
  BY <1>2, Holds
<1> QED
  BY <1>3, HoldsGot DEF Agrees, signature

\* The walk through the arguments need not be known: the check compares with
\* what it computes, and so does the printout.
LEMMA CallAgrees ==
  ASSUME NEW v, v.family = "mcp", AllOk(ToolResultTests(v))
  PROVE  Agrees(v, RightCall(v))
<1> DEFINE derived == Derived(v.in.tree)
           salt == Get(v.pins, "salt_hex") = <<v.in.salt>>
           hashed == Get(v.pins, "hashed_result") = <<v.in.call.result>>
           cited == Get(v.pins, "derived_from") = derived
           key == Get(v.pins, "idempotency_key")
                    = <<"acdp-mcp-", Get(v.pins, "content_hash")>>
           provenance == Get(v.pins, "provenance") = Provenance(v)
           a == Test(v.in.salt # "not base64url")
           b == Test(v.in.salt # "not 32 bytes")
           c == RaiseUnless(Has(v.pins, "salt_hex"))
           e == RaiseUnless(Expected \subseteq DOMAIN v.pins)
           g == FlagsTest(v)
           h == DerivedTest(v)
           j == ReturnedTest(v)
           head == <<a, b, c, Test(salt), e, Soft(hashed)>>
           parts == <<CallTest(v, "endpoint"), CallTest(v, "arguments"),
                      CallTest(v, "result"), CallTest(v, "request_id")>>
           last == <<g, h, Soft(key), j, Soft(provenance)>>
           rest == <<a, b, c, Test(salt), e, Soft(hashed), CallTest(v, "endpoint"),
                     CallTest(v, "arguments"), CallTest(v, "result"),
                     CallTest(v, "request_id"), g, h, Soft(key), j,
                     Soft(provenance)>>
<1>1. ToolResultTests(v) = Ed25519Tests(v) \o rest
  BY DEF ToolResultTests
<1>2. /\ a \in Outcome /\ b \in Outcome /\ c \in Outcome /\ e \in Outcome
      /\ g \in Outcome /\ h \in Outcome /\ j \in Outcome
  BY Outcomes
<1> HIDE DEF salt, hashed, cited, key, provenance, a, b, c, e, g, h, j
<1>3. head \in Seq(Outcome) /\ parts \in Seq(Outcome) /\ last \in Seq(Outcome)
  BY <1>2, Outcomes
<1>4. rest = head \o parts \o last
  OBVIOUS
<1> HIDE DEF rest
<1>5. AllOk(Ed25519Tests(v)) /\ AllOk(head) /\ AllOk(parts) /\ AllOk(last)
  <2> HIDE DEF head, parts, last
  <2> DEFINE two == head \o parts
  <2>1. two \in Seq(Outcome) /\ (AllOk(two) => AllOk(head) /\ AllOk(parts))
    BY <1>3, Joined
  <2>2. rest = two \o last
    BY <1>4
  <2> HIDE DEF two
  <2>3. rest \in Seq(Outcome) /\ (AllOk(rest) => AllOk(two) /\ AllOk(last))
    BY <1>3, <2>1, <2>2, Joined
  <2>4. AllOk(Ed25519Tests(v)) /\ AllOk(rest)
    BY <1>1, <2>3, Ed25519Outcomes, Joined
  <2> QED
    BY <2>1, <2>3, <2>4
<1>6. Agrees(v, PrintDidKey(v.in.key, v.in.content))
  BY <1>5, SignedAgrees
<1>7. salt /\ hashed
  <2>1. Test(salt) = "ok" /\ Soft(hashed) = "ok"
    BY <1>5 DEF AllOk
  <2> QED
    BY <2>1, Holds
<1>8. cited /\ key /\ provenance
  <2>1. h = "ok" /\ Soft(key) = "ok" /\ Soft(provenance) = "ok"
    BY <1>5 DEF AllOk
  <2>2. cited
    BY <2>1 DEF h, cited, DerivedTest, Soft
  <2> QED
    BY <2>1, <2>2, Holds
<1>9. \A part \in CallParts : part \in DOMAIN v.pins => v.pins[part] = Salted(v, part)
  <2>1. \A part \in CallParts : CallTest(v, part) = "ok"
    BY <1>5 DEF AllOk, CallParts
  <2>2. ASSUME NEW part, CallTest(v, part) = "ok", part \in DOMAIN v.pins
        PROVE  v.pins[part] = Salted(v, part)
    BY <2>2, HoldsGot DEF CallTest, Soft
  <2> QED
    BY <2>1, <2>2
<1>10. Has(v.pins, "content_hash")
  <2>1. Expected \subseteq DOMAIN v.pins
    <3>1. e = "ok"
      BY <1>5 DEF AllOk
    <3> QED
      BY <3>1, Holds DEF e
  <2> QED
    BY <2>1 DEF Expected, Has
<1>11. Get(v.pins, "content_hash") = Hash(v.in.content)
  <2>1. "content_hash" \notin Unread(v)
    BY DEF Unread
  <2>2. PrintDidKey(v.in.key, v.in.content).content_hash = Hash(v.in.content)
        /\ "content_hash" \in DOMAIN PrintDidKey(v.in.key, v.in.content)
    BY DEF PrintDidKey, PrintKey, ++
  <2> QED
    BY <1>6, <1>10, <2>1, <2>2 DEF Agrees, Get, Has
<1>12. Agrees(v, [salt_hex |-> <<v.in.salt>>, hashed_result |-> <<v.in.call.result>>,
                  endpoint |-> Salted(v, "endpoint"), arguments |-> Salted(v, "arguments"),
                  result |-> Salted(v, "result"), request_id |-> Salted(v, "request_id"),
                  derived_from |-> derived,
                  idempotency_key |-> <<"acdp-mcp-", Hash(v.in.content)>>,
                  provenance |-> Provenance(v)])
  <2>1. /\ "salt_hex" \in DOMAIN v.pins => v.pins.salt_hex = <<v.in.salt>>
        /\ "hashed_result" \in DOMAIN v.pins => v.pins.hashed_result = <<v.in.call.result>>
    BY <1>7, HoldsGot DEF salt, hashed
  <2>2. /\ "derived_from" \in DOMAIN v.pins => v.pins.derived_from = derived
        /\ "provenance" \in DOMAIN v.pins => v.pins.provenance = Provenance(v)
    BY <1>8, HoldsGot DEF cited, provenance
  <2>3. "idempotency_key" \in DOMAIN v.pins =>
          v.pins.idempotency_key = <<"acdp-mcp-", Hash(v.in.content)>>
    BY <1>8, <1>11, HoldsGot DEF key
  <2>4. /\ "endpoint" \in DOMAIN v.pins => v.pins.endpoint = Salted(v, "endpoint")
        /\ "arguments" \in DOMAIN v.pins => v.pins.arguments = Salted(v, "arguments")
        /\ "result" \in DOMAIN v.pins => v.pins.result = Salted(v, "result")
        /\ "request_id" \in DOMAIN v.pins => v.pins.request_id = Salted(v, "request_id")
    BY <1>9 DEF CallParts
  <2> HIDE DEF derived
  <2> QED
    BY <2>1, <2>2, <2>3, <2>4 DEF Agrees
<1> QED
  BY <1>6, <1>12, AgreeBoth DEF RightCall

\* The families together.
LEMMA AllOkAgrees ==
  ASSUME NEW v, IsGolden(v), AllOk(Tests(v))
  PROVE  Agrees(v, Right(v))
<1>1. CASE v.family \in {"can", "lin", "anc"}
  BY <1>1, CanonicalAgrees DEF Tests, Right
<1>2. CASE v.family = "sig"
  <2>1. CASE v.in.algorithm = "strict"
    BY <1>2, <2>1, StrictAgrees DEF Tests, SigTests, Right, RightSignature, IsGolden
  <2>2. CASE v.in.algorithm = "ecdsa-p256"
    BY <1>2, <2>2, P256Agrees DEF Tests, SigTests, Right
  <2>3. CASE v.in.algorithm \notin {"strict", "ecdsa-p256"}
    <3>1. AllOk(Ed25519Tests(v))
      BY <1>2, <2>3 DEF Tests, SigTests
    <3>2. Agrees(v, PrintDidKey(v.in.key, v.in.content)) /\ Agrees(v, Lineaged(v))
      BY <1>2, <3>1, SignedAgrees, LineageRead
    <3>3. Right(v) = PrintDidKey(v.in.key, v.in.content) ++ Lineaged(v)
      BY <1>2, <2>3 DEF Right, RightSignature
    <3> QED
      BY <3>2, <3>3, AgreeBoth
  <2> QED
    BY <2>1, <2>2, <2>3
<1>3. CASE v.family = "rev"
  BY <1>3, RevocationAgrees DEF Tests
<1>4. CASE v.family = "trust"
  BY <1>4, TrustAgrees DEF Tests
<1>5. CASE v.family = "fp"
  BY <1>5, FingerprintAgrees DEF Tests, Right
<1>6. CASE v.family \in {"rcpt", "lhr"}
  BY <1>6, ReceiptAgrees DEF Right
<1>7. CASE v.family = "rec"
  BY <1>7, ChangeAgrees DEF Tests, Right
<1>8. CASE v.family = "mcp"
  BY <1>8, CallAgrees DEF Tests, Right
<1>9. CASE v.family = "chain"
  BY <1>9, ChainAgrees DEF Tests, Right
<1>10. CASE v.family = "retrieval"
  BY <1>10, RetrievalAgrees DEF Tests, Right
<1>11. CASE v.family \notin {"can", "lin", "anc", "sig", "rev", "trust", "fp", "rcpt",
                             "lhr", "rec", "mcp", "chain", "retrieval"}
  BY <1>11, ExampleAgrees DEF Tests, Right
<1> QED
  BY <1>1, <1>2, <1>3, <1>4, <1>5, <1>6, <1>7, <1>8, <1>9, <1>10, <1>11

LEMMA GeneratedFollows == GoldenIInv => AcceptedIsGenerated
BY AcceptedHolds, AllOkAgrees DEF AcceptedIsGenerated

\* The loop over a fixture (1985-2099) answers "True" to a vector exactly if every
\* comparison of its check holds: no check stops before its last comparison
\* but with another answer, and none of those that go on after a deviation
\* forgets it.
THEOREM PassedEverything ==
  GoldenSpec => [](\A i \in DOMAIN answers :
                     answers[i] = "True" <=> AllOk(Tests(fixture[i])))
<1>1. GoldenIInv => \A i \in DOMAIN answers :
                      answers[i] = "True" <=> AllOk(Tests(fixture[i]))
  BY DEF GoldenIInv, TrueIffAllOk
<1> QED
  BY GoldenInvariance, <1>1, PTL

\* Each check compares all it should: of a vector that passes, every member
\* that is there and compared is what the generators of scripts/ print for
\* its inputs, whichever others are absent.  For vectors of every family with
\* any inputs and any pins.
THEOREM AcceptedAgrees == GoldenSpec => []AcceptedIsGenerated
<1> QED
  BY GoldenInvariance, GeneratedFollows, PTL

\* An entry of the change feed that check_change_envelope accepts is bound to
\* its context, instant and lineage by what the registry serves of it, for
\* any two entries of any fixture.
THEOREM EvidenceBinds == GoldenSpec => []EvidenceBindsEntry
<1> QED
  BY GoldenInvariance, EvidenceFollows, PTL

\* A negative P-256 vector that check_ecdsa_p256_vector accepts has no flaw
\* but the wire form of its signature: in the right form, as a success
\* vector, it would pass every comparison.
THEOREM NegativesIsolate == GoldenSpec => []NegativeIsolatesForm
<1> QED
  BY GoldenInvariance, NegativesFollow, PTL
----------------------------------------------------------------------------
(* The two tables of a kl- fixture, for tables of any length and keys with *)
(* any set of revocations.  The loop judges each case by itself, so its    *)
(* invariant is that the answers so far are those of the table function;   *)
(* the properties are then facts about that function, and what the order   *)
(* of its tests could hide is all in ClassifyAuthorizes.                   *)

AnswerTo(j) ==
  IF vector.kind = "classification" THEN Classify(vector.cases[j])
  ELSE Supersede(vector.cases[j].predecessor, vector.cases[j].successor)

\* The answers so far, and of which table.
Answered ==
  /\ got = [j \in 1..k |-> AnswerTo(j)]
  /\ k > 0 => vector.kind \in {"classification", "supersession"}

\* The flag: no answer so far differs from the one pinned.
Flagged == ok <=> \A j \in 1..k : got[j] = vector.cases[j].expected

\* "True" for a table: it was gone through and is not empty.
GoneThrough ==
  (ret = "True" /\ vector.kind \notin GoldenKinds) =>
    ok /\ k = Len(vector.cases) /\ k > 0

\* The loop is reached for tables only, and not left for the golden checks.
Tables ==
  /\ pc = "cases" => vector.kind \notin GoldenKinds
  /\ pc = "golden" => vector.kind \in GoldenKinds
  /\ pc # "returned" => ret = "none"

KeylessIInv ==
  /\ vector \in Vectors
  /\ TypeOK /\ Answered /\ Flagged /\ GoneThrough /\ Tables
----------------------------------------------------------------------------
(* The table functions.                                                    *)

\* No test hides another: the cascade authorizes exactly what was earned.
LEMMA ClassifyAuthorizes ==
  ASSUME vector.window.not_before \in Nat, vector.window.not_after \in Nat,
         NEW c \in ClassificationCase
  PROVE  ~Refuses(Classify(c)) <=> Earned(c)
<1>1. c.created_at \in Nat /\ c.revocations \in SUBSET Nat
  BY DEF ClassificationCase
<1>2. Compromised(c) <=> ~(\A since \in c.revocations : c.created_at < since)
  BY <1>1 DEF Compromised
<1>3. InWindow(c.created_at) <=>
        /\ vector.window.not_before <= c.created_at
        /\ c.created_at < vector.window.not_after
  BY <1>1 DEF InWindow
<1>4. c.listed \in {"yes", "no", "unreachable"}
  BY DEF ClassificationCase
<1> QED
  BY <1>2, <1>3, <1>4 DEF Classify, Earned, Refuses, Refused, Status

\* A refusal that more revocations lift was for an absent controller, and the
\* body lies before the compromise.
LEMMA ClassifyLearns ==
  ASSUME vector.window.not_before \in Nat, vector.window.not_after \in Nat,
         NEW c \in ClassificationCase, NEW d \in ClassificationCase,
         c.revocations \subseteq d.revocations,
         d = [c EXCEPT !.revocations = d.revocations]
  PROVE  /\ Refuses(Classify(c)) /\ ~Refuses(Classify(d)) =>
              /\ Classify(c).reason = "controller_unreachable"
              /\ Classify(d).status = "historically_authorized_pre_compromise"
         /\ Classify(d).status = "currently_authorized" =>
              Classify(c).status = "currently_authorized"
<1>1. /\ d.valid = c.valid /\ d.registry_accepted = c.registry_accepted
      /\ d.bindings_ok = c.bindings_ok /\ d.retracted = c.retracted
      /\ d.receipt = c.receipt /\ d.created_at = c.created_at
      /\ d.signature_valid = c.signature_valid /\ d.listed = c.listed
  BY DEF ClassificationCase
<1>2. InWindow(d.created_at) <=> InWindow(c.created_at)
  BY <1>1
<1>3. Compromised(c) => Compromised(d)
  BY <1>1 DEF Compromised
<1>4. c.revocations # {} => d.revocations # {}
  OBVIOUS
<1>5. c.listed \in {"yes", "no", "unreachable"}
  BY DEF ClassificationCase
<1> QED
  BY <1>1, <1>2, <1>3, <1>4, <1>5 DEF Classify, Refuses, Refused, Status
----------------------------------------------------------------------------
(* The loop.                                                               *)

LEMMA TableLength ==
  ASSUME vector \in Vectors
  PROVE  /\ Len(vector.cases) \in Nat
         /\ vector.cases # << >> => Len(vector.cases) > 0
<1>1. PICK S : vector.cases \in Seq(S)
  BY KeylessAssumption
<1> QED
  BY <1>1

LEMMA KeylessInitIInv == Init => KeylessIInv
<1> SUFFICES ASSUME Init PROVE KeylessIInv
  OBVIOUS
<1>1. vector \in Vectors /\ k = 0 /\ got = << >> /\ ok = TRUE
  BY DEF Init
<1>2. TypeOK
  <2>1. Len(vector.cases) \in Nat
    BY <1>1, TableLength
  <2>2. k \in 0..Len(vector.cases) /\ Len(got) = k
    BY <1>1, <2>1
  <2> QED
    BY <1>1, <2>2 DEF Init, TypeOK
<1>3. Answered
  BY <1>1 DEF Answered
<1>4. Flagged
  BY <1>1 DEF Flagged
<1>5. GoneThrough /\ Tables
  BY DEF Init, GoneThrough, Tables
<1> QED
  BY <1>1, <1>2, <1>3, <1>4, <1>5 DEF KeylessIInv

LEMMA JudgeCaseIInv == KeylessIInv /\ JudgeCase => KeylessIInv'
<1> SUFFICES ASSUME KeylessIInv, JudgeCase PROVE KeylessIInv'
  OBVIOUS
<1> USE DEF KeylessIInv
<1>1. /\ vector' = vector /\ pc' = pc /\ ret' = ret /\ k' = k + 1
      /\ got' = Append(got, AnswerTo(k + 1))
      /\ ok' = (ok /\ AnswerTo(k + 1) = vector.cases[k + 1].expected)
      /\ pc = "cases" /\ k < Len(vector.cases)
      /\ vector.kind \in {"classification", "supersession"}
  BY DEF JudgeCase, AnswerTo
<1>2. Len(vector.cases) \in Nat /\ k \in Nat
  <2>1. vector \in Vectors /\ k \in 0..Len(vector.cases)
    BY DEF TypeOK
  <2>2. Len(vector.cases) \in Nat
    BY <2>1, TableLength
  <2> QED
    BY <2>1, <2>2
<1>3. \A j : AnswerTo(j)' = AnswerTo(j)
  BY <1>1 DEF AnswerTo, Classify, InWindow
<1>4. got' = [j \in 1..k + 1 |-> AnswerTo(j)]
  <2> DEFINE S == {AnswerTo(j) : j \in 1..k + 1}
  <2>1. got = [j \in 1..k |-> AnswerTo(j)]
    BY DEF Answered
  <2>2. got \in Seq(S) /\ Len(got) = k
    BY <2>1, <1>2
  <2> HIDE DEF S
  <2>3. got' = [j \in 1..k + 1 |-> IF j = k + 1 THEN AnswerTo(k + 1) ELSE got[j]]
    BY <2>2, <1>1, <1>2
  <2> QED
    BY <2>1, <2>3, <1>2
<1>5. Answered'
  BY <1>1, <1>3, <1>4 DEF Answered
<1>6. Flagged'
  <2>1. \A j \in 1..k : got'[j] = got[j]
    BY <1>2, <1>4 DEF Answered
  <2>2. got'[k + 1] = AnswerTo(k + 1)
    BY <1>2, <1>4
  <2>3. 1..k + 1 = (1..k) \cup {k + 1}
    BY <1>2
  <2> QED
    BY <1>1, <2>1, <2>2, <2>3 DEF Flagged
<1>7. TypeOK'
  <2>1. Len(got') = k + 1
    BY <1>2, <1>4
  <2>2. k + 1 \in 0..Len(vector.cases)
    BY <1>1, <1>2
  <2> QED
    BY <1>1, <2>1, <2>2 DEF TypeOK
<1>8. GoneThrough' /\ Tables'
  BY <1>1 DEF GoneThrough, Tables
<1>9. vector' \in Vectors
  BY <1>1
<1> QED
  BY <1>5, <1>6, <1>7, <1>8, <1>9

\* The other steps touch the control point and the result only.
LEMMA ReturnIInv ==
  ASSUME KeylessIInv, UNCHANGED <<vector, k, got, ok>>,
         pc' \in {"golden", "cases", "returned"},
         ret' \in {"none", "True", "False", "raised"},
         GoneThrough', Tables'
  PROVE  KeylessIInv'
<1> USE DEF KeylessIInv
<1>1. TypeOK'
  BY DEF TypeOK
<1>2. \A j : AnswerTo(j)' = AnswerTo(j)
  BY DEF AnswerTo, Classify, InWindow
<1>3. Answered' /\ Flagged'
  BY <1>2 DEF Answered, Flagged
<1>4. vector' \in Vectors
  OBVIOUS
<1> QED
  BY <1>1, <1>3, <1>4

LEMMA KeylessNextIInv == KeylessIInv /\ [Next]_vars => KeylessIInv'
<1> SUFFICES ASSUME KeylessIInv, [Next]_vars PROVE KeylessIInv'
  OBVIOUS
<1>1. CASE CheckKeyPair
  BY <1>1, ReturnIInv
  DEF CheckKeyPair, Return, Goto, GoneThrough, Tables, KeylessIInv
<1>2. CASE CheckGolden
  BY <1>2, ReturnIInv DEF CheckGolden, Return, GoneThrough, Tables, KeylessIInv
<1>3. CASE JudgeCase
  BY <1>3, JudgeCaseIInv
<1>4. CASE UnknownKind
  BY <1>4, ReturnIInv DEF UnknownKind, Return, GoneThrough, Tables, KeylessIInv
<1>5. CASE EndCases
  <2>1. vector.cases # << >> => Len(vector.cases) > 0
    BY TableLength DEF KeylessIInv, TypeOK
  <2> QED
    BY <1>5, <2>1, ReturnIInv DEF EndCases, Return, GoneThrough, Tables, KeylessIInv
<1>6. CASE UNCHANGED vars
  <2>1. GoneThrough' /\ Tables'
    BY <1>6 DEF KeylessIInv, GoneThrough, Tables, vars
  <2>2. \A j : AnswerTo(j)' = AnswerTo(j)
    BY <1>6 DEF AnswerTo, Classify, InWindow, vars
  <2>3. Answered' /\ Flagged' /\ TypeOK'
    BY <1>6, <2>2 DEF KeylessIInv, Answered, Flagged, TypeOK, vars
  <2>4. vector' \in Vectors
    BY <1>6 DEF KeylessIInv, vars
  <2> QED
    BY <2>1, <2>3, <2>4 DEF KeylessIInv
<1> QED
  BY <1>1, <1>2, <1>3, <1>4, <1>5, <1>6 DEF Next

LEMMA KeylessInvariance == Spec => []KeylessIInv
<1> QED
  BY KeylessInitIInv, KeylessNextIInv, PTL DEF Spec
----------------------------------------------------------------------------
(* The properties.                                                         *)

\* The windows and cases judged so far have their shapes.
LEMMA TableJudged ==
  ASSUME KeylessIInv
  PROVE  /\ vector.window.not_before \in Nat /\ vector.window.not_after \in Nat
         /\ \A j \in Classified :
              /\ vector.cases[j] \in ClassificationCase
              /\ got[j] = Classify(vector.cases[j])
         /\ \A j \in Superseded :
              /\ vector.cases[j] \in SupersessionCase
              /\ got[j] = Supersede(vector.cases[j].predecessor,
                                    vector.cases[j].successor)
<1> USE DEF KeylessIInv
<1>1. vector \in Vectors /\ k \in 0..Len(vector.cases)
  BY DEF TypeOK
<1>2. vector.window.not_before \in Nat /\ vector.window.not_after \in Nat
  BY <1>1, KeylessAssumption
<1>3. ASSUME NEW j \in Classified
      PROVE  /\ vector.cases[j] \in ClassificationCase
             /\ got[j] = Classify(vector.cases[j])
  <2>1. vector.kind = "classification" /\ j \in 1..k
    BY <1>3 DEF Classified
  <2>2. vector.cases \in Seq(ClassificationCase)
    BY <1>1, <2>1, KeylessAssumption
  <2> QED
    BY <1>1, <2>1, <2>2 DEF Answered, AnswerTo
<1>4. ASSUME NEW j \in Superseded
      PROVE  /\ vector.cases[j] \in SupersessionCase
             /\ got[j] = Supersede(vector.cases[j].predecessor,
                                   vector.cases[j].successor)
  <2>1. vector.kind = "supersession" /\ j \in 1..k
    BY <1>4 DEF Superseded
  <2>2. vector.cases \in Seq(SupersessionCase)
    BY <1>1, <2>1, KeylessAssumption
  <2> QED
    BY <1>1, <2>1, <2>2 DEF Answered, AnswerTo
<1> QED
  BY <1>2, <1>3, <1>4

LEMMA AuthorizedFollows == KeylessIInv => AuthorizedIffEarned
<1> SUFFICES ASSUME KeylessIInv PROVE AuthorizedIffEarned
  OBVIOUS
<1>1. ASSUME NEW j \in Classified
      PROVE  ~Refuses(got[j]) <=> Earned(vector.cases[j])
  BY TableJudged, ClassifyAuthorizes
<1> QED
  BY <1>1 DEF AuthorizedIffEarned, KeylessIInv

LEMMA RevocationsFollow == KeylessIInv => MoreRevocationsOnlyRefuse
<1> SUFFICES ASSUME KeylessIInv, NEW j \in Classified, NEW m \in Classified, Knows(j, m)
             PROVE  /\ Refuses(got[j]) /\ ~Refuses(got[m]) =>
                         /\ got[j].reason = "controller_unreachable"
                         /\ got[m].status = "historically_authorized_pre_compromise"
                    /\ got[m].status = "currently_authorized" =>
                         got[j].status = "currently_authorized"
  BY DEF MoreRevocationsOnlyRefuse
<1> DEFINE c == vector.cases[j]
           d == vector.cases[m]
<1>1. /\ c \in ClassificationCase /\ d \in ClassificationCase
      /\ got[j] = Classify(c) /\ got[m] = Classify(d)
      /\ vector.window.not_before \in Nat /\ vector.window.not_after \in Nat
  BY TableJudged
<1>2. /\ c.revocations \subseteq d.revocations
      /\ d = [c EXCEPT !.revocations = d.revocations]
  BY DEF Knows
<1> HIDE DEF c, d
<1> QED
  BY <1>1, <1>2, ClassifyLearns

LEMMA TakeoverFollows == KeylessIInv => NoTakeover
<1> SUFFICES ASSUME KeylessIInv, NEW j \in Superseded, NEW m \in Superseded,
                    vector.cases[j].successor = vector.cases[m].predecessor,
                    ~Refuses(got[j]), ~Refuses(got[m]),
                    ~FreeHand(vector.cases[m].successor),
                    vector.cases[j].predecessor.identity
                      # vector.cases[m].successor.identity
             PROVE  /\ FreeHand(vector.cases[j].successor)
                    /\ vector.cases[j].successor.kind = "keyless"
  BY DEF NoTakeover
<1>1. /\ got[j] = Supersede(vector.cases[j].predecessor, vector.cases[j].successor)
      /\ got[m] = Supersede(vector.cases[m].predecessor, vector.cases[m].successor)
  BY TableJudged
<1>2. ASSUME NEW p, NEW s, ~Refuses(Supersede(p, s)), ~FreeHand(s)
      PROVE  p.kind = "keyless" /\ p.identity = s.identity
  BY <1>2 DEF Supersede, Refuses, Refused
<1> QED
  BY <1>1, <1>2

\* The variables keep their types, and the loop its place in the table.
THEOREM TypeCorrect == Spec => []TypeOK
<1>1. KeylessIInv => TypeOK
  BY DEF KeylessIInv
<1> QED
  BY KeylessInvariance, <1>1, PTL

\* keyless_classify (1745-1773) authorizes exactly what was earned: of its
\* seven refusals none is hidden by the order of the tests, whatever the
\* window and the revocations.
THEOREM Authorization == Spec => []AuthorizedIffEarned
<1> QED
  BY KeylessInvariance, AuthorizedFollows, PTL

\* To learn of revocations, of however many and in whatever set, lifts no
\* refusal but that for an absent controller, and makes nobody currently
\* authorized.
THEOREM RevocationsRefuse == Spec => []MoreRevocationsOnlyRefuse
<1> QED
  BY KeylessInvariance, RevocationsFollow, PTL

\* Between two identities whose bodies replace one another, by
\* keyless_supersede (1776-1782), stands an org-wide body.
THEOREM Takeover == Spec => []NoTakeover
<1> QED
  BY KeylessInvariance, TakeoverFollows, PTL

\* A classification table that passes expects an authorization exactly where
\* one was earned, in every one of its cases, and has a case: the loop of
\* check_keyless_vector (1945-1961) leaves none out and forgets no deviation.
THEOREM PassingTables ==
  Spec => [](ret = "True" /\ vector.kind = "classification" =>
               /\ vector.cases # << >>
               /\ \A j \in DOMAIN vector.cases :
                    ~Refuses(vector.cases[j].expected) <=> Earned(vector.cases[j]))
<1>1. ASSUME KeylessIInv, ret = "True", vector.kind = "classification"
      PROVE  /\ vector.cases # << >>
             /\ \A j \in DOMAIN vector.cases :
                  ~Refuses(vector.cases[j].expected) <=> Earned(vector.cases[j])
  <2>1. ok /\ k = Len(vector.cases) /\ k > 0
    BY <1>1 DEF KeylessIInv, GoneThrough, GoldenKinds
  <2>2. vector.cases \in Seq(ClassificationCase)
    BY <1>1, KeylessAssumption DEF KeylessIInv, TypeOK
  <2>3. vector.cases # << >> /\ DOMAIN vector.cases = 1..k
    BY <2>1, <2>2
  <2>4. \A j \in 1..k : got[j] = vector.cases[j].expected
    BY <2>1, <1>1 DEF KeylessIInv, Flagged
  <2>5. \A j \in 1..k : ~Refuses(got[j]) <=> Earned(vector.cases[j])
    BY <1>1, AuthorizedFollows DEF AuthorizedIffEarned, Classified
  <2> QED
    BY <2>3, <2>4, <2>5
<1> QED
  BY KeylessInvariance, <1>1, PTL
=============================================================================
