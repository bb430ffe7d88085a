--------------------------- MODULE ReceiptVectors ---------------------------
(***************************************************************************)
(* The checks of scripts/conformance-runner.py for what a registry signs:  *)
(* receipts, lineage-head receipts and the digests of a chain verdict; and *)
(* the two golden examples of examples/retrieval.                          *)
(***************************************************************************)
EXTENDS SignatureVectors

\* ---- rcpt- and lhr-: in has key, unsigned and producer ------------------

\* The assembled object, <<its members, its signature>>, is what was signed
\* and the signature computed here.
AssembledTests(v, sig) ==
  <<Test(Has(v.pins, "assembled") => v.pins.assembled[1] = v.in.unsigned),
    Test(Has(v.pins, "assembled") => v.pins.assembled[2] = sig)>>

\* What the two kinds of receipt have in common, up to the signature.
SignedTests(v) ==
  KeyTests(v)
  \o <<Pinned(v.pins, "canonical_form", Jcs(v.in.unsigned)),
       Pinned(v.pins, "receipt_hash", Hash(v.in.unsigned))>>
  \o SignatureTests(v.pins, Sign(v.in.key, Hash(v.in.unsigned)))

\* registry is the authority of registry_did, "" if it is no did:web.
SameAuthority(unsigned, others) ==
  Test(unsigned.registry # "" /\ \A o \in others : o = unsigned.registry)

\* check_receipt_vector
ReceiptTests(v) ==
  LET unsigned == v.in.unsigned
  IN  SignedTests(v)
      \o <<Test(v.in.producer # "missing" =>
                  unsigned.key_fingerprint = Fingerprint(Public(v.in.producer)))>>
      \o AssembledTests(v, Sign(v.in.key, Hash(unsigned)))
      \o <<SameAuthority(unsigned, {unsigned.origin, unsigned.ctx_registry})>>

\* Mutant of FirstVersion: the rule is applied to every version.
EveryVersion(unsigned) ==
  Test(unsigned.lineage_id = Lineage(unsigned.head_ctx_id))

\* Only the first version of a lineage names it.
FirstVersion(unsigned) ==
  Test(unsigned.head_version = 1 =>
         unsigned.lineage_id = Lineage(unsigned.head_ctx_id))

\* check_lineage_head_receipt_vector
HeadReceiptTests(v) ==
  LET unsigned == v.in.unsigned
  IN  SignedTests(v)
      \o AssembledTests(v, Sign(v.in.key, Hash(unsigned)))
      \o <<Test(unsigned.receipt_version = "acdp-lhr/1"),
           SameAuthority(unsigned, {unsigned.ctx_registry}),
           Test(unsigned.head_status \notin {"superseded", "malformed"}),
           Test(unsigned.as_of = "canonical"),
           Test(unsigned.head_version >= 1),
           FirstVersion(unsigned)>>

\* ---- chain-: in is [evidence, verdict, loads, asked] --------------------

\* A verdict is [seen, as_of, rest, roots, whole]: seen what it says as of
\* an instant, rest what only the whole verdict says, whole whether it has
\* all the members the projection takes.
AsOfDigest(verdict) ==
  IF verdict.as_of = "none" THEN Null
  ELSE Hash(<<verdict.as_of, verdict.roots, verdict.seen>>)
VerdictDigest(verdict) ==
  Hash(<<verdict.as_of, verdict.roots, verdict.seen, verdict.rest>>)

\* check_chain_kat.  Every comparison is made, and a digest that is absent
\* reads as null, which is what a verdict without as_of must have.
ChainTests(v) ==
  IF ~v.in.loads THEN <<"fail">>
  ELSE <<RaiseUnless(v.in.verdict.whole \/ v.in.verdict.as_of = "none"),
         Soft(Get(v.pins, "evidence_digest") = Hash(v.in.evidence)),
         Soft(Get(v.pins, "carried_evidence_digest") = Hash(v.in.evidence)),
         Soft(Get(v.pins, "verdict_digest") = VerdictDigest(v.in.verdict)),
         Soft(Get(v.pins, "carried_verdict_digest") = VerdictDigest(v.in.verdict)),
         Soft(Get(v.pins, "as_of_digest") = AsOfDigest(v.in.verdict)),
         Soft(Get(v.pins, "carried_as_of_digest") = AsOfDigest(v.in.verdict)),
         Soft(v.in.asked = <<v.in.verdict.roots, v.in.verdict.as_of>>)>>

\* ---- examples/retrieval -------------------------------------------------

\* check_golden_retrieval_example.  The key is that of sig-001.
RetrievalTests(v) ==
  <<RaiseUnless(Has(v.pins, "content_hash")),
    Test(Get(v.pins, "content_hash") = Hash(v.in.content)),
    RaiseUnless(Has(v.pins, "signature_value_base64")),
    Test(Get(v.pins, "signature_value_base64")
           = Sign(v.in.key, Get(v.pins, "content_hash"))),
    RaiseUnless(Has(v.pins, "lineage_id")),
    Test(Get(v.pins, "lineage_id") = Lineage(v.in.ctx_id))>>

\* check_golden_receipt_example: copied and in.body are the four members that
\* receipt and body must agree on, origin among them; in.key is the
\* registry's key, in.producer that of sig-001.  A signature that is missing
\* or unreadable is caught as one that does not verify.
ReceiptExampleTests(v) ==
  LET unsigned == v.in.unsigned
  IN  <<Test(v.in.exists),
        Test(Get(v.pins, "signature_value_base64") = Sign(v.in.key, Hash(unsigned))),
        Read(unsigned, "content_hash", Hash(v.in.content)),
        IF Has(v.in, "body") THEN Read(unsigned, "copied", v.in.body) ELSE "raise",
        Read(unsigned, "key_fingerprint", Fingerprint(Public(v.in.producer))),
        IF Has(unsigned, "registry") THEN SameAuthority(unsigned, {unsigned.origin})
                                     ELSE "raise">>
=============================================================================
