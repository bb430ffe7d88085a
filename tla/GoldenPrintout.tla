--------------------------- MODULE GoldenPrintout ---------------------------
(***************************************************************************)
(* What the generators scripts/gen-*-vectors.py print for the inputs of a  *)
(* vector, which is what the fixtures are transcribed from, and what the   *)
(* checks of GoldenVector have to do with it.                              *)
(***************************************************************************)
EXTENDS GoldenVector, VectorGenerators

\* The members of a right vector.  The families without a generator have
\* theirs from the rule their fixture documents.
Lineaged(v) == [lineage_id |-> Lineage(v.in.ctx_id)]

RightSignature(v) ==
  CASE v.in.algorithm = "strict" -> v.in.found
    [] v.in.algorithm = "ecdsa-p256" ->
         LET raw == Blob("r||s", 64, v.in.key, Hash(v.in.content))
         IN  [signature_value_base64 |-> raw, signature_value_hex |-> raw,
              der_encoded_signature_base64 |-> [raw EXCEPT ![1] = "DER", ![2] = DerLength],
              canonical_form |-> Jcs(v.in.content),
              content_hash |-> Hash(v.in.content)] ++ Lineaged(v)
    [] OTHER -> PrintDidKey(v.in.key, v.in.content) ++ Lineaged(v)

RightChange(v) ==
  CASE v.in.shape = "entry" ->
         [verdict |-> <<EnvelopeVerdict(v.in.entry, v.in.served)>>]
    [] v.in.shape = "secret" ->
         [expected_header |->
            Header(v.in.t, Mac("utf-8", v.in.secret, v.in.t, v.in.body)),
          not_header |->
            Header(v.in.t, Mac("base64", v.in.secret, v.in.t, v.in.body))]
    [] OTHER ->
         [sha256_hex |-> Hex(v.in.id), bucket_2 |-> Prefix(2, Hex(v.in.id)),
          bucket_4 |-> Prefix(4, Hex(v.in.id))]

RightCall(v) ==
  PrintDidKey(v.in.key, v.in.content) ++
  [salt_hex |-> <<v.in.salt>>, hashed_result |-> <<v.in.call.result>>,
   endpoint |-> Salted(v, "endpoint"), arguments |-> Salted(v, "arguments"),
   result |-> Salted(v, "result"), request_id |-> Salted(v, "request_id"),
   derived_from |-> Derived(v.in.tree),
   idempotency_key |-> <<"acdp-mcp-", Hash(v.in.content)>>,
   provenance |-> Provenance(v)]

RightChain(v) ==
  LET digests == <<Hash(v.in.evidence), VerdictDigest(v.in.verdict),
                   AsOfDigest(v.in.verdict)>>
  IN  [evidence_digest |-> digests[1], carried_evidence_digest |-> digests[1],
       verdict_digest |-> digests[2], carried_verdict_digest |-> digests[2],
       as_of_digest |-> digests[3], carried_as_of_digest |-> digests[3]]

RightReceipt(v) ==
  PrintKey(v.in.key) ++ PrintSigned(v.in.key, v.in.unsigned) ++
  [assembled |-> <<v.in.unsigned, Sign(v.in.key, Hash(v.in.unsigned))>>]

Right(v) ==
  CASE v.family \in {"can", "lin", "anc"} -> PrintAnchored(v.in.content) ++ Lineaged(v)
    [] v.family = "sig" -> RightSignature(v)
    [] v.family = "trust" -> PrintDidKey(v.in.key, v.in.content) ++ Lineaged(v)
    [] v.family = "rev" ->
         PrintDidKey(v.in.key, v.in.content) ++ Lineaged(v) ++
         [revoked_key_fingerprint |-> Fingerprint(Public(v.in.revoked.key))]
    [] v.family = "fp" -> PrintFingerprint(v.in.form, v.in.key)
    [] v.family = "rec" -> RightChange(v)
    [] v.family = "mcp" -> RightCall(v)
    [] v.family = "chain" -> RightChain(v)
    [] v.family \in {"rcpt", "lhr"} -> RightReceipt(v)
    [] v.family = "retrieval" ->
         [content_hash |-> Hash(v.in.content),
          signature_value_base64 |-> Sign(v.in.key, Hash(v.in.content))] ++ Lineaged(v)
    [] OTHER -> [signature_value_base64 |-> Sign(v.in.key, Hash(v.in.unsigned))]

\* The members no check looks at, and those it looks at only beside another.
Unread(v) ==
  {"public_key_base64", "fingerprint", "not_bucket_4"}
  \cup (IF Has(v.pins, "sha256_hex") THEN {} ELSE {"content_hash_field_value"})
  \cup (IF Has(v.pins, "did_key") THEN {} ELSE {"key_id"})
  \cup (IF v.family \in {"sig", "rev", "mcp", "trust"} /\ v.in.ctx_id = "missing"
          THEN {"lineage_id"} ELSE {})
  \cup (IF v.family = "sig" /\ v.in.algorithm = "ecdsa-p256"
          THEN IF v.in.outcome = "failure"
                 THEN {"signature_value_base64", "signature_value_hex"}
                 ELSE {"der_encoded_signature_base64"}
          ELSE {})
  \cup (IF v.family = "rev" /\ v.in.revoked.key = "missing"
          THEN {"revoked_key_fingerprint"} ELSE {})

\* The members of v that are printed and compared are as printed.
Agrees(v, printout) ==
  \A member \in (DOMAIN v.pins \cap DOMAIN printout) \ Unread(v) :
    v.pins[member] = printout[member]

\* Each member of a vector that passes, as far as it is compared, is what the
\* generator prints for the inputs: no stale or swapped value survives,
\* whichever other members are absent.
AcceptedIsGenerated ==
  \A i \in Judged("True") : Agrees(fixture[i], Right(fixture[i]))

\* The inputs of a flawed vector are such as no fixture may have (an unsound
\* key or body, authorities that differ, a revocation signed by the key it
\* revokes).  That last rule is not applied where the public key is absent.
Excused(v) == v.family = "rev" /\ ~Has(v.pins, "public_key_hex")

\* Every vector that is transcribed unchanged from the generator's output,
\* whichever optional members it leaves out, passes: no check is stricter
\* than what the fixtures are made by, and none stops short of an answer.
\* And none passes whose inputs no fixture may have, though it agrees with
\* the printout for them.
LabelDecides ==
  \A i \in DOMAIN answers :
    LET v == fixture[i]
    IN  /\ v.label = "right" =>
             answers[i] = IF v.family \in {"can", "lin", "anc"} /\ Descriptive(v)
                            THEN "None" ELSE "True"
        /\ v.label = "flawed" /\ answers[i] = "True" => Excused(v)
=============================================================================
