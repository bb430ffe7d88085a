----------------------------- MODULE ChangeFeed -----------------------------
(***************************************************************************)
(* The checks of scripts/conformance-runner.py for the change feed: the    *)
(* MAC of a hint, the bucket of an identifier and the envelope of an       *)
(* entry; and for the record an MCP proxy makes of a tool call.            *)
(***************************************************************************)
EXTENDS SignatureVectors

\* What _mcp_derived_from makes of the arguments of a call: see ToolArguments.
CONSTANT Derived(_)

\* ---- rec-, by shape -----------------------------------------------------

\* The key of a MAC is the UTF-8 of the secret or its base64 decoding.
Mac(reading, secret, t, body) == <<"hmac", reading, secret, t, body>>
Header(t, mac) == <<"t=,v1=", t, mac>>

\* check_hint_hmac: in is [secret, t, body]
HintTests(v) ==
  LET under(reading) ==
        Header(v.in.t, Mac(reading, v.in.secret, v.in.t, v.in.body))
  IN  <<RaiseUnless(v.in.secret # "not base64"),
        Soft(Get(v.pins, "expected_header") = under("utf-8")),
        Soft(Get(v.pins, "not_header") = under("base64"))>>

\* The first n digits of a hash.
Prefix(n, hash) == <<"first", n, hash>>

\* check_change_bucket: in is [id, buckets], the second a function from
\* lengths to digits.
BucketTests(v) ==
  LET hash == Hex(v.in.id)
  IN  <<Soft(Get(v.pins, "sha256_hex") = hash),
        Soft(Has(v.pins, "bucket_2") => v.pins.bucket_2 = Prefix(2, hash)),
        Soft(Has(v.pins, "bucket_4") => v.pins.bucket_4 = Prefix(4, hash)),
        Soft(Get(v.pins, "not_bucket_4") # Prefix(4, hash))>>

\* An entry is [kind, recorded_at, ctx_id, superseded_by, lineage_id, event,
\* receipt]: receipt is [ctx_id, at, lineage_id], the receipt of the event
\* for a lifecycle entry and of the registry for another; event is
\* [ctx_id, what].  served is what the registry serves of it, a sequence of none or one.
Accept == "accept"

\* What is recorded: the context the evidence is of, by the kind of entry.
ContextBound(entry) ==
  CASE entry.kind = "lifecycle" ->
         entry.event.ctx_id = entry.ctx_id /\ entry.receipt.ctx_id = entry.ctx_id
    [] entry.kind = "key_revocation" -> entry.receipt.ctx_id = entry.ctx_id
    [] OTHER -> entry.receipt.ctx_id = entry.superseded_by

Evidence(entry) ==
  IF entry.kind = "lifecycle" THEN <<entry.event>> ELSE <<entry.receipt>>

\* Mutant of EnvelopeVerdict: the lineage of a superseded entry is not looked at.
VerdictWithoutLineage(entry, served) ==
  IF entry.recorded_at # entry.receipt.at THEN "recorded_at_mismatch"
  ELSE IF entry.kind \notin {"lifecycle", "key_revocation", "superseded"}
    THEN "unknown_kind"
  ELSE IF ~ContextBound(entry) THEN "ctx_id_mismatch"
  ELSE IF entry.kind = "superseded" /\ entry.superseded_by = entry.ctx_id
    THEN "self_supersession"
  ELSE IF served # Evidence(entry) THEN "evidence_mismatch"
  ELSE Accept

\* change_envelope_verdict: the reason to reject, in this order, or Accept.
EnvelopeVerdict(entry, served) ==
  IF entry.recorded_at # entry.receipt.at THEN "recorded_at_mismatch"
  ELSE IF entry.kind \notin {"lifecycle", "key_revocation", "superseded"}
    THEN "unknown_kind"
  ELSE IF ~ContextBound(entry) THEN "ctx_id_mismatch"
  ELSE IF entry.kind = "superseded" /\ entry.superseded_by = entry.ctx_id
    THEN "self_supersession"
  ELSE IF entry.kind = "superseded" /\ entry.receipt.lineage_id # entry.lineage_id
    THEN "lineage_id_mismatch"
  ELSE IF served # Evidence(entry) THEN "evidence_mismatch"
  ELSE Accept

\* check_change_envelope: in is [whole, entry, served], whole saying that the
\* entry has the members read without a default.
EnvelopeTests(v) ==
  IF ~v.in.whole THEN <<"raise">>
  ELSE <<Test(Get(v.pins, "verdict") = <<EnvelopeVerdict(v.in.entry, v.in.served)>>)>>

\* ---- mcp- : in adds salt, tree, call, record and returned ---------------

\* A digest of a part of the call; all but that of the endpoint are salted.
Salted(v, part) ==
  IF part = "endpoint" THEN Hash(v.in.call[part])
  ELSE Hash(<<v.in.salt, v.in.call[part]>>)
CallParts == {"endpoint", "arguments", "result", "request_id"}

Provenance(v) == <<v.in.ctx_id, Hash(v.in.content), v.in.salt>>

\* Read without a default after the salt.
Expected == CallParts \cup {"hashed_result", "derived_from", "content_hash",
                           "idempotency_key"}

\* A digest of the call stands in the record the body carries and among what
\* the vector expects.  That of the endpoint is read without a default.
CallTest(v, part) ==
  IF part = "endpoint" /\ ~Has(v.in.record, part) THEN "raise"
  ELSE Soft(/\ Get(v.pins, part) = Salted(v, part)
            /\ Get(v.in.record, part) = Salted(v, part))

\* salted says whether the record's member is True.
FlagsTest(v) ==
  Soft(/\ Has(v.in.record, "is_error") /\ v.in.record.is_error = v.in.call.is_error
       /\ v.in.record.salted)

\* The body's derived_from, in the model a member of the record, is looked at
\* only if the expected one is right.
DerivedTest(v) ==
  LET right == Get(v.pins, "derived_from") = Derived(v.in.tree)
  IN  IF right /\ ~Has(v.in.record, "derived_from") THEN "raise"
      ELSE Soft(right /\ v.in.record.derived_from = Derived(v.in.tree))

\* What is returned: << >> when it lacks a member that was hashed.
ReturnedTest(v) ==
  IF v.in.returned = << >> THEN "raise"
  ELSE Soft(v.in.returned = <<v.in.call.result, v.in.call.upstream>>)

\* check_mcp_vector.  From the hashed result on, every comparison is made.
ToolResultTests(v) ==
  Ed25519Tests(v)
  \o <<Test(v.in.salt # "not base64url"), Test(v.in.salt # "not 32 bytes"),
       RaiseUnless(Has(v.pins, "salt_hex")),
       Test(Get(v.pins, "salt_hex") = <<v.in.salt>>),
       RaiseUnless(Expected \subseteq DOMAIN v.pins),
       Soft(Get(v.pins, "hashed_result") = <<v.in.call.result>>),
       CallTest(v, "endpoint"), CallTest(v, "arguments"),
       CallTest(v, "result"), CallTest(v, "request_id"),
       FlagsTest(v), DerivedTest(v),
       Soft(Get(v.pins, "idempotency_key")
              = <<"acdp-mcp-", Get(v.pins, "content_hash")>>),
       ReturnedTest(v),
       Soft(Get(v.pins, "provenance") = Provenance(v))>>
=============================================================================
