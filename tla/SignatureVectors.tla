-------------------------- MODULE SignatureVectors --------------------------
(***************************************************************************)
(* The checks of scripts/conformance-runner.py for canonicalization,       *)
(* hashes, lineage identifiers, signatures, signed revocations and key     *)
(* fingerprints.  Each is the sequence of its comparisons on a vector.     *)
(***************************************************************************)
EXTENDS VectorTerms

\* ---- can-, lin-, anc-: in is [has_input, content, ctx_id] ---------------

Arithmetic == {"canonical_form", "sha256_hex", "lineage_id"}

Descriptive(v) ==
  ~v.in.has_input /\ \A member \in Arithmetic : ~Has(v.pins, member)

\* Mutant of CanonicalTests: content_hash_field_value is not compared.
CanonicalTestsWithoutField(v) ==
  IF Descriptive(v) THEN <<"none">>
  ELSE <<Test(v.in.content # Unencodable),
         Pinned(v.pins, "canonical_form", Jcs(v.in.content)),
         Pinned(v.pins, "sha256_hex", Hex(Jcs(v.in.content))),
         Pinned(v.pins, "lineage_id", Lineage(v.in.ctx_id))>>

\* check_canonicalization_and_hash
CanonicalTests(v) ==
  IF Descriptive(v) THEN <<"none">>
  ELSE <<Test(v.in.content # Unencodable),
         Pinned(v.pins, "canonical_form", Jcs(v.in.content)),
         Pinned(v.pins, "sha256_hex", Hex(Jcs(v.in.content))),
         Test({"sha256_hex", "content_hash_field_value"} \subseteq DOMAIN v.pins =>
                v.pins.content_hash_field_value = Prefixed(v.pins.sha256_hex)),
         Pinned(v.pins, "lineage_id", Lineage(v.in.ctx_id))>>

\* ---- sig-: in has key, content and ctx_id -------------------------------

\* _check_lineage
LineageTest(v) ==
  Test(v.in.ctx_id # "missing" /\ Has(v.pins, "lineage_id") =>
         v.pins.lineage_id = Lineage(v.in.ctx_id))

\* _canonicalize_and_hash: here nobody catches what canonicalize raises.
ContentTests(v) ==
  <<RaiseUnless(v.in.content # Unencodable),
    Pinned(v.pins, "canonical_form", Jcs(v.in.content)),
    Pinned(v.pins, "content_hash", Hash(v.in.content))>>

SignatureTests(pins, sig) ==
  <<Pinned(pins, "signature_value_hex", sig),
    Pinned(pins, "signature_value_base64", sig)>>

\* The seed, and the public key derived from it.
KeyTests(v) ==
  <<Test(v.in.key # "missing"), Test(v.in.key # "malformed"),
    Pinned(v.pins, "public_key_hex", Public(v.in.key))>>

\* The identifier of the key in the signature of the request body: pins has
\* key_id when that signature is there and not empty, Null if it has none.
KeyIdTest(v) ==
  Test({"did_key", "key_id"} \subseteq DOMAIN v.pins =>
         v.pins.key_id = KeyId(v.pins.did_key))

\* check_ed25519_vector.  The signature is made here and verified at once,
\* which cannot fail.
Ed25519Tests(v) ==
  KeyTests(v)
  \o <<Pinned(v.pins, "did_key", DidKey(v.in.key)), KeyIdTest(v)>>
  \o ContentTests(v)
  \o SignatureTests(v.pins, Sign(v.in.key, Hash(v.in.content)))
  \o <<LineageTest(v)>>

\* ECDSA signatures are not recomputed.  What stands in the fixture is
\* <<form, length, key, hash>>: form "r||s", "DER" or "noise", and key and
\* hash what it is a signature by and of.
Blob(form, length, key, hash) == <<form, length, key, hash>>
VerifiesAs(form, blob, v) ==
  blob[1] = form /\ blob[3] = v.in.key /\ blob[4] = Hash(v.in.content)

\* Mutant of NegativeTests: the blob need not be a valid signature.
NegativeTestsUnverified(v) ==
  IF ~Has(v.pins, "der_encoded_signature_base64") THEN <<"fail">>
  ELSE LET blob == v.pins.der_encoded_signature_base64
       IN  <<Test(blob[2] > 0), Test(blob[1] = "DER"), Test(blob[2] # 64)>>

\* A vector that must be refused for its wire form alone.  A length of 0
\* stands for base64 that does not decode.
NegativeTests(v) ==
  IF ~Has(v.pins, "der_encoded_signature_base64") THEN <<"fail">>
  ELSE LET blob == v.pins.der_encoded_signature_base64
       IN  <<Test(blob[2] > 0), Test(blob[1] = "DER"), Test(blob[2] # 64),
             Test(VerifiesAs("DER", blob, v))>>

PositiveTests(v) ==
  IF ~Has(v.pins, "signature_value_base64") THEN <<"fail">>
  ELSE LET blob == v.pins.signature_value_base64
       IN  <<Test(blob[2] > 0), Test(blob[2] = 64),
             Pinned(v.pins, "signature_value_hex", blob),
             Test(VerifiesAs("r||s", blob, v))>>

\* check_ecdsa_p256_vector: the key is a point, missing or malformed when it
\* is not on the curve.
P256Tests(v) ==
  <<Test(v.in.key # "missing"), Test(v.in.key # "malformed")>>
  \o ContentTests(v)
  \o (IF v.in.outcome = "failure" THEN NegativeTests(v) ELSE PositiveTests(v))
  \o <<LineageTest(v)>>

\* check_ed25519_strict_negative: in has what the arithmetic finds, pins the
\* three answers the fixture expects of it, points whether each listed
\* encoding decodes and is of small order.
Found == {"loose_equation_holds", "public_key_small_order", "r_small_order"}

StrictTests(v) ==
  <<Test(v.in.pins_rejection), RaiseUnless(v.in.decodes), Test(v.in.s_reduced)>>
  \o <<Test(Found \subseteq DOMAIN v.pins /\ \A f \in Found : v.pins[f] = v.in.found[f])>>
  \o [i \in DOMAIN v.in.points |->
        CASE v.in.points[i] = "small" -> "ok"
          [] v.in.points[i] = "large" -> "fail"
          [] OTHER -> "raise"]

\* ---- rev-: in has also type, visibility, since and revoked --------------

\* The fingerprint the body revokes; in.revoked is [key, fingerprint] with
\* key "missing" when the fixture does not have the revoked key itself.
RevokedFingerprint(v) == v.in.revoked.fingerprint

\* The signer is looked up in the fixture, not derived from its seed.
NotSelfSigned(v) ==
  Test(Has(v.pins, "public_key_hex") =>
         Fingerprint(v.pins.public_key_hex) # RevokedFingerprint(v))

RevokedKeyTest(v) ==
  LET derived == Fingerprint(Public(v.in.revoked.key))
  IN  Test(v.in.revoked.key # "missing" =>
             /\ derived = Get(v.pins, "revoked_key_fingerprint")
             /\ derived = RevokedFingerprint(v))

\* check_revocation_vector
RevocationTests(v) ==
  Ed25519Tests(v)
  \o <<Test(v.in.type = "key-revocation"), Test(v.in.visibility = "public"),
       Test(RevokedFingerprint(v)[1] = "sha256:"), Test(v.in.since = "canonical"),
       NotSelfSigned(v), RevokedKeyTest(v)>>

\* ---- trust-: in has also list -------------------------------------------

\* The golden body of check_trust_vector: list is [type, issuer, valid_from,
\* valid_until, bound], bound saying of each entry that its registry_did is
\* the did:web of its origin.
TrustBodyTests(v) ==
  Ed25519Tests(v)
  \o <<Test(v.in.list.type = "acdp:trust-list"),
       Test(Get(v.pins, "did_key") = v.in.list.issuer),
       Test(v.in.list.valid_from < v.in.list.valid_until)>>
  \o [i \in DOMAIN v.in.list.bound |-> Test(v.in.list.bound[i])]

\* ---- fp-: in is [algorithm, key, form, point] ---------------------------

\* The bytes of the key are <<form, key>>: form "public key" (32 bytes), "02"
\* or "03" (a compressed point), "04" (another length) or "not hex"; point is
\* the declared uncompressed point, as the compressed one it would give.
CompressedForms == {"02", "03"}

\* check_fingerprint_vector
FingerprintTests(v) ==
  LET bytes == <<v.in.form, v.in.key>>
  IN  <<Test(v.in.key # "missing" /\ Has(v.pins, "key_fingerprint")),
        Test(v.in.form # "not hex"),
        Test(v.in.algorithm = "ed25519" => v.in.form = "public key"),
        Test(v.in.algorithm = "ecdsa-p256" =>
               /\ v.in.form \in CompressedForms
               /\ v.in.point # Null => bytes = v.in.point),
        Test(Get(v.pins, "key_fingerprint") = Fingerprint(bytes))>>
=============================================================================
