-------------------------- MODULE VectorGenerators --------------------------
(***************************************************************************)
(* What scripts/gen-0.2.0-vectors.py to gen-0.5.0-vectors.py print for     *)
(* transcription into the fixtures, as functions from members to terms.    *)
(***************************************************************************)
EXTENDS VectorTerms

\* Two printouts under one another; of a member printed twice, the first
\* counts.  (This is ++ of TLC, with a definition that can be reasoned about.)
f ++ g == [m \in DOMAIN f \cup DOMAIN g |-> IF m \in DOMAIN f THEN f[m] ELSE g[m]]

\* vec of gen-0.2.0: the printout of a can- vector.
PrintCanonical(content) ==
  [canonical_form |-> Jcs(content), sha256_hex |-> Hex(Jcs(content))]

\* anc_004 of gen-0.5.0.
PrintAnchored(content) ==
  PrintCanonical(content) ++ [content_hash_field_value |-> Hash(content)]

\* A key pair, as all generators print it.
PrintKey(key) ==
  [public_key_hex |-> Public(key), public_key_base64 |-> Public(key)]

\* sig_003 of gen-0.2.0.
PrintDidKey(key, content) ==
  PrintKey(key) ++
  [did_key |-> DidKey(key), key_id |-> KeyId(DidKey(key)),
   fingerprint |-> Fingerprint(Public(key)),
   canonical_form |-> Jcs(content), content_hash |-> Hash(content),
   signature_value_hex |-> Sign(key, Hash(content)),
   signature_value_base64 |-> Sign(key, Hash(content))]

\* rcpt_001 of gen-0.2.0 and signed_vector of gen-0.3.0.
PrintSigned(key, unsigned) ==
  [canonical_form |-> Jcs(unsigned), receipt_hash |-> Hash(unsigned),
   signature_value_hex |-> Sign(key, Hash(unsigned)),
   signature_value_base64 |-> Sign(key, Hash(unsigned))]

\* The fingerprints gen-0.2.0 prints: of a raw key, and of a point of P-256
\* in its compressed form.
PrintFingerprint(form, key) == [key_fingerprint |-> Fingerprint(<<form, key>>)]
=============================================================================
