---------------------------- MODULE VectorTerms ----------------------------
(***************************************************************************)
(* What the golden vectors of schemas/conformance are made of.  Hashes,    *)
(* signatures and encodings are free constructors: two terms are equal     *)
(* only if they were made from equal parts.  A term is a tuple whose first *)
(* component names the constructor.                                        *)
(*                                                                         *)
(* A vector is [family, in, pins, label]: in holds what the check computes *)
(* from, pins maps the members it compares with to the terms the fixture   *)
(* has for them, and label, which no check reads, says how it came about:  *)
(* "right", "tampered" (members stale or missing) or "flawed" (inputs that *)
(* no fixture may have).                                                   *)
(*                                                                         *)
(* One comparison of a check answers "ok", "fail" (fail() is called and    *)
(* the check returns False), "note" (fail() is called and the check goes   *)
(* on), "raise" (an exception that nobody catches) or "none" (a            *)
(* descriptive vector: the check returns None).                            *)
(***************************************************************************)
EXTENDS Naturals, Sequences

Null == <<"null">>
Unencodable == <<"unencodable">>   \* an object JCS has no form for

Jcs(object) == <<"jcs", object>>
Hex(term) == <<"hex sha256", term>>
Prefixed(hex) == <<"sha256:", hex>>
Hash(object) == Prefixed(Hex(Jcs(object)))
Lineage(ctx_id) == <<"lin:sha256:", ctx_id>>

Public(key) == <<"public key", key>>
Sign(key, term) == <<"ed25519", key, term>>
\* key_fingerprint
Fingerprint(public) == Prefixed(Hex(public))
\* bytes([0xED, 0x01]) + raw key, in base58-btc
DidKey(key) == <<"did:key:z", Public(key)>>
KeyId(did) == <<"did # its last part", did>>

Has(pins, member) == member \in DOMAIN pins
\* dict.get
Get(pins, member) == IF Has(pins, member) THEN pins[member] ELSE Null

Test(holds) == IF holds THEN "ok" ELSE "fail"
Soft(holds) == IF holds THEN "ok" ELSE "note"
RaiseUnless(holds) == IF holds THEN "ok" ELSE "raise"

\* object[member] == term, read without a default.
Read(object, member, term) ==
  IF Has(object, member) THEN Test(object[member] = term) ELSE "raise"

\* "member in exp and computed != exp[member]": what is not pinned is not
\* compared.
Pinned(pins, member, term) == Test(Has(pins, member) => pins[member] = term)
=============================================================================
