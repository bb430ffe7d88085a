----------------------------- MODULE MCVectors -----------------------------
(***************************************************************************)
(* GoldenVector on every printout of the generators for some inputs, with  *)
(* at most two members left out and at most one taken from the printout    *)
(* for other inputs.                                                       *)
(*                                                                         *)
(* The branch of a kl- fixture is Keyless, that of every other family here *)
(* GoldenVector: an initial state has one fixture for one of them, and the *)
(* other has answered before it starts.                                    *)
(***************************************************************************)
EXTENDS GoldenPrintout, ToolArguments, MCKeyless

A == <<"content a">>
B == <<"content b">>

Restricted(f, members) == [m \in members |-> f[m]]

V(family, in) == [family |-> family, in |-> in, pins |-> << >>, label |-> "right"]

\* Inputs, sound and flawed, of each family; other is what a stale member
\* was printed for.
Can == [has_input |-> TRUE, content |-> A, ctx_id |-> "c1"]
OtherCan == [Can EXCEPT !.content = B, !.ctx_id = "c2"]

Sig == [algorithm |-> "", key |-> "k1", content |-> A, ctx_id |-> "c1",
        outcome |-> "success"]
OtherSig == [Sig EXCEPT !.key = "k2", !.content = B, !.ctx_id = "c2"]
BadSig(in) ==
  {[in EXCEPT !.key = "missing"], [in EXCEPT !.key = "malformed"],
   [in EXCEPT !.content = Unencodable]}

Strict == [algorithm |-> "strict", ctx_id |-> "missing", pins_rejection |-> TRUE, decodes |-> TRUE,
           s_reduced |-> TRUE, points |-> <<"small", "small">>,
           found |-> [f \in Found |-> TRUE]]
BadStrict ==
  {[Strict EXCEPT !.pins_rejection = FALSE], [Strict EXCEPT !.decodes = FALSE],
   [Strict EXCEPT !.s_reduced = FALSE], [Strict EXCEPT !.points[2] = "large"],
   [Strict EXCEPT !.points[1] = "no point"]}

RevokedKey == [key |-> "k3", fingerprint |-> Fingerprint(Public("k3"))]
Rev == [Sig EXCEPT !.algorithm = "ed25519"] @@
       [type |-> "key-revocation", visibility |-> "public", since |-> "canonical",
        revoked |-> RevokedKey]
OtherRev == [Rev EXCEPT !.key = "k2", !.content = B, !.ctx_id = "c2",
                        !.revoked.key = "k4"]
BadRev ==
  BadSig(Rev) \cup
  {[Rev EXCEPT !.type = "data_snapshot"], [Rev EXCEPT !.visibility = "restricted"],
   [Rev EXCEPT !.since = "other"], [Rev EXCEPT !.revoked.fingerprint = <<"noise">>],
   [Rev EXCEPT !.revoked.key = "k4"],
   [Rev EXCEPT !.revoked = [key |-> "missing", fingerprint |-> Fingerprint(Public("k1"))]]}

List == [type |-> "acdp:trust-list", issuer |-> DidKey("k1"), valid_from |-> 1,
         valid_until |-> 2, bound |-> <<TRUE, TRUE>>]
Trust == Sig @@ [list |-> List]
OtherTrust == OtherSig @@ [list |-> List]
BadTrust ==
  {[Trust EXCEPT !.list.type = "data_snapshot"], [Trust EXCEPT !.list.issuer = DidKey("k2")],
   [Trust EXCEPT !.list.valid_until = 1], [Trust EXCEPT !.list.bound[2] = FALSE]}

Fp == [algorithm |-> "ecdsa-p256", key |-> "k1", form |-> "03", point |-> <<"03", "k1">>]
Fps == {Fp, [Fp EXCEPT !.point = Null], [Fp EXCEPT !.form = "02", !.point = Null],
        [Fp EXCEPT !.algorithm = "ed25519", !.form = "public key", !.point = Null]}
OtherFp == [Fp EXCEPT !.key = "k2"]
BadFp == {[Fp EXCEPT !.key = "missing"], [Fp EXCEPT !.form = "not hex"],
          [Fp EXCEPT !.form = "04"], [Fp EXCEPT !.form = "02"],
          [Fp EXCEPT !.point = <<"03", "k2">>],
          [Fp EXCEPT !.algorithm = "ed25519", !.form = "04"]}

Receipt ==
  [key |-> "r1", producer |-> "k1",
   unsigned |-> [registry |-> "reg", origin |-> "reg", ctx_registry |-> "reg",
                 key_fingerprint |-> Fingerprint(Public("k1")), created_at |-> 1]]
OtherReceipt == [Receipt EXCEPT !.key = "r2", !.unsigned.created_at = 2]
BadReceipt ==
  {[Receipt EXCEPT !.key = "missing"], [Receipt EXCEPT !.key = "malformed"],
   [Receipt EXCEPT !.producer = "k2"], [Receipt EXCEPT !.unsigned.registry = ""],
   [Receipt EXCEPT !.unsigned.origin = "mirror"],
   [Receipt EXCEPT !.unsigned.ctx_registry = "mirror"]}

Head1 ==
  [key |-> "r1",
   unsigned |-> [receipt_version |-> "acdp-lhr/1", registry |-> "reg",
                 ctx_registry |-> "reg", head_ctx_id |-> "c1", head_version |-> 1,
                 head_status |-> "active", as_of |-> "canonical",
                 lineage_id |-> Lineage("c1")]]
Head2 == [Head1 EXCEPT !.unsigned.head_ctx_id = "c2", !.unsigned.head_version = 2]
BadHead ==
  {[Head1 EXCEPT !.unsigned.receipt_version = "acdp-lhr/2"],
   [Head1 EXCEPT !.unsigned.ctx_registry = "mirror"],
   [Head1 EXCEPT !.unsigned.head_status = "superseded"],
   [Head1 EXCEPT !.unsigned.head_status = "malformed"],
   [Head1 EXCEPT !.unsigned.as_of = "other"],
   [Head1 EXCEPT !.unsigned.head_version = 0],
   [Head1 EXCEPT !.unsigned.lineage_id = Lineage("c2")]}

Verdict1 == [seen |-> "s1", as_of |-> "now", rest |-> "w1", roots |-> "roots", whole |-> TRUE]
Chain == [evidence |-> "e1", verdict |-> Verdict1, loads |-> TRUE, asked |-> <<"roots", "now">>]
ChainNow == [Chain EXCEPT !.verdict.as_of = "none", !.asked = <<"roots", "none">>]
OtherChain == [Chain EXCEPT !.evidence = "e2", !.verdict.seen = "s2"]
BadChain == {[Chain EXCEPT !.loads = FALSE], [Chain EXCEPT !.verdict.whole = FALSE],
             [Chain EXCEPT !.asked = <<"other roots", "now">>]}

Hint == [shape |-> "secret", secret |-> "s1", t |-> 1, body |-> "b1"]
OtherHint == [Hint EXCEPT !.secret = "s2"]
Bucket == [shape |-> "bucket_of", id |-> "lin1"]
OtherBucket == [Bucket EXCEPT !.id = "lin2"]

Of(kind, text) == Node(kind, text, << >>, << >>)
Text(text) == Of("string", text)
Trees ==
  {Node("object", "", <<x, y, Node("list", "", <<z, Text("a1")>>, << >>)>>, keys) :
     x, y, z \in {Text("text"), Text("a1"), Text("a2"), Text("a3")},
     keys \in {<<1, 2, 3>>, <<3, 1, 2>>, <<2, 3, 1>>}}

Call == [endpoint |-> "e", arguments |-> "a", result |-> "r", request_id |-> "q",
         is_error |-> FALSE, upstream |-> "meta"]
Mcp(tree) ==
  LET bare == [salt |-> "salt", call |-> Call]
      record == [part \in CallParts |-> Salted([in |-> bare], part)] @@
                [is_error |-> FALSE, salted |-> TRUE, derived_from |-> FirstSeen(tree)]
  IN  Sig @@ bare @@ [record |-> record, tree |-> tree, returned |-> <<"r", "meta">>]
Tree == Node("object", "", <<Text("a2"), Text("a1")>>, <<2, 1>>)
Mcp1 == Mcp(Tree)
OtherMcp == [Mcp1 EXCEPT !.key = "k2", !.content = B, !.ctx_id = "c2", !.salt = "salt 2",
                         !.call.result = "r2", !.tree = Text("a3")]
BadMcp ==
  BadSig(Mcp1) \cup
  {[Mcp1 EXCEPT !.salt = "not base64url"], [Mcp1 EXCEPT !.salt = "not 32 bytes"],
   [Mcp1 EXCEPT !.record.result = Hash(<<"salt 2", "r">>)], [Mcp1 EXCEPT !.record.is_error = TRUE],
   [Mcp1 EXCEPT !.record.salted = FALSE], [Mcp1 EXCEPT !.returned = << >>],
   [Mcp1 EXCEPT !.record.derived_from = <<"a2", "a1">>],
   [Mcp1 EXCEPT !.returned = <<"r", "other meta">>],
   [Mcp1 EXCEPT !.returned = <<"r2", "meta">>]}
  \cup {[Mcp1 EXCEPT !.record = Restricted(@, DOMAIN @ \ {m})] :
           m \in DOMAIN Mcp1.record \ {"salted"}}

\* Envelopes: two contexts, instants and lineages.
Ids == {"c1", "c2"}
Entries ==
  {[kind |-> sort, recorded_at |-> t, ctx_id |-> c, superseded_by |-> s,
    lineage_id |-> l, event |-> [ctx_id |-> e, what |-> "retracted"],
    receipt |-> [ctx_id |-> r, at |-> 1, lineage_id |-> "l1"]] :
     sort \in {"lifecycle", "key_revocation", "superseded", "hearsay"}, t \in 1..2,
     c, s, e, r \in Ids, l \in {"l1", "l2"}}

Enveloped(entry, served) ==
  [shape |-> "entry", whole |-> TRUE, entry |-> entry, served |-> served]
Envelopes == {Enveloped(e, s) : e \in Entries, s \in {<< >>, <<[ctx_id |-> "c1", what |-> "retracted"]>>,
  <<[ctx_id |-> "c1", at |-> 1, lineage_id |-> "l1"]>>, <<[ctx_id |-> "c2", at |-> 1, lineage_id |-> "l1"]>>}}

Pins(family, in) == Right(V(family, in))
Complete(family, in) == [V(family, in) EXCEPT !.pins = Pins(family, in)]

\* The printout for in without the members left out, with the stale ones
\* taken from that for other.
Transcribed(family, in, other, left_out, stale) ==
  LET right == Pins(family, in)
      pins == [m \in DOMAIN right \ left_out |->
                 IF m \in stale THEN Pins(family, other)[m] ELSE right[m]]
  IN  [V(family, in) EXCEPT !.pins = pins, !.label = "tampered"]

SmallSubsets(S) == {{}} \cup {{x} : x \in S} \cup {{x, y} : x, y \in S}

Tampered(family, in, other) ==
  LET members == DOMAIN Pins(family, in) \cap DOMAIN Pins(family, other)
  IN  {Transcribed(family, in, other, left_out, stale) :
         left_out \in SmallSubsets(members), stale \in {{}} \cup {{m} : m \in members}}

\* Right: nothing stale, and only optional members left out.
RightWithout(family, in, optional) ==
  {[Transcribed(family, in, in, left_out, {}) EXCEPT !.label = "right"] :
     left_out \in SmallSubsets(optional \cap DOMAIN Pins(family, in))}

Flawed(family, ins) ==
  {[Transcribed(family, in, in, left_out, {}) EXCEPT !.label = "flawed"] :
     in \in ins, left_out \in {{}, {"public_key_hex"}, {"did_key"}}}

Signed == {"public_key_hex", "key_id", "did_key", "canonical_form", "content_hash",
           "signature_value_hex", "signature_value_base64", "lineage_id"}
\* A signature object without key_id.
Unidentified ==
  [Complete("sig", Sig) EXCEPT !.pins.key_id = Null, !.label = "tampered"]
P256 == [Sig EXCEPT !.algorithm = "ecdsa-p256"]
P256Negative == [P256 EXCEPT !.outcome = "failure"]
OtherP256(in) == [in EXCEPT !.key = "k2", !.content = B, !.ctx_id = "c2"]

\* Signatures in the wrong wire form.
Blobs == {Blob(form, length, key, Hash(content)) :
            form \in {"r||s", "DER", "noise"}, length \in {0, 64, DerLength},
            key \in {"k1", "k2"}, content \in {A, B}}
Wired ==
  {[Complete("sig", in) EXCEPT !.pins = [m \in {member} |-> blob], !.label = "tampered"] :
     in \in {P256, P256Negative}, blob \in Blobs,
     member \in {"signature_value_base64", "der_encoded_signature_base64"}}

\* The two golden examples: what they have of the members, right or stale.
Retrieved == {"content_hash", "signature_value_base64", "lineage_id"}
Shown(family, in, members, stale, other, label) ==
  [V(family, in) EXCEPT
     !.pins = [m \in members |-> Pins(family, IF m \in stale THEN other ELSE in)[m]],
     !.label = label]
Retrievals ==
  {Shown("retrieval", Sig, Retrieved, {}, Sig, "right")} \cup
  {Shown("retrieval", Sig, members, stale, OtherSig, "tampered") :
     members \in SUBSET Retrieved, stale \in SUBSET Retrieved}

Example ==
  [Receipt EXCEPT !.unsigned = @ @@ [content_hash |-> Hash(A), copied |-> "body 1"]] @@
  [exists |-> TRUE, content |-> A, body |-> "body 1"]
BadExample ==
  {[Example EXCEPT !.exists = FALSE], [Example EXCEPT !.content = B],
   [Example EXCEPT !.body = "body 2"], [Example EXCEPT !.producer = "k2"],
   [Example EXCEPT !.unsigned.registry = ""],
   [Example EXCEPT !.unsigned.origin = "mirror"]}
  \cup {[Example EXCEPT !.unsigned = Restricted(@, DOMAIN @ \ {m})] :
           m \in {"content_hash", "copied", "key_fingerprint", "registry"}}
  \cup {Restricted(Example, DOMAIN Example \ {"body"})}
ReceiptExamples ==
  LET signature == {"signature_value_base64"}
  IN  {Shown("example", Example, signature, {}, Example, "right"),
       Shown("example", Example, {}, {}, Example, "tampered"),
       Shown("example", Example, signature, signature,
             [Example EXCEPT !.key = "r2"], "tampered")}
      \cup {Shown("example", in, signature, {}, in, "flawed") : in \in BadExample}

\* Entries with the verdict they deserve, and with another one.
Enveloping ==
  {Complete("rec", in) : in \in Envelopes}
  \cup {[Complete("rec", in) EXCEPT !.pins.verdict = <<Accept>>, !.label = "tampered"] :
           in \in Envelopes}
  \cup {[Complete("rec", in) EXCEPT !.in.whole = FALSE, !.label = "flawed"] :
           in \in {Enveloped(e, << >>) : e \in Entries}}
  \cup {[V("rec", [shape |-> "none"]) EXCEPT !.pins = [m \in {} |-> Null], !.label = "flawed"]}

AcceptedEnvelopes ==
  {v \in {Complete("rec", in) : in \in Envelopes} : v.pins.verdict = <<Accept>>}

\* One vector of each answer, to follow one another in a fixture.
Mixed ==
  {Complete("rec", Bucket), Complete("can", Can),
   [Complete("rec", Bucket) EXCEPT !.pins.bucket_2 = Prefix(2, Hex("lin2")), !.label = "tampered"],
   [Complete("rec", Hint) EXCEPT !.in.secret = "not base64", !.label = "flawed"],
   [V("can", [Can EXCEPT !.has_input = FALSE]) EXCEPT !.pins = [m \in {} |-> Null]]}

Singles ==
  RightWithout("can", Can, Arithmetic \cup {"content_hash_field_value"})
  \cup Tampered("can", Can, OtherCan)
  \cup {[V("can", [Can EXCEPT !.has_input = FALSE]) EXCEPT !.pins = [m \in {} |-> Null]],
        [Complete("can", [Can EXCEPT !.content = Unencodable]) EXCEPT !.label = "flawed"]}
  \cup RightWithout("sig", Sig, Signed) \cup Tampered("sig", Sig, OtherSig)
  \cup RightWithout("sig", [Sig EXCEPT !.ctx_id = "missing"], Signed)
  \cup Flawed("sig", BadSig(Sig)) \cup {Unidentified}
  \cup RightWithout("sig", P256, {"canonical_form", "content_hash", "signature_value_hex"})
  \cup RightWithout("sig", P256Negative, {"canonical_form", "content_hash", "signature_value_base64"})
  \cup Tampered("sig", P256, OtherP256(P256)) \cup Flawed("sig", BadSig(P256))
  \cup Wired
  \cup RightWithout("sig", Strict, {}) \cup Flawed("sig", BadStrict)
  \cup Tampered("sig", Strict, [Strict EXCEPT !.found = [f \in Found |-> FALSE]])
  \cup RightWithout("rev", Rev, Signed)
  \cup RightWithout("rev", [Rev EXCEPT !.revoked.key = "missing"], Signed)
  \cup Tampered("rev", Rev, OtherRev) \cup Flawed("rev", BadRev)
  \cup RightWithout("trust", Trust, Signed \ {"did_key"})
  \cup Tampered("trust", Trust, OtherTrust) \cup Flawed("trust", BadTrust)
  \cup UNION {RightWithout("fp", in, {}) \cup Tampered("fp", in, OtherFp) : in \in Fps}
  \cup Flawed("fp", BadFp)
  \cup RightWithout("rcpt", Receipt, Signed \cup {"receipt_hash", "assembled"})
  \cup Tampered("rcpt", Receipt, OtherReceipt) \cup Flawed("rcpt", BadReceipt)
  \cup UNION {RightWithout("lhr", in, Signed \cup {"receipt_hash", "assembled"}) : in \in {Head1, Head2}}
  \cup Tampered("lhr", Head1, Head2) \cup Flawed("lhr", BadHead)
  \cup RightWithout("chain", Chain, {}) \cup RightWithout("chain", ChainNow, {"as_of_digest"})
  \cup Tampered("chain", Chain, OtherChain) \cup Flawed("chain", BadChain)
  \cup RightWithout("rec", Hint, {}) \cup Tampered("rec", Hint, OtherHint)
  \cup Flawed("rec", {[Hint EXCEPT !.secret = "not base64"]})
  \cup RightWithout("rec", Bucket, {"bucket_2", "bucket_4"})
  \cup Tampered("rec", Bucket, OtherBucket)
  \cup {[v EXCEPT !.pins = v.pins @@ [not_bucket_4 |-> Prefix(4, Hex(id))],
                  !.label = IF id = "lin1" THEN "flawed" ELSE "right"] :
          v \in RightWithout("rec", Bucket, {}), id \in {"lin1", "lin2"}}
  \cup UNION {RightWithout("mcp", Mcp(tree), {}) : tree \in Trees}
  \cup RightWithout("mcp", Mcp1, Signed \ {"content_hash"})
  \cup Tampered("mcp", Mcp1, OtherMcp) \cup Flawed("mcp", BadMcp)
  \cup Retrievals \cup ReceiptExamples
  \cup Enveloping

SomeFixtures ==
  {<<v>> : v \in Singles}
  \cup {<<v, w>> : v, w \in AcceptedEnvelopes}
  \cup {<<v, w, Complete("rec", Bucket)>> : v, w \in Mixed}

NoFixture == << >>
SomeTable == Vector("classification", << >>)

KeylessIdle ==
  /\ vector = SomeTable
  /\ pc = "returned" /\ k = 0 /\ got = << >> /\ ok = TRUE /\ ret = "False"

GoldenIdle ==
  /\ fixture = NoFixture
  /\ tests = << >> /\ sound = TRUE /\ reported = 0 /\ answers = << >>

DispatchInit == (Init /\ GoldenIdle) \/ (GoldenInit /\ KeylessIdle)
DispatchNext ==
  \/ Next /\ UNCHANGED goldenVars
  \/ GoldenNext /\ UNCHANGED vars
DispatchSpec ==
  /\ DispatchInit
  /\ [][DispatchNext]_<<vars, goldenVars>>
  /\ WF_<<vars, goldenVars>>(DispatchNext)
=============================================================================
