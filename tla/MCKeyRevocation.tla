-------------------------- MODULE MCKeyRevocation --------------------------
(***************************************************************************)
(* KeyRevocationPair.  The first call classifies by lists of at most three *)
(* revocations, one of each way to apply or not to apply, with instants    *)
(* around that of the receipt.  On the lists made of Known there is a      *)
(* second call for every such list that holds the first.                   *)
(***************************************************************************)
EXTENDS KeyRevocationPair

Key == {"key", "other key"}
Agent == {"agent", "other agent"}

Made(type, key, trust, agent, controller, since) ==
  [type |-> type, revoked_key_fingerprint |-> key, trust_class |-> trust,
   agent_id |-> agent, revoked_key_controller |-> controller,
   compromised_since |-> since]

BySigner(key, since) ==
  Made("key-revocation", key, "producer-signed", "agent", "other agent", since)
ByRegistry(type, controller, since) ==
  Made(type, "key", "registry-attested", "other agent", controller, since)

Events ==
  UNION {{BySigner("key", t), BySigner("other key", t),
          ByRegistry("acdp:key-revocation", "agent", t),
          ByRegistry("acdp:key-revocation", "other agent", t),
          Made("other", "key", "producer-signed", "agent", "agent", t),
          Made("key-revocation", "key", "other", "agent", "agent", t)} :
           t \in {1, 3}}

Known == {BySigner("key", 1), BySigner("key", 3), BySigner("other key", 1),
          ByRegistry("key-revocation", "agent", 2)}

\* Lists of at most two of the events, and lists of three.
UpTo2(events) ==
  {<< >>} \cup {<<x>> : x \in events} \cup {<<x, y>> : x, y \in events}
Then(events, rest) == {<<x, y, z>> : x \in events, y, z \in rest}

Lists ==
  UpTo2(Events)
  \cup Then({BySigner("key", 3), BySigner("other key", 3)},
            {BySigner("key", 1), BySigner("other key", 1),
             ByRegistry("acdp:key-revocation", "agent", 1)})
KnownLists ==
  UpTo2(Known)
  \cup Then(Known, {e \in Known : e.compromised_since # 1})

Receipts == {[verified |-> FALSE, current |-> TRUE, created_at |-> 2],
             [verified |-> TRUE, current |-> FALSE, created_at |-> 2]}
            \cup [verified : {TRUE}, current : {TRUE}, created_at : 0..3]

\* The fixture expects the reference answer, or an acceptance.
Asking(lists) ==
  [context : {[key_fingerprint |-> "key", agent_id |-> "agent"]},
   revocations : lists, receipt : Receipts, unknown_lookups : BOOLEAN,
   expected : {Without("not-revoked")}]
SomeRivals == Asking(KnownLists)
Cases ==
  SomeRivals \cup {IF golden THEN [v EXCEPT !.expected = Reference(v)] ELSE v :
                     v \in Asking(Lists), golden \in BOOLEAN}
=============================================================================
