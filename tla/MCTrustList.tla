---------------------------- MODULE MCTrustList ----------------------------
(***************************************************************************)
(* TrustListPair.  The first evaluation is by lists of at most two entries *)
(* that each differ from a vouching entry in one place or two, at instants *)
(* around every window.  The second is by every list of at most two of the *)
(* Telling entries that holds the first: one entry per outcome and per     *)
(* reason the capabilities or the receipt decide.                          *)
(***************************************************************************)
EXTENDS TrustListPair

Origin == {"here", "there"}
Key == {"pinned", "other"}
Profile == {"acdp-registry-receipts", "acdp-log"}
Always == 9

Plain ==
  [origin |-> "here", registry_did |-> "here", pinned |-> FALSE, pins |-> {},
   required_profiles |-> {}, valid_from |-> 0, valid_until |-> Always,
   excludes |-> {}]
Log == [Plain EXCEPT !.required_profiles = {"acdp-log"}]
Late == [Plain EXCEPT !.valid_from = 2]

Telling ==
  {Plain, Log,
   [Plain EXCEPT !.origin = "there"],
   [Plain EXCEPT !.pinned = TRUE, !.pins = {"pinned"}],
   [Plain EXCEPT !.valid_until = 2],
   [Log EXCEPT !.excludes = {"scope_type"}]}

SomeEntries ==
  Telling
  \cup {Late,
        [Plain EXCEPT !.registry_did = "there"],
        [Plain EXCEPT !.pinned = TRUE],
        [Plain EXCEPT !.required_profiles = {"acdp-registry-receipts"}]}
  \cup {[e EXCEPT !.excludes = {d}] : e \in {Plain, Late}, d \in Dimensions}

ListsOf(entries) ==
  {[valid_from |-> 1, valid_until |-> 3, entries |-> l] :
     l \in {<< >>} \cup {<<e>> : e \in entries}
           \cup {<<e, f>> : e, f \in entries}}
SomeRivals == ListsOf(Telling)
SomeLists == ListsOf(SomeEntries)

Ask(authority, receipt, caps, t) ==
  [authority |-> authority, origin |-> "here", receipt |-> receipt,
   capabilities |-> caps, T |-> t,
   expected |-> [outcome |-> "trusted", reason |-> "", entry_index |-> 1,
                 profiles_checked |-> TRUE]]

SomeReceipts ==
  {[present |-> FALSE, registry_did |-> "here", key |-> "other"],
   [present |-> TRUE, registry_did |-> "here", key |-> "pinned"],
   [present |-> TRUE, registry_did |-> "here", key |-> "other"]}

SomeCapabilities ==
  {[present |-> FALSE, profiles |-> {}]}
  \cup {[present |-> TRUE, profiles |-> p] : p \in {{}, Profile}}

SomeCases ==
  {Ask("here", r, c, t) :
     r \in SomeReceipts, c \in SomeCapabilities, t \in 0..3}
  \cup {Ask("there", r, c, 1) : r \in SomeReceipts, c \in SomeCapabilities}
=============================================================================
