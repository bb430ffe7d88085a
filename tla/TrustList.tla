----------------------------- MODULE TrustList -----------------------------
(***************************************************************************)
(* One call of trust_evaluate (scripts/conformance-runner.py): whether a   *)
(* registry trust list vouches for a body, and by which of its entries;    *)
(* and the comparison check_trust_vector makes with the answer.            *)
(*                                                                         *)
(* What the code reads is abstracted to what it compares:                  *)
(*   list     [valid_from, valid_until, entries]                           *)
(*   entry    [origin, registry_did, pinned, pins, required_profiles,      *)
(*            valid_from, valid_until, excludes]; pinned says whether the  *)
(*            entry has receipt_key_fingerprints, an absent end of the     *)
(*            window is 0 or beyond every instant, and excludes holds the  *)
(*            dimensions of its scope that the body falls outside of       *)
(*   case     [authority, origin, receipt, capabilities, T, expected]      *)
(*   receipt, capabilities   with a member present                         *)
(***************************************************************************)
EXTENDS Naturals, Sequences

CONSTANTS
  Origins, Keys, Profiles,
  Lists,            \* the trust lists
  Cases             \* the evaluations asked for

ReceiptsProfile == "acdp-registry-receipts"
Dimensions == {"scope_agent", "scope_did_method", "scope_type"}

Entry ==
  [origin : Origins, registry_did : Origins, pinned : BOOLEAN,
   pins : SUBSET Keys, required_profiles : SUBSET Profiles,
   valid_from : Nat, valid_until : Nat, excludes : SUBSET Dimensions]

\* The outcomes from best to worst: _TRUST_PRECEDENCE.
Precedence ==
  <<"trusted", "expired", "out_of_scope", "untrusted_registry", "list_invalid">>
Outcomes == {Precedence[p] : p \in 1..5}
Rank(outcome) == CHOOSE p \in 1..5 : Precedence[p] = outcome

\* What the answer gives as the reason: of the whole list, or of one entry.
ListReasons == {"", "origin_mismatch", "list_window", "no_entry"}
EntryReasons ==
  {"", "registry_mismatch", "receipt_required", "receipt_key_unpinned",
   "profile_missing", "entry_window"} \cup Dimensions

\* entry_index counts from 1; 0 stands for an answer without the member.
Answer ==
  [outcome : Outcomes, reason : ListReasons \cup EntryReasons,
   entry_index : Nat, profiles_checked : BOOLEAN]

NoAnswer == [outcome |-> "list_invalid", reason |-> "", entry_index |-> 0,
             profiles_checked |-> FALSE]

TrustList == [valid_from : Nat, valid_until : Nat, entries : Seq(Entry)]
Case ==
  [authority : Origins, origin : Origins,
   receipt : [present : BOOLEAN, registry_did : Origins, key : Keys],
   capabilities : [present : BOOLEAN, profiles : SUBSET Profiles],
   T : Nat, expected : Answer]

ASSUME TrustAssumption ==
  /\ \A l \in Lists : l \in TrustList
  /\ \A c \in Cases : c \in Case

VARIABLES
  tl, case,         \* the arguments
  pc,               \* control point
  i,                \* entries already looked at
  best,             \* the best entry so far, 0 before there is one
  out,              \* what trust_evaluate returned
  ret               \* "none", then the answer of the comparison

vars == <<tl, case, pc, i, best, out, ret>>

Entries == tl.entries
Receipt == case.receipt
Capabilities == case.capabilities

\* The tests of the loop body.
Within(t, window) == window.valid_from <= t /\ t < window.valid_until

RegistryMismatch(e) == Receipt.present /\ Receipt.registry_did # e.registry_did
\* Mutant of ReceiptRequired: only the pins ask for a receipt, not the
\* required profile.
ReceiptRequiredByPins(e) == e.pinned /\ ~Receipt.present

ReceiptRequired(e) ==
  (e.pinned \/ ReceiptsProfile \in e.required_profiles) /\ ~Receipt.present
Unpinned(e) == e.pinned /\ Receipt.key \notin e.pins
\* Mutant of ProfileMissing: unknown capabilities count as none.
ProfileMissingUnlessKnown(e) == ~Capabilities.present /\ e.required_profiles # {}

ProfileMissing(e) ==
  Capabilities.present /\ ~(e.required_profiles \subseteq Capabilities.profiles)

\* The first of them that fails gives the reason; "" is the None of an entry
\* that trusts the body.
Reason(e) ==
  CASE RegistryMismatch(e) -> "registry_mismatch"
    [] ~RegistryMismatch(e) /\ ReceiptRequired(e) -> "receipt_required"
    [] ~RegistryMismatch(e) /\ ~ReceiptRequired(e) /\ Unpinned(e) ->
         "receipt_key_unpinned"
    [] OTHER ->
         IF ProfileMissing(e) THEN "profile_missing"
         ELSE IF ~Within(case.T, e) THEN "entry_window"
         ELSE IF "scope_agent" \in e.excludes THEN "scope_agent"
         ELSE IF "scope_did_method" \in e.excludes THEN "scope_did_method"
         ELSE IF "scope_type" \in e.excludes THEN "scope_type"
         ELSE ""

OutcomeOf(reason) ==
  CASE reason = "" -> "trusted"
    [] reason = "entry_window" -> "expired"
    [] reason \in Dimensions -> "out_of_scope"
    [] OTHER -> "untrusted_registry"

EntryRank(e) == Rank(OutcomeOf(Reason(e)))

Applies(e) == e.origin = case.origin

\* The locals of a call that has not taken a step yet.
Locals ==
  /\ pc = "start"
  /\ i = 0
  /\ best = 0
  /\ out = NoAnswer
  /\ ret = "none"

Init == tl \in Lists /\ case \in Cases /\ Locals

Return(outcome, reason, index) ==
  /\ out' = [outcome |-> outcome, reason |-> reason, entry_index |-> index,
             profiles_checked |-> Capabilities.present]
  /\ pc' = "compare"
  /\ UNCHANGED <<tl, case, i, best, ret>>

\* The ctx_id's authority is not the registry the body names.
OriginMismatch ==
  /\ pc = "start"
  /\ case.authority # case.origin
  /\ Return("untrusted_registry", "origin_mismatch", 0)

OutsideListWindow ==
  /\ pc = "start"
  /\ case.authority = case.origin
  /\ ~Within(case.T, tl)
  /\ Return("expired", "list_window", 0)

EnterLoop ==
  /\ pc = "start"
  /\ case.authority = case.origin
  /\ Within(case.T, tl)
  /\ pc' = "loop"
  /\ UNCHANGED <<tl, case, i, best, out, ret>>

SkipEntry ==
  /\ pc = "loop"
  /\ i < Len(Entries)
  /\ ~Applies(Entries[i + 1])
  /\ i' = i + 1
  /\ UNCHANGED <<tl, case, pc, best, out, ret>>

\* Mutant of Better: a later entry of the same rank replaces the earlier one.
AsGood == best = 0 \/ EntryRank(Entries[i + 1]) <= EntryRank(Entries[best])

\* Mutant of Better: the first entry that applies is taken, whatever its
\* outcome.
FirstWins == best = 0

Better == best = 0 \/ EntryRank(Entries[i + 1]) < EntryRank(Entries[best])

EvaluateEntry ==
  /\ pc = "loop"
  /\ i < Len(Entries)
  /\ Applies(Entries[i + 1])
  /\ best' = IF Better THEN i + 1 ELSE best
  /\ i' = i + 1
  /\ UNCHANGED <<tl, case, pc, out, ret>>

NoEntry ==
  /\ pc = "loop"
  /\ i = Len(Entries)
  /\ best = 0
  /\ Return("untrusted_registry", "no_entry", 0)

Finish ==
  /\ pc = "loop"
  /\ i = Len(Entries)
  /\ best # 0
  /\ LET reason == Reason(Entries[best])
     IN  Return(OutcomeOf(reason), reason, best)

\* check_trust_vector: got against the case's expectation.
Compare ==
  /\ pc = "compare"
  /\ ret' = IF out = case.expected THEN "True" ELSE "False"
  /\ pc' = "returned"
  /\ UNCHANGED <<tl, case, i, best, out>>

Next ==
  \/ OriginMismatch
  \/ OutsideListWindow
  \/ EnterLoop
  \/ SkipEntry
  \/ EvaluateEntry
  \/ NoEntry
  \/ Finish
  \/ Compare

\* A plain call on one thread.
Spec == Init /\ [][Next]_vars /\ WF_vars(Next)
----------------------------------------------------------------------------
TypeOK ==
  /\ tl \in TrustList
  /\ case \in Case
  /\ pc \in {"start", "loop", "compare", "returned"}
  /\ i \in 0..Len(Entries)
  /\ best \in 0..i
  /\ out \in Answer
  /\ ret \in {"none", "True", "False"}

Answered == pc \in {"compare", "returned"}

\* Whether an entry vouches for the body, said without an order of tests.
Vouches(e) ==
  /\ e.origin = case.origin
  /\ Receipt.present => e.registry_did = Receipt.registry_did
  /\ ReceiptsProfile \in e.required_profiles => Receipt.present
  /\ e.pinned => Receipt.present /\ Receipt.key \in e.pins
  /\ Capabilities.present => e.required_profiles \subseteq Capabilities.profiles
  /\ e.valid_from <= case.T /\ case.T < e.valid_until
  /\ e.excludes = {}

\* A body is trusted exactly when its ctx_id and its origin agree, the list is
\* in force and some entry vouches for it, wherever in the list it stands: no
\* entry before it hides it and no missing receipt slips past its pins.
TrustedIffVouchedFor ==
  Answered =>
    (out.outcome = "trusted" <=>
       /\ case.authority = case.origin
       /\ Within(case.T, tl)
       /\ \E j \in 1..Len(Entries) : Vouches(Entries[j]))

\* The entry an answer names is the first of the best: an auditor who reads
\* the list top down finds no earlier entry that is as good.
FirstOfTheBest ==
  Answered /\ out.entry_index # 0 =>
    /\ out.entry_index <= Len(Entries)
    /\ Applies(Entries[out.entry_index])
    /\ out.outcome = OutcomeOf(Reason(Entries[out.entry_index]))
    /\ \A j \in 1..Len(Entries) :
         Applies(Entries[j]) =>
           /\ Rank(out.outcome) <= EntryRank(Entries[j])
           /\ j < out.entry_index => Rank(out.outcome) < EntryRank(Entries[j])
=============================================================================
