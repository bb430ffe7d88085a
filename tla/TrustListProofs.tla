-------------------------- MODULE TrustListProofs --------------------------
(***************************************************************************)
(* Proofs about trust_evaluate for every list and every case: the loop     *)
(* keeps the first of the best entries, and a body is trusted exactly when *)
(* an entry vouches for it.  For two evaluations, the rank of an outcome   *)
(* is the least over a set of entries; it does not rise when the set       *)
(* grows or when the capabilities are forgotten.                           *)
(***************************************************************************)
EXTENDS TrustListPair, TLAPS

\* The order of the outcomes, out of the CHOOSE.
LEMMA RankFacts ==
  /\ Rank("trusted") = 1 /\ Rank("expired") = 2 /\ Rank("out_of_scope") = 3
  /\ Rank("untrusted_registry") = 4
<1>1. /\ Precedence[1] = "trusted" /\ Precedence[2] = "expired"
      /\ Precedence[3] = "out_of_scope" /\ Precedence[4] = "untrusted_registry"
      /\ Precedence[5] = "list_invalid"
  BY DEF Precedence
<1>2. 1..5 = {1, 2, 3, 4, 5}
  OBVIOUS
<1>3. /\ "trusted" # "expired" /\ "trusted" # "out_of_scope"
      /\ "trusted" # "untrusted_registry" /\ "trusted" # "list_invalid"
      /\ "expired" # "out_of_scope" /\ "expired" # "untrusted_registry"
      /\ "expired" # "list_invalid" /\ "out_of_scope" # "untrusted_registry"
      /\ "out_of_scope" # "list_invalid"
      /\ "untrusted_registry" # "list_invalid"
  OBVIOUS
<1>4. \A p \in 1..5 : Precedence[p] = "trusted" <=> p = 1
  BY <1>1, <1>2, <1>3
<1>5. \A p \in 1..5 : Precedence[p] = "expired" <=> p = 2
  BY <1>1, <1>2, <1>3
<1>6. \A p \in 1..5 : Precedence[p] = "out_of_scope" <=> p = 3
  BY <1>1, <1>2, <1>3
<1>7. \A p \in 1..5 : Precedence[p] = "untrusted_registry" <=> p = 4
  BY <1>1, <1>2, <1>3
<1>8. Rank("trusted") = 1
  BY <1>4 DEF Rank
<1>9. Rank("expired") = 2
  BY <1>5 DEF Rank
<1>10. Rank("out_of_scope") = 3
  BY <1>6 DEF Rank
<1>11. Rank("untrusted_registry") = 4
  BY <1>7 DEF Rank
<1> QED
  BY <1>8, <1>9, <1>10, <1>11

LEMMA OutcomeNames ==
  /\ "trusted" \in Outcomes /\ "expired" \in Outcomes
  /\ "out_of_scope" \in Outcomes /\ "untrusted_registry" \in Outcomes
<1>1. /\ Precedence[1] = "trusted" /\ Precedence[2] = "expired"
      /\ Precedence[3] = "out_of_scope" /\ Precedence[4] = "untrusted_registry"
  BY DEF Precedence
<1>2. 1 \in 1..5 /\ 2 \in 1..5 /\ 3 \in 1..5 /\ 4 \in 1..5
  OBVIOUS
<1> QED
  BY <1>1, <1>2 DEF Outcomes

LEMMA OutcomeFacts ==
  ASSUME NEW reason \in EntryReasons
  PROVE  /\ OutcomeOf(reason) \in Outcomes
         /\ Rank(OutcomeOf(reason)) \in 1..4
         /\ Rank(OutcomeOf(reason)) = 1 <=> reason = ""
         /\ OutcomeOf(reason) = "trusted" <=> reason = ""
<1>1. /\ "trusted" \in Outcomes /\ "expired" \in Outcomes
      /\ "out_of_scope" \in Outcomes /\ "untrusted_registry" \in Outcomes
  BY OutcomeNames
<1>2. 1 \in 1..4 /\ 2 \in 1..4 /\ 3 \in 1..4 /\ 4 \in 1..4
  OBVIOUS
<1>3. CASE reason = ""
  <2>1. OutcomeOf(reason) = "trusted"
    BY <1>3 DEF OutcomeOf, Dimensions
  <2>2. Rank(OutcomeOf(reason)) = 1
    BY <2>1, RankFacts
  <2> QED
    BY <1>1, <1>2, <1>3, <2>1, <2>2
<1>4. CASE reason = "entry_window"
  <2>1. OutcomeOf(reason) = "expired" /\ reason # ""
    BY <1>4 DEF OutcomeOf, Dimensions
  <2>2. Rank(OutcomeOf(reason)) = 2 /\ OutcomeOf(reason) # "trusted"
    BY <2>1, RankFacts
  <2>3. Rank(OutcomeOf(reason)) # 1 /\ Rank(OutcomeOf(reason)) \in 1..4
    BY <2>2
  <2> QED
    BY <1>1, <2>1, <2>2, <2>3
<1>5. CASE reason \in Dimensions
  <2>1. OutcomeOf(reason) = "out_of_scope" /\ reason # ""
    BY <1>5 DEF OutcomeOf, Dimensions
  <2>2. Rank(OutcomeOf(reason)) = 3 /\ OutcomeOf(reason) # "trusted"
    BY <2>1, RankFacts
  <2>3. Rank(OutcomeOf(reason)) # 1 /\ Rank(OutcomeOf(reason)) \in 1..4
    BY <2>2
  <2> QED
    BY <1>1, <2>1, <2>2, <2>3
<1>6. CASE reason # "" /\ reason # "entry_window" /\ reason \notin Dimensions
  <2>1. OutcomeOf(reason) = "untrusted_registry"
    BY <1>6 DEF OutcomeOf
  <2>2. Rank(OutcomeOf(reason)) = 4 /\ OutcomeOf(reason) # "trusted"
    BY <2>1, RankFacts
  <2>3. Rank(OutcomeOf(reason)) # 1 /\ Rank(OutcomeOf(reason)) \in 1..4
    BY <2>2
  <2> QED
    BY <1>1, <1>6, <2>1, <2>2, <2>3
<1> QED
  BY <1>3, <1>4, <1>5, <1>6

LEMMA ReasonType ==
  ASSUME NEW e
  PROVE  Reason(e) \in EntryReasons
BY DEF Reason, EntryReasons, Dimensions

LEMMA EntryRankType ==
  ASSUME NEW e
  PROVE  EntryRank(e) \in 1..4
BY ReasonType, OutcomeFacts DEF EntryRank

\* The order of the tests does not matter to whether any fails.
LEMMA VouchingIsNoReason ==
  ASSUME NEW e \in Entry, case \in Case
  PROVE  Vouches(e) <=> Applies(e) /\ Reason(e) = ""
<1>1. e.excludes \subseteq Dimensions
  BY DEF Entry
<1>2. e.excludes = {} <=> /\ "scope_agent" \notin e.excludes
                          /\ "scope_did_method" \notin e.excludes
                          /\ "scope_type" \notin e.excludes
  BY <1>1 DEF Dimensions
<1> QED
  BY <1>2 DEF Vouches, Applies, Reason, RegistryMismatch, ReceiptRequired,
     Unpinned, ProfileMissing, Within

LEMMA ListFacts ==
  ASSUME tl \in TrustList
  PROVE  /\ Len(Entries) \in Nat
         /\ \A j \in 1..Len(Entries) : Entries[j] \in Entry
BY DEF TrustList, Entries
----------------------------------------------------------------------------
\* best is the first of the best among the first n entries.
BestBelow(n) ==
  /\ best = 0 => \A j \in 1..n : ~Applies(Entries[j])
  /\ best # 0 =>
       /\ best \in 1..n
       /\ Applies(Entries[best])
       /\ \A j \in 1..n : Applies(Entries[j]) =>
            /\ EntryRank(Entries[best]) <= EntryRank(Entries[j])
            /\ j < best => EntryRank(Entries[best]) < EntryRank(Entries[j])

Looping ==
  /\ pc = "start" => i = 0 /\ best = 0
  /\ pc = "loop" =>
       case.authority = case.origin /\ Within(case.T, tl) /\ BestBelow(i)

\* How a call can have been answered.
Rejected ==
  /\ out.entry_index = 0
  /\ \/ case.authority # case.origin /\ out.outcome = "untrusted_registry"
     \/ /\ case.authority = case.origin /\ ~Within(case.T, tl)
        /\ out.outcome = "expired"
     \/ /\ case.authority = case.origin /\ Within(case.T, tl)
        /\ best = 0 /\ BestBelow(Len(Entries))
        /\ out.outcome = "untrusted_registry"

Decided ==
  /\ case.authority = case.origin
  /\ Within(case.T, tl)
  /\ best # 0 /\ BestBelow(Len(Entries))
  /\ out.entry_index = best
  /\ out.outcome = OutcomeOf(Reason(Entries[best]))

Settled ==
  Answered => /\ Rejected \/ Decided
              /\ out.profiles_checked = Capabilities.present

IInv == TypeOK /\ Looping /\ Settled

\* An evaluation that starts, whoever asks.
Start == tl \in TrustList /\ case \in Case /\ Locals

LEMMA StartIInv == Start => IInv
<1> SUFFICES ASSUME Start PROVE IInv
  OBVIOUS
<1>1. tl \in TrustList /\ case \in Case
  BY DEF Start
<1>2. out \in Answer
  <2>1. Precedence[5] \in Outcomes /\ Precedence[5] = "list_invalid"
    BY DEF Outcomes, Precedence
  <2> QED
    BY <2>1 DEF Start, Locals, NoAnswer, Answer, ListReasons
<1>3. Len(Entries) \in Nat
  BY <1>1, ListFacts
<1> QED
  BY <1>1, <1>2, <1>3
     DEF Start, Locals, IInv, TypeOK, Looping, Settled, Answered

\* The call reads its arguments and never writes them.
LEMMA SameArguments ==
  ASSUME tl' = tl, case' = case
  PROVE  /\ Entries' = Entries
         /\ \A j : /\ Applies(Entries[j])' <=> Applies(Entries[j])
                  /\ EntryRank(Entries[j])' = EntryRank(Entries[j])
                  /\ Reason(Entries[j])' = Reason(Entries[j])
<1>1. Entries' = Entries
  BY DEF Entries
<1>2. ASSUME NEW j
      PROVE  Applies(Entries[j])' <=> Applies(Entries[j])
  BY DEF Applies, Entries
<1>3. ASSUME NEW j
      PROVE  /\ EntryRank(Entries[j])' = EntryRank(Entries[j])
             /\ Reason(Entries[j])' = Reason(Entries[j])
  <2>1. Reason(Entries[j])' = Reason(Entries[j])
    BY DEF Reason, RegistryMismatch, ReceiptRequired, Unpinned, ProfileMissing,
       Within, Receipt, Capabilities, Entries
  <2> QED
    BY <2>1 DEF EntryRank
<1> QED
  BY <1>1, <1>2, <1>3

\* What was settled of the answer stays settled while nothing it speaks of
\* moves.
LEMMA SameVerdict ==
  ASSUME UNCHANGED <<tl, case, best, out>>
  PROVE  /\ Rejected => Rejected'
         /\ Decided => Decided'
<1>1. BestBelow(Len(Entries)) => BestBelow(Len(Entries))'
  BY SameArguments DEF BestBelow
<1>2. Reason(Entries[best])' = Reason(Entries[best])
  BY SameArguments
<1> QED
  BY <1>1, <1>2 DEF Rejected, Decided, Within

\* Every return keeps the types and leaves the arguments and best alone.
LEMMA ReturnStep ==
  ASSUME IInv, NEW outcome \in Outcomes,
         NEW reason \in ListReasons \cup EntryReasons, NEW index \in Nat,
         Return(outcome, reason, index)
  PROVE  /\ TypeOK' /\ Looping'
         /\ Entries' = Entries
         /\ out'.outcome = outcome /\ out'.entry_index = index
         /\ out'.profiles_checked = Capabilities'.present
<1>1. out' = [outcome |-> outcome, reason |-> reason, entry_index |-> index,
              profiles_checked |-> Capabilities.present]
  BY DEF Return
<1>2. Capabilities.present \in BOOLEAN
  BY DEF IInv, TypeOK, Case, Capabilities
<1>3. out' \in Answer
  BY <1>1, <1>2 DEF Answer
<1>4. TypeOK'
  BY <1>3 DEF Return, IInv, TypeOK, Entries
<1>5. Looping'
  BY DEF Return, Looping
<1> QED
  BY <1>1, <1>4, <1>5 DEF Return, Entries, Capabilities

LEMMA StepIInv == IInv /\ [Next]_vars => IInv'
<1> SUFFICES ASSUME IInv, [Next]_vars PROVE IInv'
  OBVIOUS
<1>1. /\ tl \in TrustList /\ case \in Case /\ Len(Entries) \in Nat
      /\ i \in 0..Len(Entries) /\ best \in 0..i
  BY ListFacts DEF IInv, TypeOK
<1>2. /\ "untrusted_registry" \in Outcomes /\ "expired" \in Outcomes
      /\ "untrusted_registry" # "trusted" /\ "expired" # "trusted"
  BY OutcomeNames
<1>3. CASE OriginMismatch
  <2>1. /\ Return("untrusted_registry", "origin_mismatch", 0)
        /\ case.authority # case.origin
    BY <1>3 DEF OriginMismatch
  <2>2. "origin_mismatch" \in ListReasons \cup EntryReasons
    BY DEF ListReasons
  <2>3. /\ TypeOK' /\ Looping'
        /\ out'.outcome = "untrusted_registry" /\ out'.entry_index = 0
        /\ out'.profiles_checked = Capabilities'.present
    BY <1>2, <2>1, <2>2, ReturnStep
  <2>4. Rejected'
    BY <1>2, <2>1, <2>3 DEF Return, Rejected
  <2> QED
    BY <2>3, <2>4 DEF IInv, Settled
<1>4. CASE OutsideListWindow
  <2>1. /\ Return("expired", "list_window", 0)
        /\ ~Within(case.T, tl)
    BY <1>4 DEF OutsideListWindow
  <2>2. "list_window" \in ListReasons \cup EntryReasons
    BY DEF ListReasons
  <2>3. /\ TypeOK' /\ Looping'
        /\ out'.outcome = "expired" /\ out'.entry_index = 0
        /\ out'.profiles_checked = Capabilities'.present
    BY <1>2, <2>1, <2>2, ReturnStep
  <2>4. Rejected'
    BY <1>2, <1>4, <2>1, <2>3 DEF Return, Rejected, Within, OutsideListWindow
  <2> QED
    BY <2>3, <2>4 DEF IInv, Settled
<1>5. CASE EnterLoop
  <2>1. TypeOK'
    BY <1>5 DEF EnterLoop, IInv, TypeOK, Entries
  <2>2. Settled'
    BY <1>5 DEF EnterLoop, Settled, Answered
  <2>3. i' = 0 /\ best' = 0
    BY <1>5 DEF EnterLoop, IInv, Looping
  <2>4. BestBelow(i)'
    BY <2>3 DEF BestBelow
  <2> QED
    BY <1>5, <2>1, <2>2, <2>4 DEF EnterLoop, IInv, Looping, Within
<1>6. CASE SkipEntry
  <2>1. TypeOK'
    BY <1>1, <1>6 DEF SkipEntry, IInv, TypeOK, Entries
  <2>2. Settled'
    BY <1>6 DEF SkipEntry, Settled, Answered
  <2>3. BestBelow(i) /\ ~Applies(Entries[i + 1])
    BY <1>6 DEF SkipEntry, IInv, Looping
  <2>4. BestBelow(i + 1)
    <3>1. \A j \in 1..(i + 1) : j \in 1..i \/ j = i + 1
      BY <1>1
    <3> QED
      BY <1>1, <2>3, <3>1 DEF BestBelow
  <2>5. BestBelow(i)'
    BY <1>6, <2>4, SameArguments DEF SkipEntry, BestBelow
  <2> QED
    BY <1>6, <2>1, <2>2, <2>5 DEF SkipEntry, IInv, Looping, Within
<1>7. CASE EvaluateEntry
  <2>1. TypeOK'
    BY <1>1, <1>7 DEF EvaluateEntry, IInv, TypeOK, Entries
  <2>2. Settled'
    BY <1>7 DEF EvaluateEntry, Settled, Answered
  <2>3. BestBelow(i) /\ Applies(Entries[i + 1])
    BY <1>7 DEF EvaluateEntry, IInv, Looping
  <2>4. \A j \in 1..(i + 1) : j \in 1..i \/ j = i + 1
    BY <1>1
  <2>5. BestBelow(i)'
    <3>1. CASE Better
      <4>1. best' = i + 1
        BY <1>7, <3>1 DEF EvaluateEntry
      <4>2. \A j \in 1..i : Applies(Entries[j]) =>
              EntryRank(Entries[i + 1]) < EntryRank(Entries[j])
        BY <1>1, <2>3, <3>1, EntryRankType DEF Better, BestBelow
      <4>3. \A j \in 1..(i + 1) : Applies(Entries[j]) =>
              /\ EntryRank(Entries[i + 1]) <= EntryRank(Entries[j])
              /\ j < i + 1 => EntryRank(Entries[i + 1]) < EntryRank(Entries[j])
        BY <1>1, <2>4, <4>2, EntryRankType
      <4> QED
        BY <1>1, <1>7, <2>3, <4>1, <4>3, SameArguments
           DEF EvaluateEntry, BestBelow
    <3>2. CASE ~Better
      <4>1. best' = best /\ best # 0 /\ best \in 1..i
        BY <1>7, <2>3, <3>2 DEF EvaluateEntry, Better, BestBelow
      <4>2. EntryRank(Entries[best]) <= EntryRank(Entries[i + 1])
        BY <3>2, EntryRankType DEF Better
      <4>3. \A j \in 1..(i + 1) : Applies(Entries[j]) =>
              /\ EntryRank(Entries[best]) <= EntryRank(Entries[j])
              /\ j < best => EntryRank(Entries[best]) < EntryRank(Entries[j])
        BY <1>1, <2>3, <2>4, <4>1, <4>2 DEF BestBelow
      <4> QED
        BY <1>1, <1>7, <2>3, <4>1, <4>3, SameArguments
           DEF EvaluateEntry, BestBelow
    <3> QED
      BY <3>1, <3>2
  <2> QED
    BY <1>7, <2>1, <2>2, <2>5 DEF EvaluateEntry, IInv, Looping, Within, BestBelow
<1>8. CASE NoEntry
  <2>1. Return("untrusted_registry", "no_entry", 0)
    BY <1>8 DEF NoEntry
  <2>2. "no_entry" \in ListReasons \cup EntryReasons
    BY DEF ListReasons
  <2>3. /\ TypeOK' /\ Looping' /\ Entries' = Entries
        /\ out'.outcome = "untrusted_registry" /\ out'.entry_index = 0
        /\ out'.profiles_checked = Capabilities'.present
    BY <1>2, <2>1, <2>2, ReturnStep
  <2>4. /\ best = 0 /\ BestBelow(Len(Entries))
        /\ case.authority = case.origin /\ Within(case.T, tl)
    BY <1>8 DEF NoEntry, IInv, Looping
  <2>5. best' = 0 /\ BestBelow(Len(Entries))'
    BY <2>1, <2>3, <2>4, SameArguments DEF Return, BestBelow
  <2>6. Rejected'
    BY <1>2, <2>1, <2>3, <2>4, <2>5 DEF Return, Rejected, Within
  <2> QED
    BY <2>3, <2>6 DEF IInv, Settled
<1>9. CASE Finish
  <2> DEFINE reason == Reason(Entries[best])
  <2>1. Return(OutcomeOf(reason), reason, best)
    BY <1>9 DEF Finish
  <2>2. /\ reason \in ListReasons \cup EntryReasons
        /\ OutcomeOf(reason) \in Outcomes /\ best \in Nat
    <3>1. reason \in EntryReasons
      BY ReasonType
    <3>2. OutcomeOf(reason) \in Outcomes
      <4> HIDE DEF reason
      <4> QED BY <3>1, OutcomeFacts
    <3>3. best \in Nat
      BY <1>1
    <3> QED
      BY <3>1, <3>2, <3>3
  <2>3. /\ TypeOK' /\ Looping' /\ Entries' = Entries
        /\ out'.outcome = OutcomeOf(reason) /\ out'.entry_index = best
        /\ out'.profiles_checked = Capabilities'.present
    <3> HIDE DEF reason
    <3> QED BY <2>1, <2>2, ReturnStep
  <2>4. /\ best # 0 /\ BestBelow(Len(Entries))
        /\ case.authority = case.origin /\ Within(case.T, tl)
    BY <1>9 DEF Finish, IInv, Looping
  <2>5. best' = best /\ tl' = tl /\ case' = case
    BY <2>1 DEF Return
  <2>6. BestBelow(Len(Entries))'
    BY <2>4, <2>5, SameArguments DEF BestBelow
  <2>7. Reason(Entries[best])' = reason
    BY <2>5, SameArguments
  <2>8. Decided'
    BY <2>3, <2>4, <2>5, <2>6, <2>7 DEF Decided, Within
  <2> QED
    BY <2>3, <2>8 DEF IInv, Settled
<1>10. CASE Compare
  <2>1. TypeOK'
    BY <1>10 DEF Compare, IInv, TypeOK, Entries
  <2>2. UNCHANGED <<tl, case, i, best, out>> /\ pc' = "returned"
    BY <1>10 DEF Compare
  <2>3. Rejected \/ Decided
    BY <1>10 DEF Compare, IInv, Settled, Answered
  <2>4. Rejected' \/ Decided'
    BY <2>2, <2>3, SameVerdict
  <2> QED
    BY <1>10, <2>1, <2>2, <2>4
       DEF Compare, IInv, Looping, Settled, Answered, Capabilities
<1>11. CASE UNCHANGED vars
  <2>1. UNCHANGED <<tl, case, pc, i, best, out, ret>>
    BY <1>11 DEF vars
  <2>2. TypeOK'
    BY <2>1 DEF IInv, TypeOK, Entries
  <2>3. Looping'
    BY <2>1, SameArguments DEF IInv, Looping, BestBelow, Within
  <2>4. Settled'
    BY <2>1, SameVerdict DEF IInv, Settled, Answered, Capabilities
  <2> QED
    BY <2>2, <2>3, <2>4 DEF IInv
<1> QED
  BY <1>3, <1>4, <1>5, <1>6, <1>7, <1>8, <1>9, <1>10, <1>11 DEF Next
----------------------------------------------------------------------------
\* The rank of an entry, by what the case says of it and not by the order in
\* which the tests are made.
Identified(c, e) ==
  /\ c.receipt.present => c.receipt.registry_did = e.registry_did
  /\ e.pinned \/ ReceiptsProfile \in e.required_profiles => c.receipt.present
  /\ e.pinned => c.receipt.key \in e.pins
  /\ c.capabilities.present =>
       e.required_profiles \subseteq c.capabilities.profiles

RankFor(c, e) ==
  IF ~Identified(c, e) THEN 4
  ELSE IF ~Within(c.T, e) THEN 2
  ELSE IF e.excludes # {} THEN 3 ELSE 1

ApplyingIn(l, c) == {j \in 1..Len(l.entries) : l.entries[j].origin = c.origin}

\* RanksAs(l, c, r): r is the rank that list l gives the body of case c.
RanksAs(l, c, r) ==
  IF c.authority # c.origin THEN r = 4
  ELSE IF ~Within(c.T, l) THEN r = 2
  ELSE IF ApplyingIn(l, c) = {} THEN r = 4
  ELSE /\ \E j \in ApplyingIn(l, c) : r = RankFor(c, l.entries[j])
       /\ \A j \in ApplyingIn(l, c) : r <= RankFor(c, l.entries[j])

\* What is left of an evaluation that has returned.
Told(c) ==
  /\ c \in Evaluations
  /\ RanksAs(c.tl, c.case, Rank(c.out.outcome))
  /\ c.out.profiles_checked = c.case.capabilities.present

Asked(c) ==
  /\ SameWindow(c.tl, tl)
  /\ HoldsAll(tl, c.tl)
  /\ case = [c.case EXCEPT !.capabilities = case.capabilities]

Remembered ==
  earlier # << >> => earlier = <<First>> /\ Told(First) /\ Asked(First)

PairIInv == IInv /\ Remembered

LEMMA EntryRankIsRankFor ==
  ASSUME case \in Case, NEW e \in Entry
  PROVE  EntryRank(e) = RankFor(case, e)
<1>1. e.excludes = {} <=> /\ "scope_agent" \notin e.excludes
                          /\ "scope_did_method" \notin e.excludes
                          /\ "scope_type" \notin e.excludes
  BY DEF Entry, Dimensions
<1>2. /\ e.pinned \in BOOLEAN /\ Receipt.present \in BOOLEAN
      /\ Capabilities.present \in BOOLEAN
  BY DEF Entry, Case, Receipt, Capabilities
<1>3. CASE ~Identified(case, e)
  <2>1. Reason(e) \in {"registry_mismatch", "receipt_required",
                       "receipt_key_unpinned", "profile_missing"}
    BY <1>2, <1>3 DEF Identified, Reason, RegistryMismatch, ReceiptRequired,
       Unpinned, ProfileMissing, Receipt, Capabilities
  <2>2. OutcomeOf(Reason(e)) = "untrusted_registry"
    <3>1. Reason(e) # "" /\ Reason(e) # "entry_window" /\ Reason(e) \notin Dimensions
      <4> DEFINE r == Reason(e)
      <4>1. r \in {"registry_mismatch", "receipt_required",
                   "receipt_key_unpinned", "profile_missing"}
        BY <2>1
      <4> HIDE DEF r
      <4>2. r # "" /\ r # "entry_window" /\ r \notin Dimensions
        BY <4>1 DEF Dimensions
      <4> QED
        BY <4>2 DEF r
    <3> QED
      BY <3>1 DEF OutcomeOf
  <2> QED
    BY <1>3, <2>2, RankFacts DEF EntryRank, RankFor
<1>4. CASE Identified(case, e)
  <2>1. ~RegistryMismatch(e) /\ ~ReceiptRequired(e) /\ ~Unpinned(e)
        /\ ~ProfileMissing(e)
    BY <1>2, <1>4 DEF Identified, RegistryMismatch, ReceiptRequired, Unpinned,
       ProfileMissing, Receipt, Capabilities
  <2>2. CASE ~Within(case.T, e)
    <3>1. Reason(e) = "entry_window"
      BY <2>1, <2>2 DEF Reason
    <3>2. OutcomeOf(Reason(e)) = "expired"
      BY <3>1 DEF OutcomeOf, Dimensions
    <3> QED
      BY <1>4, <2>2, <3>2, RankFacts DEF EntryRank, RankFor
  <2>3. CASE Within(case.T, e) /\ e.excludes # {}
    <3>1. Reason(e) \in Dimensions
      BY <1>1, <2>1, <2>3 DEF Reason, Dimensions
    <3>2. OutcomeOf(Reason(e)) = "out_of_scope"
      <4> DEFINE r == Reason(e)
      <4>1. r \in Dimensions
        BY <3>1
      <4> HIDE DEF r
      <4>2. OutcomeOf(r) = "out_of_scope"
        BY <4>1 DEF OutcomeOf, Dimensions
      <4> QED
        BY <4>2 DEF r
    <3> QED
      BY <1>4, <2>3, <3>2, RankFacts DEF EntryRank, RankFor
  <2>4. CASE Within(case.T, e) /\ e.excludes = {}
    <3>1. Reason(e) = ""
      BY <1>1, <2>1, <2>4 DEF Reason
    <3>2. OutcomeOf(Reason(e)) = "trusted"
      BY <3>1 DEF OutcomeOf, Dimensions
    <3> QED
      BY <1>4, <2>4, <3>2, RankFacts DEF EntryRank, RankFor
  <2> QED
    BY <2>2, <2>3, <2>4
<1> QED
  BY <1>3, <1>4

LEMMA RankForType ==
  ASSUME NEW c, NEW e
  PROVE  RankFor(c, e) \in 1..4
BY DEF RankFor

\* The loop arrives at the least rank.
LEMMA AnswerRanks ==
  ASSUME IInv, Answered
  PROVE  Told(Evaluation)
<1>1. /\ tl \in TrustList /\ case \in Case /\ out \in Answer
      /\ Len(Entries) \in Nat
      /\ \A j \in 1..Len(Entries) : Entries[j] \in Entry
  BY ListFacts DEF IInv, TypeOK
<1>2. /\ Evaluation \in Evaluations
      /\ Evaluation.tl = tl /\ Evaluation.case = case /\ Evaluation.out = out
  BY <1>1 DEF Evaluation, Evaluations
<1>3. out.profiles_checked = case.capabilities.present
  BY DEF IInv, Settled, Capabilities
<1>4. ApplyingIn(tl, case) = {j \in 1..Len(Entries) : Applies(Entries[j])}
  BY DEF ApplyingIn, Entries, Applies
<1>5. \A j \in ApplyingIn(tl, case) :
        EntryRank(Entries[j]) = RankFor(case, tl.entries[j])
  BY <1>1, <1>4, EntryRankIsRankFor DEF Entries
<1>6. RanksAs(tl, case, Rank(out.outcome))
  <2>1. CASE Rejected
    <3>1. ASSUME best = 0, BestBelow(Len(Entries))
          PROVE  ApplyingIn(tl, case) = {}
      BY <1>4, <3>1 DEF BestBelow
    <3> QED
      BY <2>1, <3>1, RankFacts DEF Rejected, RanksAs
  <2>2. CASE Decided
    <3>1. /\ best \in ApplyingIn(tl, case)
          /\ \A j \in ApplyingIn(tl, case) :
               EntryRank(Entries[best]) <= EntryRank(Entries[j])
          /\ Rank(out.outcome) = EntryRank(Entries[best])
          /\ case.authority = case.origin /\ Within(case.T, tl)
      BY <1>1, <1>4, <2>2 DEF Decided, BestBelow, EntryRank
    <3> QED
      BY <1>5, <3>1 DEF RanksAs
  <2> QED
    BY <2>1, <2>2 DEF IInv, Settled
<1> QED
  BY <1>2, <1>3, <1>6 DEF Told

LEMMA PairInitIInv == PairInit => PairIInv
BY StartIInv, TrustAssumption
   DEF PairInit, Init, Start, PairIInv, Remembered

LEMMA PairStepIInv == PairIInv /\ [PairNext]_pairVars => PairIInv'
<1> SUFFICES ASSUME PairIInv, [PairNext]_pairVars PROVE PairIInv'
  OBVIOUS
<1>1. ASSUME [Next]_vars, UNCHANGED earlier
      PROVE  PairIInv'
  <2>1. IInv'
    BY <1>1, StepIInv DEF PairIInv
  <2>2. tl' = tl /\ case' = case
    BY <1>1 DEF Next, OriginMismatch, OutsideListWindow, EnterLoop, SkipEntry,
       EvaluateEntry, NoEntry, Finish, Compare, Return, vars
  <2>3. First' = First
    BY <1>1 DEF First
  <2>4. Remembered'
    BY <1>1, <2>2, <2>3 DEF PairIInv, Remembered, Asked
  <2> QED
    BY <2>1, <2>4 DEF PairIInv
<1>2. CASE EvaluateAgain
  <2>1. /\ tl \in TrustList /\ case \in Case
    BY DEF PairIInv, IInv, TypeOK
  <2>2. PICK c \in Cases : case' = [case EXCEPT !.capabilities = c.capabilities]
    BY <1>2 DEF EvaluateAgain
  <2>3. /\ tl' \in TrustList /\ case' \in Case
        /\ case' = [case EXCEPT !.capabilities = case'.capabilities]
    <3>1. c \in Case
      BY <2>2, TrustAssumption
    <3>2. tl' \in TrustList
      BY <1>2, <2>1, TrustAssumption, RivalsAssumption DEF EvaluateAgain
    <3> QED
      BY <2>1, <2>2, <3>1, <3>2 DEF Case
  <2>4. Start' => IInv'
    BY StartIInv, PTL
  <2>5. IInv'
    BY <1>2, <2>3, <2>4 DEF EvaluateAgain, Start, Locals
  <2>6. First' = Evaluation /\ earlier' = <<First'>>
    BY <1>2 DEF EvaluateAgain, First
  <2>7. Told(First')
    BY <1>2, <2>6, AnswerRanks DEF EvaluateAgain, Answered, PairIInv
  <2>8. /\ SameWindow(First'.tl, tl') /\ HoldsAll(tl', First'.tl)
        /\ case' = [First'.case EXCEPT !.capabilities = case'.capabilities]
    BY <1>2, <2>3, <2>6 DEF EvaluateAgain, Evaluation
  <2> QED
    BY <2>5, <2>6, <2>7, <2>8 DEF PairIInv, Remembered, Asked
<1> QED
  BY <1>1, <1>2 DEF PairNext, Evaluate, pairVars

LEMMA Invariance == PairSpec => []PairIInv
BY PairInitIInv, PairStepIInv, PTL DEF PairSpec

\* Every list and every case: the types hold, and the loop never reads past
\* the list nor names an entry it has not looked at.
THEOREM TypeCorrect == PairSpec => []TypeOK
<1>1. IInv => TypeOK
  BY DEF IInv
<1>2. PairIInv => TypeOK
  BY <1>1 DEF PairIInv
<1> QED
  BY <1>2, Invariance, PTL

\* Every list and every case: trusted exactly when an entry vouches.
THEOREM TrustIsVouchedFor == PairSpec => []TrustedIffVouchedFor
<1>1. IInv => TrustedIffVouchedFor
  <2> SUFFICES ASSUME IInv, Answered
               PROVE  out.outcome = "trusted" <=>
                        /\ case.authority = case.origin
                        /\ Within(case.T, tl)
                        /\ \E j \in 1..Len(Entries) : Vouches(Entries[j])
    BY DEF TrustedIffVouchedFor
  <2>1. /\ tl \in TrustList /\ case \in Case /\ Len(Entries) \in Nat
        /\ \A j \in 1..Len(Entries) : Entries[j] \in Entry
    BY ListFacts DEF IInv, TypeOK
  <2>2. \A j \in 1..Len(Entries) :
          Vouches(Entries[j]) <=>
            Applies(Entries[j]) /\ Reason(Entries[j]) = ""
    BY <2>1, VouchingIsNoReason
  <2>3. \A j : /\ EntryRank(Entries[j]) \in 1..4
              /\ EntryRank(Entries[j]) = 1 <=> Reason(Entries[j]) = ""
    BY ReasonType, OutcomeFacts DEF EntryRank
  <2>4. CASE Rejected
    <3>1. ASSUME best = 0, BestBelow(Len(Entries))
          PROVE  ~\E j \in 1..Len(Entries) : Vouches(Entries[j])
      BY <2>2, <3>1 DEF BestBelow
    <3> QED
      BY <2>4, <3>1 DEF Rejected
  <2>5. CASE Decided
    <3>1. /\ best \in 1..Len(Entries) /\ Applies(Entries[best])
          /\ \A j \in 1..Len(Entries) : Applies(Entries[j]) =>
               EntryRank(Entries[best]) <= EntryRank(Entries[j])
      BY <2>5 DEF Decided, BestBelow
    <3>2. out.outcome = "trusted" <=> Reason(Entries[best]) = ""
      BY <2>5, ReasonType, OutcomeFacts DEF Decided
    <3>3. ASSUME NEW j \in 1..Len(Entries), Vouches(Entries[j])
          PROVE  Reason(Entries[best]) = ""
      <4>1. Applies(Entries[j]) /\ EntryRank(Entries[j]) = 1
        BY <2>2, <2>3, <3>3
      <4>2. EntryRank(Entries[best]) <= 1 /\ EntryRank(Entries[best]) \in 1..4
        BY <3>1, <3>3, <4>1, EntryRankType
      <4>3. EntryRank(Entries[best]) = 1
        BY <4>2
      <4> QED
        BY <4>3, ReasonType, OutcomeFacts DEF EntryRank
    <3> QED
      BY <2>2, <2>5, <3>1, <3>2, <3>3 DEF Decided
  <2> QED
    BY <2>4, <2>5 DEF IInv, Settled
<1>2. PairIInv => TrustedIffVouchedFor
  BY <1>1 DEF PairIInv
<1> QED
  BY <1>2, Invariance, PTL

\* Every list and every case: the entry an answer names is the first of the
\* best.
THEOREM AnswerNamesFirst == PairSpec => []FirstOfTheBest
<1>1. IInv => FirstOfTheBest
  <2> SUFFICES ASSUME IInv, Answered, out.entry_index # 0
               PROVE  FirstOfTheBest
    BY DEF FirstOfTheBest
  <2>1. Decided /\ Len(Entries) \in Nat
    BY ListFacts DEF IInv, TypeOK, Settled, Rejected
  <2>2. /\ best \in 1..Len(Entries) /\ Applies(Entries[best])
        /\ \A j \in 1..Len(Entries) : Applies(Entries[j]) =>
             /\ EntryRank(Entries[best]) <= EntryRank(Entries[j])
             /\ j < best => EntryRank(Entries[best]) < EntryRank(Entries[j])
    BY <2>1 DEF Decided, BestBelow
  <2>3. Rank(out.outcome) = EntryRank(Entries[best]) /\ out.entry_index = best
    BY <2>1 DEF Decided, EntryRank
  <2> QED
    BY <2>1, <2>2, <2>3 DEF FirstOfTheBest, Decided
<1>2. PairIInv => FirstOfTheBest
  BY <1>1 DEF PairIInv
<1> QED
  BY <1>2, Invariance, PTL
----------------------------------------------------------------------------
\* What applies in a list applies in one that holds all its entries.
LEMMA ApplyingIsHeld ==
  ASSUME NEW l \in TrustList, NEW m \in TrustList, HoldsAll(m, l),
         NEW c, NEW d, c.origin = d.origin, NEW j \in ApplyingIn(l, c)
  PROVE  \E n \in ApplyingIn(m, d) : m.entries[n] = l.entries[j]
<1>1. /\ DOMAIN l.entries = 1..Len(l.entries)
      /\ DOMAIN m.entries = 1..Len(m.entries)
  BY DEF TrustList
<1>2. PICK n \in DOMAIN m.entries : m.entries[n] = l.entries[j]
  BY <1>1 DEF HoldsAll, ApplyingIn
<1> QED
  BY <1>1, <1>2 DEF ApplyingIn

\* The rank of a body does not rise when entries are added, nor when the
\* capabilities are forgotten.
LEMMA RankFalls ==
  ASSUME NEW l \in TrustList, NEW m \in TrustList, NEW c \in Case, NEW d \in Case,
         SameWindow(l, m), HoldsAll(m, l),
         d = [c EXCEPT !.capabilities = d.capabilities],
         d.capabilities = c.capabilities \/ ~d.capabilities.present,
         NEW r, NEW s, RanksAs(l, c, r), RanksAs(m, d, s)
  PROVE  s <= r
<1>1. /\ d.authority = c.authority /\ d.origin = c.origin
      /\ d.receipt = c.receipt /\ d.T = c.T
  BY DEF Case
<1>2. Within(d.T, m) <=> Within(c.T, l)
  BY <1>1 DEF SameWindow, Within
<1>3. ASSUME NEW e
      PROVE  RankFor(d, e) <= RankFor(c, e)
  <2>1. Identified(c, e) => Identified(d, e)
    BY <1>1 DEF Identified
  <2>2. Within(d.T, e) <=> Within(c.T, e)
    BY <1>1 DEF Within
  <2> QED
    BY <2>1, <2>2 DEF RankFor
<1>4. CASE c.authority # c.origin \/ ~Within(c.T, l)
  BY <1>1, <1>2, <1>4 DEF RanksAs
<1>5. CASE c.authority = c.origin /\ Within(c.T, l) /\ ApplyingIn(l, c) = {}
  <2>1. r = 4
    BY <1>5 DEF RanksAs
  <2>2. s \in 1..4
    BY <1>1, <1>2, <1>5, RankForType DEF RanksAs
  <2> QED
    BY <2>1, <2>2
<1>6. CASE c.authority = c.origin /\ Within(c.T, l) /\ ApplyingIn(l, c) # {}
  <2>1. PICK j \in ApplyingIn(l, c) : r = RankFor(c, l.entries[j])
    BY <1>6 DEF RanksAs
  <2>2. PICK n \in ApplyingIn(m, d) : m.entries[n] = l.entries[j]
    BY <1>1, ApplyingIsHeld
  <2>3. s <= RankFor(d, m.entries[n]) /\ s \in 1..4
    BY <1>1, <1>2, <1>6, <2>2, RankForType DEF RanksAs
  <2>4. RankFor(d, l.entries[j]) <= RankFor(c, l.entries[j])
    BY <1>3
  <2> QED
    BY <2>1, <2>2, <2>3, <2>4, RankForType
<1> QED
  BY <1>4, <1>5, <1>6

LEMMA BothTold ==
  ASSUME PairIInv, BothAnswered
  PROVE  /\ Told(First) /\ Told(Evaluation) /\ Asked(First)
         /\ First.tl \in TrustList /\ First.case \in Case
         /\ tl \in TrustList /\ case \in Case
<1>1. Told(First) /\ Told(Evaluation) /\ Asked(First)
  BY AnswerRanks DEF PairIInv, Remembered, BothAnswered
<1> QED
  BY <1>1 DEF Told, Evaluations, PairIInv, IInv, TypeOK

\* Every two lists of which the second holds the first: no outcome gets worse.
THEOREM MoreEntriesMoreTrust == PairSpec => []EntriesOnlyAdd
<1>1. ASSUME PairIInv, BothAnswered, case = First.case
      PROVE  Rank(out.outcome) <= Rank(First.out.outcome)
  <2>1. /\ RanksAs(tl, case, Rank(out.outcome))
        /\ RanksAs(First.tl, First.case, Rank(First.out.outcome))
    BY <1>1, BothTold DEF Told, Evaluation
  <2> QED
    BY <1>1, <2>1, BothTold, RankFalls DEF Asked
<1>2. PairIInv => EntriesOnlyAdd
  BY <1>1 DEF EntriesOnlyAdd
<1> QED
  BY Invariance, <1>2, PTL

\* Every two lists and capabilities: to know them never makes an outcome
\* better.
THEOREM CapabilitiesRefuse == PairSpec => []CapabilitiesOnlyRefuse
<1>1. ASSUME PairIInv, BothAnswered,
             First.case.capabilities.present, ~case.capabilities.present
      PROVE  /\ Rank(out.outcome) <= Rank(First.out.outcome)
             /\ First.out.profiles_checked /\ ~out.profiles_checked
  <2>1. /\ RanksAs(tl, case, Rank(out.outcome))
        /\ RanksAs(First.tl, First.case, Rank(First.out.outcome))
        /\ out.profiles_checked = case.capabilities.present
        /\ First.out.profiles_checked = First.case.capabilities.present
    BY <1>1, BothTold DEF Told, Evaluation
  <2>2. Rank(out.outcome) <= Rank(First.out.outcome)
    BY <1>1, <2>1, BothTold, RankFalls DEF Asked
  <2> QED
    BY <1>1, <2>1, <2>2
<1>2. PairIInv => CapabilitiesOnlyRefuse
  BY <1>1 DEF CapabilitiesOnlyRefuse
<1> QED
  BY Invariance, <1>2, PTL
=============================================================================
