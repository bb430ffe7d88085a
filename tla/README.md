# A TLA+ verification of the ACDP repository's checkers

The repository publishes a protocol: RFCs, JSON schemas, registries and some two
hundred conformance fixtures. What runs is small and decides everything else:
`scripts/conformance-runner.py` recomputes what the fixtures pin, with a reference
implementation of the protocol's verifiers inside it, and
`scripts/check-consistency.py` keeps the artifacts wired to each other. CI lets a
change in when both exit 0. A verifier that accepts too much, or a check that
passes without having looked, is published as the protocol's own opinion to every
implementation that runs the fixtures. That is what this project is about: the
verifiers, the loops around them, and the exit statuses.

Every definition is translated from the code; the RFCs are quoted only where the
code contradicts a text. `PROJECT.json` maps each definition to its lines.

## 1. The system

| part | state | operations | hard because |
|---|---|---|---|
| runner, main loop (module level with `_vectors`, 1964-2226) | counters of passes, failures and skipped fixtures; the fixture at hand | scan, `--only` filter, dispatch by family, per-vector check, quorum, golden examples, exit | dozens of branches touch three counters; "nothing was checked" must not look like success; one exception ends the run |
| transparency log (719-1006) | locals of two folding loops | generators `_log_mth`, `_log_inclusion_path`, `_log_consistency_proof`; verifiers `_log_verify_inclusion`, `_log_verify_consistency`; `check_log_vector` | bit arithmetic at sizes that are not powers of two; two folds over one path |
| key revocation (1178-1218) | list of members, the earliest | `check_revocation_class` | order of the list, ties, the instant of the boundary, lookups still open |
| trust lists (1640-1733) | best entry so far | `trust_evaluate`, `check_trust_vector` | order and precedence of entries, half-open windows, capabilities not known yet |
| keyless signing (1745-1961) | - | `keyless_classify`, `keyless_supersede`, `check_keyless_vector` | order of seven refusals; what is known of a key grows; chains of replacements |
| agent-to-agent artifacts (1395-1637) | chunks assembled so far, computed record, inputs cited | `check_a2a_vector`, `a2a_holder_verify` | chunks that restart an artifact; producer and holder normalize independently |
| witnesses (1019-1129) | witnesses seen per checkpoint | `check_witness_cosignature_vector`, `check_witness_quorum` | a count over the whole fixture next to a verdict per vector |
| canonicalization, hashes, signatures, receipts (86-710) | the comparisons still to be made | one function per family | straight-line recomputation, but of members of which any may be absent, each guarded differently; negative vectors |
| chain known answers, change feed, MCP results (1132-1175, 1221-1392) | `ok`, in the checks that go on after a deviation | one function per family | ordered decisions on an entry and its evidence; a capped walk in the order of names; some checks return, some go on, some raise |
| consistency checker (`check-consistency.py`) | the error list; fixtures by id | twelve checks, one after the other | each check sees part of the wiring; what they promise holds only together, and across edits |
| validation scripts (`validate-json*.sh`) | a failure flag | route a directory to a schema, syntax check | a directory nobody routed |
| vector generators (`gen-0.*-vectors.py`) | - | print new vectors | one-shot, straight-line |
| build and CI (`Makefile`, `.github/workflows`) | runs, required checks, notifications | validate, gate, auto-merge, notify | independent workflows on one push |

**Interactions.** CI calls `make validate`'s steps one after the other; the runner
calls one checker per vector and adds its Boolean to a counter; `check_log_vector`
calls both verifiers, first with the fixture's proof and then with inputs that must
be refused; `check_a2a_vector` calls `a2a_holder_verify` for every holder; the
witness check opens the fixture of a log; the fixtures are transcribed from what the
generators print; the two scripts read the same fixtures and
`registries/profiles.json`. Within the scripts
there are no threads, no callbacks and nothing is persisted: everything is a plain
call on one thread. There the hard behaviours are boundaries, orders of arrival and of
tests, members that are absent, knowledge that grows between two calls, and steps that
each look right and together let something through. The workflows around them do run
concurrently: runs of one ref replace and cancel one another while pushes go on, a merge
armed on one revision fires later, and the jobs of a matrix fail independently.

**What makes each part correct.** Runner: exit 0 exactly when the directory deserves
it. Golden vectors: what
passes is what the generators print, and everything they print passes. Log: a proof is accepted exactly when it is the
one of that leaf, or history, in that tree; the fold binds the position and the
history. Revocation and trust: the answer does not depend on order, more knowledge
moves it one way only. Keyless: authorized exactly when everything was earned, no
takeover in two steps. Artifacts: a holder accepts the artifact and nothing else.
Witnesses: what counts towards the quorum was verified. Consistency: no edit of one
artifact alone goes unnoticed. Workflows: what lands automatically was validated, main
is judged in the end, every consumer is told or known not to be.

The hazards, each at its line, are in `PROJECT.json`; section 8 says what is left.

## 2. Modules

| module | models | extends or instantiates |
|---|---|---|
| `Decision` | what a caller relies on: one answer, the right one, eventually | abstract specification |
| `LogTree` | the generators: tree hash, path, consistency proof, as recursive functions of the length of a slice | reference for the runs and for the theorems about the verifiers |
| `LogInclusion`, `LogConsistency` | one call of each verifier, one action per branch of the loop | |
| `LogInclusionPair`, `LogConsistencyPair` | two calls about one tree, side by side | the single call, extended for the first and instantiated for the second |
| `LogVector` | `check_log_vector` with `_log_verify_checkpoint`, calling both verifiers step by step | `LogTree`, `LogInclusion`, `LogConsistency` |
| `Runner` | the main loop, from the first fixture to the exit status | `WitnessFixture`, whose steps it takes in the branch of a wit- fixture |
| `KeyRevocation`, `KeyRevocationPair` | `check_revocation_class`; asked again knowing more | the pair extends the single call and keeps the earlier one |
| `TrustList`, `TrustListPair` | `trust_evaluate` and the comparison of its answer; asked again with more entries or less capabilities | as above |
| `A2AArtifact` | `check_a2a_vector`, `a2a_holder_verify` | |
| `Keyless` | `keyless_classify`, `keyless_supersede`, `check_keyless_vector` | |
| `WitnessFixture` | the branch of a wit- fixture: each vector, then the quorum; a called part, without a specification of its own | |
| `VectorTerms` | hashes, signatures and encodings as terms; the guarded comparison | |
| `SignatureVectors` | the checks of can-, lin-, anc-, sig-, rev-, fp- vectors and of the golden trust list | `VectorTerms` |
| `ReceiptVectors` | those of rcpt-, lhr- and chain- vectors and of the two golden examples | `SignatureVectors` |
| `ChangeFeed` | those of rec- and mcp- vectors; what the walk through a call's arguments finds is a parameter | `SignatureVectors` |
| `ToolArguments` | that walk, and what it should find | |
| `VectorGenerators` | what `gen-0.2.0` to `gen-0.5.0` print | `VectorTerms` |
| `GoldenVector` | the vectors of a fixture, checked one after another | `ReceiptVectors`, `ChangeFeed` |
| `GoldenPrintout` | what a vector has to do with the printout for its inputs | `GoldenVector`, `VectorGenerators` |
| `Pipeline` | `.github/workflows`: runs of CI, merges, notifications | |
| `ConsistencyCheck` | `check-consistency.py` on a repository that changes | |
| `*Proofs` | theorems about the module of that name, or about its pair, which extends it; `LogVectorProofs` about `LogTree`, `LogVector` and each verifier called alone, `GateProofs` about `Pipeline`, `ConsistencyCheck` and `Runner`, `VectorProofs` about `GoldenPrintout` and `Keyless` | the module, `TLAPS` |
| `MC*` | constants for TLC, and the refinement of `Decision`; `MCVectors` also composes `GoldenPrintout` with `Keyless`, the kl- branch, and takes the walk from `ToolArguments` | the module |

**How state and actions correspond to code.** A variable is a local of the function
of the same name (`fn`, `sn`, `fr`, `sr`, `path`, `boundary`...), an action the code
between two tests; `pc` says which statement is next. `ret` is `"none"` until the call
returns, then `"True"` or `"False"`, or `"raised"` where an exception leaves the
function. (In `ConsistencyCheck` the two are called `due` and `gate`, so that its theorems
can stand next to those of the runner.) The argument is drawn once, in `Init`, from a constant set. A checker's
comparisons of members it only compares are a flag of the vector (`"right"` or
`"wrong"`, `pins`); whatever it computes from other members is computed.

**Golden vectors.** A check is the sequence of its comparisons, an operator from a
vector to answers: `"ok"`, `"fail"` (report and return `False`), `"note"` (report and go
on), `"raise"` (an exception nobody catches) or `"none"` (a descriptive vector).
`GoldenVector` takes them one per step and keeps what the code keeps: the flag `sound`, the
failures reported, what each vector was answered. A vector has inputs and *pins*, a
function from those members it has to terms, so that an absent member is outside the
domain, as in the code's `if "x" in exp`. Its label (`"right"`, `"tampered"`, `"flawed"`)
says how the instance was made; no check reads it.

**A log vector.** `pins` are the members that are compared, right or wrong.
`unreadable` are those that raise where the code reads them: an absent index, size or
checkpoint, a hash without its `sha256:` prefix, a producer key that is no hex; a seed
that does not decode is the key `"malformed"`. Otherwise members have the JSON types of
the fixtures (a size is a number, a list a list), which is what the code takes for granted.

**Workflows.** A tree is the set of changes in it, a change a pull request at one of its
revisions. `Validate` stands for the whole job: which trees it refuses is a constant, so
two sound changes may be broken together, and it may fail on any tree, since a tool that
cannot be installed or the timeout fails it too. GitHub (the queue, required checks,
native auto-merge) is external and written from how the workflows use it: in `map`
those definitions are marked so.

**Data.** A hash is a term, `<<left, right>>` or `<<data>>` or `<<salt, value>>`: two
are equal exactly when what went into them is. This is collision resistance, and the
length of the tuple is the domain prefix of RFC 6962. A signature verifies or does
not. Instants are naturals; only their order is read. An integer is a Python integer,
so no width is modelled. Names, keys, origins and contexts are model values or short
strings that are never taken apart, except the segments of a family name.

**The composition of calls.** `LogVector` holds the variables of the two verifiers
and calls them by setting their arguments and letting *their* actions run until they
return; it then reads `ret` and goes on. The `Pair` modules make a property over two
executions, such as "two accepted proofs are the same proof", an invariant. Those of
the log run two calls side by side (a call that has returned waits), because their
proof compares the two loops round by round. Those of key revocation and trust lists
ask twice, as a verifier does that has learned something: `AskAgain` and
`EvaluateAgain` put the call that has returned into `earlier` and start the next one.
In all four the second call has the arguments of the first or those of one of
`Rivals`, so that one run checks what a single call promises on many arguments and
what two promise on fewer.

## 3. Runs

| run | question | bound | distinct states |
|---|---|---|---|
| `log_inclusion` | Does the fold accept exactly the generated path, for the leaf at that index (`FoldDecidesInclusion`, `WithinTree`)? Can one position of one root have two leaf hashes (`PositionBinds`)? | 8 leaves, rivals up to 4 | 898,139 |
| `log_consistency` | The same for histories (`FoldDecidesConsistency`, `WithinTrees`). Can one second root have two first roots (`HistoryIsUnique`)? | sizes up to 6, rivals up to 4 | 683,462 |
| `log_vector` | Does the whole check pass right vectors, and only proved ones, and raise only where a member cannot be read or a proof is degenerate, and not before what was wrong earlier is reported (`RaisesOnlyOnFault`)? | 5 leaves, up to two defects | 22,222 |
| `runner` | Is the exit status the one the directory deserves (`ExitStatusIsRight`)? When nothing failed, is the quorum of a witness fixture one of distinct verified witnesses (`CountIsOfVerified`), over the log's checkpoint (`QuorumIsOverTheLog`)? | 2 fixtures; a witness fixture of up to 3 vectors alone | 1,073,061 |
| `key_revocation` | Is each class earned, each refusal justified, the boundary the earliest? Does more knowledge, or another order, change the answer (`RefusalStands`, `OrderIsIrrelevant`)? | 3 revocations | 187,356 |
| `trust_list` | Trusted exactly when an entry vouches, the first of the best named? More entries, known capabilities: in which direction may the answer move (`EntriesOnlyAdd`, `CapabilitiesOnlyRefuse`)? | 2 entries | 320,112 |
| `a2a_artifact` | Is the assembly the last run of chunks, the derivation list what was used, and does a holder accept the artifact and only it? | 3 chunks | 118,455 |
| `vectors` | Is what passes what the generators print (`AcceptedIsGenerated`), for inputs a fixture may have, and does all they print for such pass (`LabelDecides`)? Is a negative vector wrong in its form only (`NegativeIsolatesForm`)? Can an accepted entry be moved to another context, time or lineage (`EvidenceBindsEntry`)? Keyless: authorized exactly when earned; revocations only refuse; no takeover | 3 vectors or 2 cases | 97,865 |
| `pipeline` | Was what auto-merge landed validated (`MergedWasValidated`)? Is the newest run of main judged in the end (`HeadOfMainIsJudged`)? Is every consumer told of what it reads, by that commit or one that contains it, unless its own job fails (`EveryChangeIsTold`)? | 3 pull requests, up to 2 revisions; or 2 commits, 2 workflows, 3 consumers, two of them in one matrix | 122,782 |
| `consistency_check` | What do the twelve checks guarantee together, and across two changes? | 2 changes | 550,782 |

Two more runs show a disagreement between the code and a text of the repository
(section 6). Every passing property has a mutant in `PROJECT.json`: a plausible slip in
the code, written next to the definition it replaces, under which TLC finds it
violated. `TypeOK` is a theorem in the modules with proofs, and a conjunct of the first
invariant in the others.

**Properties worth reading.** `PositionBinds` and `HistoryIsUnique` are the reasons a
transparency log exists. `RefusalStands` and `OrderIsIrrelevant` say that a verifier
that learns more never takes a refusal back, and that it does not matter in which
order it learned. `FirstOfTheBest` names the entry that an audit would be shown.
`MoreRevocationsOnlyRefuse` states the one exception the code makes: with a revocation
known, an unreachable controller is no longer asked, and a refusal for that reason
becomes a pre-compromise acceptance. `HolderAcceptsOnlyTheArtifact` relates two
normalizations that never see each other. `ListedOfKnownFamilyExists` holds in
`check-consistency.py` although no check tests it: it takes check 10 (placement) and
the second half of check 4 together. `LoneEditNoticed` compares the repository that
passed before a change with the one that passes after it, and says also that no file
hides in the shadow of another with its id. `AcceptedIsGenerated` and
`LabelDecides` bound the checks from both sides, over vectors that leave out any
two of their members, and so find a comparison that is guarded by the presence of another
member. The record a vector of a tool call carries is made by `FirstSeen`, which does
not walk, so that `LabelDecides` also says that the walk finds what it should. `MergedWasValidated` says as much as is true: the run that gated a merge was on
main as it was *then* plus the change, so two changes that are broken only together can
still land one after the other.

### Bounds and why they are enough

- *Log.* The fold branches on the parity of `fn`, on `fn = sn` and on whether the path
  ends; sizes up to 8 (6 for consistency) contain every shape of right border of up to
  three levels, including two skipped levels in a row (size 5, index 4). Paths are the
  generated ones, with one element dropped, added, swapped or replaced. Rivals are
  taken more widely: any node of the tree as a leaf hash or as a first root, and any
  single hash as a path, on the trees of up to `MaxPairSize` leaves. The theorems of
  section 5 do not depend on either bound.
- *Lists* (revocations, entries, chunks, cosignatures): two or three elements, one
  alternative per reason to apply or not to apply. Code that keeps a best-so-far can
  confuse at most the best, the current and an earlier one.
- *Instants* stand on both sides of, and on, every end of a window or boundary.
- *Runner.* Two fixtures, one per dispatch class, with up to two vectors: counters are
  added to, so an answer lost between two vectors or two fixtures shows with two.
- *Golden vectors.* Printouts with up to two members left out and at most one stale,
  one vector per family and flawed input, and pairs of entries of the change feed, with
  a bucket after them; `MaxDerived` is 2 for the code's 1000, with three identifiers in
  the arguments, nested and repeated. What two members say is guarded by the presence
  of one other at most, and what is carried from one vector to the next is one flag.
- *Pipeline.* Two Dependabot bumps, one pushed to twice, and a change pushed to main by
  hand: the least with which one merge can pass between the run and the merge of
  another, and a third run of main can replace a waiting one. Trees are broken alone and
  only together. `MaxRev` bounds the pushes. Notifications are a second scenario of the
  same run, without the bump that is pushed to twice (`Telling` in `MCPipeline`; 32,240
  states are of the first scenario, 90,542 of the second), with a matrix of two for the
  four of notify-spec-consumers.yml and the website's single job beside it; a failure in
  the one workflow must not reach the other, nor the rest of the matrix. The change of
  the specification stands before or after a bump, so that the tip that a workflow
  dispatched by hand announces is a later commit.
- *Keyless.* `MaxSpan` is 3 for the code's 3600 s; windows of length 0, 3 and 4 are in.
- *Artifacts.* `DerivedCap` is 2 for the code's 1000, with up to three inputs cited.
- *Consistency.* `MaxEdits` is 2: what passed, a change that passes, and a change on
  top. The first repository is wired or one change away. Four families, one whose name
  starts another's, one optional.

No run uses symmetry. `CHECK_DEADLOCK FALSE` is set everywhere because a call that has
returned, a program that has exited, takes no further step.

### Fairness

`WF_vars(Next)` in the calls, `WF_pairVars(PairNext)` in the pairs of the log, and
`WF_pairVars(Classify)`, `WF_pairVars(Evaluate)` in the other two, where nobody is
obliged to ask again: a plain call on one
thread is not blocked by anything, so it takes its next statement. That is all the code
justifies and all that is used, by the refinements of `Decision` (the answer comes).
`LogVector`, `A2AArtifact`, `GoldenVector` and `ConsistencyCheck` are checked for safety
only; a change of the repository is never forced. `Pipeline` assumes weak fairness of
starting what waits, of ending what runs and of each queued notification, one condition per
job: hosted runners take what is queued, and `timeout-minutes` (ci.yml 16 and 59, GitHub's own
limit elsewhere) ends what was started, with whatever outcome. That a hanging job ends is
thus assumed, not shown. Nobody is obliged to push, to arm, to merge or to dispatch a
workflow again. `EveryChangeIsTold` does not follow from the fairness of the jobs alone:
a job must have been queued for the commit, which what the bot lands need not be, and
still be queued when the others of its matrix have failed.

## 4. Abstract specification

`Decision` says what a caller of any verifier relies on: it answers once, with the
value its arguments deserve, and it does answer. It is instantiated for both verifiers
of the log, key revocation and the runner, each time with
a definition of what is deserved written without the order of the code's tests and
without its loops (for the log: by the generators), and `Decision!Spec` is a property
of the run. What the code computes step by step thus implements a relation on its
arguments. The safety half, `Decision!Safety` (at most one answer, and the right one),
is proved as well for all four (`InclusionDecided`, `ConsistencyDecided`, `ClassIsDecided`,
`ExitStatus`), each step of the detailed module mapped to `Decide` or to a stutter; that the answer
comes is liveness and stays with TLC. The other modules have no such refinement: `ConsistencyCheck`, for one, has
its value in what several checks imply together, not in restating each.

## 5. What is proved

TLAPS proves, for every value of the constants:

| theorem | module | says |
|---|---|---|
| `TypeCorrect`, `StaysWithinTree` | `LogInclusionProofs` | the fold keeps its types, never reads past the path, never leaves the tree |
| `InclusionBinds` | `LogInclusionProofs` | `PositionBinds` for every size, index, path and hash |
| `TypeCorrect`, `StaysWithinTrees` | `LogConsistencyProofs` | the same for the consistency fold |
| `ConsistencyBinds` | `LogConsistencyProofs` | `HistoryIsUnique` for all sizes, paths and hashes |
| `InclusionDecided` | `LogVectorProofs` | `Decision!Safety`: for every tree, index, leaf hash and path the fold answers at most once, and `"True"` exactly for that leaf with the path `_log_inclusion_path` generates |
| `ConsistencyDecided` | `LogVectorProofs` | the same for every tree but the empty one: `"True"` exactly for the root of the first leaves with the proof `_log_consistency_proof` generates |
| `GoldenVectorAccepted` | `LogVectorProofs` | `GoldenAccepted`: a right vector passes, for trees of any size; all calls are answered as the check wants, the tampered and the swapped ones too |
| `AcceptedVectorProved`, `OnlyFaultsRaise` | `LogVectorProofs` | `AcceptedIsProved` and `RaisesOnlyOnFault` for trees of any size, and any members that cannot be read |
| `BoundaryCorrect`, `AcceptanceCorrect`, `RefusalCorrect` | `KeyRevocationProofs` | every class is earned or justified, for lists of any length |
| `ClassIsDecided` | `KeyRevocationProofs` | `Decision!Safety`: at most one answer, the one the vector deserves |
| `RefusalIsFinal`, `OrderDoesNotMatter` | `KeyRevocationProofs` | asked again: for lists of any length, any order, any repetition |
| `TypeCorrect`, `TrustIsVouchedFor`, `AnswerNamesFirst` | `TrustListProofs` | `TrustedIffVouchedFor` and `FirstOfTheBest` for lists of any length |
| `MoreEntriesMoreTrust`, `CapabilitiesRefuse` | `TrustListProofs` | asked again: entries only add, capabilities only refuse, in lists of any length and order |
| `TypeCorrect`, `CountOfVerified`, `OverTheLog` | `GateProofs` | when nothing failed, the quorum is one of distinct verified witnesses over the log's checkpoint, for any corpus and fixtures of any size |
| `ExitStatus` | `GateProofs` | `Decision!Safety`: the program exits at most once and with what the directory deserves |
| `TypeCorrect`, `AssemblyCorrect`, `DerivedCorrect` | `A2AArtifactProofs` | the assembly is the last run of chunks at every moment of the loop, the derivation list what was used, for any number of chunks, parts and citations and any cap |
| `OnlyTheArtifact`, `TheArtifact` | `A2AArtifactProofs` | a holder is told "ok" of the published artifact and of no other |
| `PassedEverything` | `VectorProofs` | a vector is answered `"True"` exactly if every comparison of its check holds, in fixtures of any length |
| `AcceptedAgrees` | `VectorProofs` | `AcceptedIsGenerated`: for vectors of every family, with any inputs and any members present or absent |
| `EvidenceBinds`, `NegativesIsolate` | `VectorProofs` | `EvidenceBindsEntry` for any two entries, `NegativeIsolatesForm` for any negative vector |
| `TypeCorrect`, `Authorization`, `RevocationsRefuse`, `Takeover` | `VectorProofs` | `AuthorizedIffEarned`, `MoreRevocationsOnlyRefuse` and `NoTakeover` for tables of any length, any window, any revocations and identities |
| `PassingTables` | `VectorProofs` | a classification table that passes pins an authorization in exactly the cases that earn one |
| `PipelineTyped`, `AutoMergeIsGated` | `GateProofs` | `MergedWasValidated` for any pull requests, bounds, broken trees and required jobs among which is validate |
| `ListedExist`, `LoneEdits`, `AssertedCodes`, `OptionalFamilies` | `GateProofs` | the four properties of the checker, for any repository and any series of changes |

**Assumptions.** Only on the constants. `CallsAssumption` (two naturals and a list of
hashes, which is what the call sites pass), `VectorsAssumption`, `TrustAssumption`,
`RunnerAssumption`, `A2AAssumption`, `KeylessAssumption` and `FixturesAssumption` say that
the arguments have their declared shape, and bound neither lengths nor contents; a record
of an artifact may hold anything, also what is no hash, and a pin of a vector any term
(`IsGolden` gives a shape only to what is taken apart: a P-256 signature, whose length is
0, 64 or `DerLength`, an assembled receipt, a list that is gone through; and a receipt is
told from a lifecycle event by the member `at`). `RepositoriesAssumption` says what kind of
thing each part of a repository is (`IsRepository`), not that it is wired, and
`EditsAssumption` that the bound on changes is a natural. `RivalsAssumption`: a rival is
an argument like the others. `PipelineAssumption`: validate is a required check, as
auto-merge.yml says in its comment, main is not a pull request, and what Dependabot may
change (`.github/dependabot.yml`: requirements and workflow files) matches no filter of a
notify workflow. TLC evaluates them
in every run. Hashes as
terms are part of the model: the theorems hold up to a collision of SHA-256.

**Arguments.** TLC has checked every strengthening before it was proved, except that of
`LogVector`: it speaks of some tree of any size above the one at hand, and TLC cannot
enumerate those. Induction over sizes is by least counterexample (`StrongInduction` of
`LogVectorProofs`, with the property given as a set), since the induction theorems of
the library take an operator the provers cannot instantiate.

- *Log, pairs.* Two calls on the same sizes run in lockstep: same branch, same `fn`
  and `sn`, as long as both run (`Lockstep`); an accepting call leaves none behind
  (`AcceptTogether`). For inclusion the strengthening is `Injective`: equal
  accumulators imply equal leaf hashes and equal elements so far, because a node hash
  is a constructor applied on the same side in both calls. For consistency it is
  `SecondDeterminesFirst`: `sr` absorbs every element, so equal `sr` forces equal
  paths, and `fr` is rebuilt from those. `PositionBinds` alone is not inductive: it
  says nothing while the calls are running.
- *Log, generators and folds.* The generator splits a tree from the top, at its largest
  power of two; the loop climbs it from the leaves. First, the recursions do define
  functions (`RootsExist`, `PathsExist`, `SubProofsExist`). Then, with `PairUp(h, n)` the
  hashes one level above `h`: the root over `h` is the root over them (`RootPairUp`), and
  a path or a proof over `h` is the one over them with what that level adds in front
  (`PathPairUp`, `ProofPairUp`); each by induction over the size, in the two halves of
  the split. A proof for an odd size is the path of the last old leaf after that leaf
  itself (`ProofOfOdd`), which is what the loop's two accumulators follow. So one round
  moves the loop to the smaller tree above, and `FoldState` (with `SkipState` inside the
  inner loop) says at every moment which answer is due: `"True"` exactly if the list read
  is what the generator prints (`FoldDecides`). That a wrong element is noticed rests on
  a node hash being a constructor.
- *Log, vector.* The check knows its trees by their roots. Over the distinct leaf hashes
  it makes, a root tells where its slice starts and how long it is (`RootBinds`), so the
  path in the tree cut at the size the vector names is never accepted against a larger
  root (`FoldOfPartRefused`), the tampered path and proof are not generated
  (`FoldOfSpoiledRefused`, `GrowthOfSpoiledRefused`), and with the roots exchanged
  neither accumulator can reach the smaller root (`SwapOfOtherRefused`). The
  invariant says what each branch has compared so far (`LeavesInv`, `GrowthInv`) and
  where the call at hand stands in its tree (`FoldInv`, `VerifyInv`).
- *Revocation.* `Filtering` (what has been kept is what applies of the part passed),
  `LeastBelow` (the candidate is the least of the part scanned) and `Settled` (the
  answer is a function of what applies) turn the loop into the set of revocations
  that apply. A call that has returned is settled for good, so what the two answers
  of a pair have to do with one another follows from two sets, one inside the other.
- *Trust lists.* `BestBelow` (the best entry so far is the first among the best-ranked
  that apply below `k`) and `Settled` do the same for entries and their ranks.
- *Runner.* The exit status is a sum over the corpus, so the strengthening says at each
  control point what the counters owe to the fixtures passed: `BetweenFixtures` before a
  fixture, `BranchTally` within the branch of a wit- fixture (what its vectors and its
  quorum have added), `GoldenTally` in the golden examples, `ExitRight` at the end.
  `Position` ties the control point to the fixture at hand. The quorum counts what was
  seen, also refused; a refused cosignature has raised the failures, which nothing
  lowers, and this is what `CountOfVerified` rests on.
- *Artifacts.* Concatenation is described by its cut points (`Concatenates`): the parts
  of the `n`th chunk lie between the `n`th cut and the next. A chunk that appends adds a
  cut, one that does not starts the cuts anew. That two concatenations of the same runs
  are equal (`OneConcatenation`) would be an induction over the cuts; it is proved by the
  least cut at which they differ (`Least`). With that, a holder told "ok" has parts whose
  hash is the recorded one, the recorded one is that of the assembly because the check
  compared it (`Recorded`), and hashing is injective.
- *Golden vectors.* What is still to be compared is the end of the check's comparisons,
  and the flag says whether all before it held (`Place`); so `"True"` means that all hold
  (`TrueIffAllOk`). The rest is about one vector: each family's comparisons, held to be
  true one by one, against the members of its printout (`Agrees`). That a printout is
  put together from others is undone by `AgreeBoth`, that a check is put together from
  sequences by `Joined`. Nothing is assumed of the walk through a call's arguments.
- *Keyless.* Each case is judged by itself: the answers so far are those of the table
  function (`Answered`), the flag says that none differs (`Flagged`). The substance is in
  `ClassifyAuthorizes` and `ClassifyLearns`, the cascade against its definition without
  an order, and against itself with more revocations.
- *Consistency.* The program only collects errors. `Established` says of every check
  passed without an error what that means for the repository (`ListedKnown`, `Placed`,
  `SourcesAgree`...), `Loading` that the map of fixtures is what is on disk, and `Matched`
  that all of it holds of the repository that passed before the change. The four
  properties combine facts of several checks, two of them of two repositories.
- *Pipeline.* What has landed cannot be looked up in the runs by the present `head`,
  which moves on. The strengthening says of every run of a pull request that its tree is
  some earlier main plus the change at the run's revision, and of a run that passed that
  its tree is not broken; runs are never removed and a run that passed keeps its status,
  so what gated a merge can be pointed at ever after.

**Only model-checked.** Liveness (that calls return, that main is judged and consumers
are told), which needs fairness and `ENABLED`; with it the other half of
`FoldDecidesInclusion` and `FoldDecidesConsistency`. Of the invariants, `LabelDecides`
alone: it speaks of labels of the instance, and rests on the walk of `ToolArguments`, which
is `RECURSIVE`, to find what it should. `WitnessFixture` is proved about as far as
`Runner` takes its steps. `ConsistencyDecided` and its run
leave the empty second tree out: the code accepts the empty tree as a history of itself
(line 790), which the generator, called with sizes from one up, says nothing about.

## 6. Findings

With a run:

- `log_checkpoint_reproduced`: the prefix passed to `_log_verify_checkpoint` doubles
  the name of a member, so the checkpoint hash and signature that `log-001` pins are
  never compared.
- `every_example_routed`: a directory of examples counts as routed when its name starts
  the name of a routed one; the line of `subscription` can be deleted unnoticed.

Met while reading, in the model but without a run of their own:

- The same for the canonical forms of the two checkpoints of `log-003` (line 978).
- Taken by itself, the quorum counts cosignatures that were refused, against the
  docstring of `check_witness_quorum` (1113). The run as a whole still fails, by the
  vector: `CountIsOfVerified`.
- Ids under `self_test_only` are not looked up on disk by `check_profiles_json`, so
  they can dangle once their family has no fixture left: `ListedOfKnownFamilyExists`
  says how far the checks together prevent it.
- `check_optional_families` does not read wildcards: the consumer's section may name an
  optional family as `fam-*`. `OptionalStaysOptional` is about ids and ranges.
- The comment at 321 says the negative P-256 vector must "hold the same (r, s) as the
  success vector for this fixture"; the pair recovered at 325 is never compared with
  anything. What holds is `NegativeIsolatesForm`.
- The docstring of `check_ed25519_strict_negative` (404) says it "confirms the cofactorless
  equation holds"; it compares with the fixture's own three answers, so a vector that
  pins `false` three times, truthfully, passes.
- The docstring of `check_golden_receipt_example` (2153) calls the body "the sig-001 golden
  body"; nothing compares it with that of its sibling or verifies its signature.
- A revocation whose fixture has no `public_key_hex` escapes the rule against
  self-signed revocations (472): `Excused` in `LabelDecides`, which therefore does not
  cover that hazard.
- `content_hash_field_value` is unread where `sha256_hex` is absent (138), and of a
  sig-* vector's `publish_request_body` only `key_id` is ever compared: `Unread`.
- The evidence of a superseded entry binds the context that replaces, not the one
  replaced, and that of a lifecycle entry not the instant: `EvidenceBindsEntry` says what is bound.

## 7. What is not modelled, and why

- What a library computes: JCS itself, SHA-256, HMAC, curve arithmetic. They are free
  constructors; "is of small order", "decodes", "verifies" are inputs.
- `validate-json.sh` and `validate-json-schema.sh`: ajv's verdict on a document is out of
  reach, and what is left adds up an exit status. Their verdict is in `Broken` of
  `Pipeline`, the routes they contain in `ConsistencyCheck`.
- Of the generators, the cosignatures of `gen-0.4.0` (the comparisons of one cosignature
  are flags in `WitnessFixture`), the constants, and the printouts for behavioral
  fixtures, which nothing executes.
- Fenced code and inline code in markdown, and which files git tracks: the links reach
  `ConsistencyCheck` as data. Two headings whose numbered slugs collide are told apart.
- Formatting of messages: an error is reported or not. `errors` is the set of checks
  that reported something, since only its emptiness is read.
- The error schema is parsed without a guard (check-consistency.py 302): the step is in
  the model (`RaiseOnSchema`), and no property is about what is then not printed.
- An origin written with a capital in an entry never applies (1657): an origin is a
  model value here, and such an entry is one of another origin.
- A fixture of a keyed family that lacks its key pair is taken for a behavioral one
  (2002): the step is in `Runner` (`Executable`); whether it should have one is not
  something the code can tell.
- A crash between two steps: the scripts write nothing, and a run of CI that dies is one
  that failed.

## 8. Plan

All components that carry state are modelled. Left for the model:

1. `MarkdownLinks`: the fence scanner and the anchors, composed into `ConsistencyCheck`
   in the place of its given links; property: what is inside a fence is never a link,
   and a heading that moves does not silently retarget one.
2. The cosignature comparisons as terms, with the printout of `gen-0.4.0`, in the place
   of the flags of `WitnessFixture`.

The findings without a run could join an existing one: each is a single step of a model
that is there.

One theorem is still worth proving: `LabelDecides`, with predicates on the inputs of each
family in the place of the labels, and the walk of `ToolArguments` as a recursive function on
the depth of the arguments.
