------------------------------- MODULE Runner -------------------------------
(***************************************************************************)
(* The main program of scripts/conformance-runner.py: one pass over the    *)
(* fixtures of schemas/conformance, the dispatch of each to its checker,   *)
(* the two golden examples, and the exit status.                           *)
(*                                                                         *)
(* A fixture is abstracted to what the dispatch reads; what its checker    *)
(* answers for each vector is part of it:                                  *)
(*   parses    json.load succeeds                                          *)
(*   family    the id's prefix                                             *)
(*   matches   the id or the file name starts with the --only PREFIX       *)
(*   keyed     it has the key pair member its family is dispatched on      *)
(*   listed    it has a "vectors" member                                   *)
(*   vectors   per vector "pass", "fail", "none" (a descriptive vector,    *)
(*             can-, lin- and anc- only) or "raise" (an exception nobody   *)
(*             catches)                                                    *)
(* The vectors of a wit- fixture are those of WitnessFixture, whose steps  *)
(* the main loop takes for it; chain and quorum are its other members.     *)
(***************************************************************************)
EXTENDS Naturals, Sequences, FiniteSets

CONSTANTS
  KnownFamilies,    \* fixture_families of registries/profiles.json
  Corpora,          \* the possible contents of the directory, in sorted order
  GoldenOutcomes,   \* what the two golden-example checks may answer
  Witnesses, Checkpoints, None, Missing

\* What a checker answers for a vector, the vectors of a wit- fixture, and the
\* files of the directory by what their vectors are.
Outcomes == {"pass", "fail", "none", "raise"}

Cosignature ==
  [witness : Witnesses, checkpoint : Checkpoints,
   keypair : {"right", "absent", "wrong"}, version : BOOLEAN, pins : BOOLEAN,
   assembled : {"absent", "right", "wrong", "foreign"}, times : BOOLEAN]

FileOf(vectors) ==
  [parses : BOOLEAN, family : STRING, matches : BOOLEAN, keyed : BOOLEAN,
   listed : BOOLEAN, vectors : vectors, chain : Checkpoints \cup {None, Missing},
   quorum : [pinned : BOOLEAN, target : Checkpoints, count : Nat]]

IsFile(f) ==
  IF f.family = "wit" THEN f \in FileOf(Seq(Cosignature)) ELSE f \in FileOf(Seq(Outcomes))

ASSUME RunnerAssumption ==
  /\ \A c \in Corpora : /\ c \in Seq({c[n] : n \in DOMAIN c})
                       /\ \A n \in DOMAIN c : IsFile(c[n])
  /\ GoldenOutcomes \subseteq {"pass", "fail", "raise"} \X {"pass", "fail", "raise"}
  /\ {None, Missing} \cap Checkpoints = {} /\ None # Missing

VARIABLES
  only,             \* --only was given
  corpus,           \* the fixtures of the directory
  golden,           \* the answers of the two golden-example checks
  pc,               \* control point
  next,             \* index of the fixture at hand
  todo,             \* its vectors still to be checked
  passes, failures, skipped_behavioral,
  step, k, verdicts, seen, quorum, ret,   \* of the wit- branch
  exit              \* "none" while running, then the exit status

branch == <<step, k, verdicts, seen, quorum, ret>>
vars == <<only, corpus, golden, pc, next, todo, passes, failures,
          skipped_behavioral, branch, exit>>

ArithmeticFamilies == {"can", "lin"}
AlwaysExecuted == ArithmeticFamilies \cup {"sig", "fp"}
KeyedFamilies == {"rev", "rcpt", "lhr", "log", "wit"}
ListedFamilies == {"anc", "rev", "rec", "mcp", "a2a", "trust", "kl", "chain"}

\* The elif chain: some branch other than the last takes the fixture.
Executable(f) ==
  \/ f.family \in AlwaysExecuted
  \/ f.family \in KeyedFamilies /\ f.keyed
  \/ f.family \in ListedFamilies /\ f.listed

Selected(f) == ~only \/ f.matches

Fixture == corpus[next]

Branch == INSTANCE WitnessFixture WITH fixture <- Fixture, pc <- step

Init ==
  /\ only \in BOOLEAN
  /\ corpus \in Corpora
  /\ golden \in GoldenOutcomes
  /\ pc = "fixture"
  /\ next = 1
  /\ todo = << >>
  /\ passes = 0 /\ failures = 0
  /\ skipped_behavioral = << >>
  /\ step = "" /\ k = 0 /\ verdicts = << >> /\ seen = << >>
  /\ quorum = "none" /\ ret = "none"
  /\ exit = "none"

Exit(status) ==
  /\ pc' = "exited"
  /\ exit' = status
  /\ UNCHANGED <<only, corpus, golden, next, todo, passes, failures,
                 skipped_behavioral, branch>>

Inputs == <<only, corpus, golden>>

AtFixture == pc = "fixture" /\ next <= Len(corpus)

\* json.load raises before the filter is looked at.
Unparsable ==
  /\ AtFixture
  /\ ~Fixture.parses
  /\ Exit("1")

FilterOut ==
  /\ AtFixture
  /\ Fixture.parses
  /\ ~Selected(Fixture)
  /\ next' = next + 1
  /\ UNCHANGED <<Inputs, pc, todo, passes, failures, skipped_behavioral, branch, exit>>

UnknownFamily ==
  /\ AtFixture
  /\ Fixture.parses /\ Selected(Fixture)
  /\ Fixture.family \notin KnownFamilies
  /\ failures' = failures + 1
  /\ next' = next + 1
  /\ UNCHANGED <<Inputs, pc, todo, passes, skipped_behavioral, branch, exit>>

SkipBehavioral ==
  /\ AtFixture
  /\ Fixture.parses /\ Selected(Fixture)
  /\ Fixture.family \in KnownFamilies
  /\ ~Executable(Fixture)
  /\ skipped_behavioral' = Append(skipped_behavioral, next)
  /\ next' = next + 1
  /\ UNCHANGED <<Inputs, pc, todo, passes, failures, branch, exit>>

\* Mutant of Dispatch: an empty vector list is not a failure.
DispatchEmpty ==
  /\ AtFixture
  /\ Fixture.parses /\ Selected(Fixture)
  /\ Fixture.family \in KnownFamilies
  /\ Executable(Fixture)
  /\ todo' = IF Fixture.family = "wit" THEN << >> ELSE Fixture.vectors
  /\ IF Fixture.family = "wit" THEN Branch!Call ELSE UNCHANGED branch
  /\ pc' = "vectors"
  /\ UNCHANGED <<Inputs, next, passes, failures, skipped_behavioral, exit>>

\* _vectors: an empty list is a failure, and the loop over it is still run.
Dispatch ==
  /\ AtFixture
  /\ Fixture.parses /\ Selected(Fixture)
  /\ Fixture.family \in KnownFamilies
  /\ Executable(Fixture)
  /\ todo' = IF Fixture.family = "wit" THEN << >> ELSE Fixture.vectors
  /\ failures' = IF Fixture.vectors = << >> THEN failures + 1 ELSE failures
  /\ IF Fixture.family = "wit" THEN Branch!Call ELSE UNCHANGED branch
  /\ pc' = "vectors"
  /\ UNCHANGED <<Inputs, next, passes, skipped_behavioral, exit>>

\* One checker call, and the branch's reaction to its answer.
CheckVector ==
  /\ pc = "vectors"
  /\ todo # << >>
  /\ Head(todo) # "raise"
  /\ passes' = IF Head(todo) = "pass" THEN passes + 1 ELSE passes
  /\ failures' = IF Head(todo) = "fail" THEN failures + 1 ELSE failures
  /\ todo' = Tail(todo)
  /\ UNCHANGED <<Inputs, pc, next, skipped_behavioral, branch, exit>>

InBranch == pc = "vectors" /\ Fixture.family = "wit"

\* A step of the wit- branch.
CheckWitnesses ==
  /\ InBranch
  /\ UNCHANGED <<Inputs, pc, next, todo, skipped_behavioral, exit>>
  /\ Branch!Next

CheckerRaises ==
  /\ pc = "vectors"
  /\ \/ todo # << >> /\ Head(todo) = "raise"
     \/ InBranch /\ ret = "raised"
  /\ Exit("1")

\* After the last vector, and after the quorum of a wit- fixture.
FinishFixture ==
  /\ pc = "vectors"
  /\ todo = << >>
  /\ InBranch => ret = "done"
  /\ pc' = "fixture"
  /\ next' = next + 1
  /\ UNCHANGED <<Inputs, todo, passes, failures, skipped_behavioral, branch, exit>>

AtEnd == pc = "fixture" /\ next > Len(corpus)

NothingExecuted ==
  /\ AtEnd
  /\ only
  /\ passes = 0 /\ failures = 0
  /\ Exit("1")

Report ==
  \/ AtEnd /\ only /\ (passes # 0 \/ failures # 0)
  \/ pc = "report"

ReportResult ==
  /\ Report
  /\ Exit(IF failures > 0 THEN "1" ELSE "0")

\* The two golden examples, in order, when no filter is given.
CheckGolden(which, from, to) ==
  /\ from
  /\ golden[which] # "raise"
  /\ passes' = IF golden[which] = "pass" THEN passes + 1 ELSE passes
  /\ failures' = IF golden[which] = "fail" THEN failures + 1 ELSE failures
  /\ pc' = to
  /\ UNCHANGED <<Inputs, next, todo, skipped_behavioral, branch, exit>>

CheckRetrievalExample == CheckGolden(1, AtEnd /\ ~only, "receipt")
CheckReceiptExample == CheckGolden(2, pc = "receipt", "report")

GoldenRaises ==
  /\ \/ AtEnd /\ ~only /\ golden[1] = "raise"
     \/ pc = "receipt" /\ golden[2] = "raise"
  /\ Exit("1")

Next ==
  \/ Unparsable
  \/ FilterOut
  \/ UnknownFamily
  \/ SkipBehavioral
  \/ Dispatch
  \/ CheckVector
  \/ CheckWitnesses
  \/ CheckerRaises
  \/ FinishFixture
  \/ NothingExecuted
  \/ ReportResult
  \/ CheckRetrievalExample
  \/ CheckReceiptExample
  \/ GoldenRaises

\* One process, one thread, no blocking call.
Spec == Init /\ [][Next]_vars /\ WF_vars(Next)
----------------------------------------------------------------------------
TypeOK ==
  /\ only \in BOOLEAN
  /\ pc \in {"fixture", "vectors", "receipt", "report", "exited"}
  /\ next \in Nat
  /\ todo \in Seq(Outcomes)
  /\ passes \in Nat
  /\ failures \in Nat
  /\ skipped_behavioral \in Seq(Nat)
  /\ exit \in {"none", "0", "1"}

\* What a vector deserves, read off the fixture alone.
Fine(f, n) ==
  IF f.family = "wit"
    THEN /\ f.chain \in {None, f.vectors[n].checkpoint}
         /\ f.vectors[n].keypair = "right" /\ f.vectors[n].version
         /\ f.vectors[n].pins /\ f.vectors[n].times
         /\ f.vectors[n].assembled \in {"absent", "right"}
    ELSE f.vectors[n] \in {"pass", "none"}

\* A pinned quorum is the number of witnesses of the target.
QuorumHolds(f) ==
  f.quorum.pinned =>
    f.quorum.count =
      Cardinality({f.vectors[n].witness :
                     n \in {m \in DOMAIN f.vectors :
                              f.vectors[m].checkpoint = f.quorum.target}})

\* What exit status 0 certifies, said of the directory alone: every file
\* parses, no selected fixture has a typo in its family, an empty vector list
\* or a deviating vector, and something was verified.
Clean(f) ==
  Selected(f) =>
    /\ f.family \in KnownFamilies
    /\ Executable(f) =>
         /\ f.vectors # << >>
         /\ \A n \in DOMAIN f.vectors : Fine(f, n)
         /\ f.family = "wit" => QuorumHolds(f)

Verifies(f) ==
  /\ Selected(f)
  /\ Executable(f)
  /\ \/ f.family = "wit" /\ f.vectors # << >>
     \/ f.family # "wit" /\ \E n \in DOMAIN f.vectors : f.vectors[n] = "pass"

Certified ==
  /\ \A n \in DOMAIN corpus : corpus[n].parses /\ Clean(corpus[n])
  /\ IF only
       THEN \E n \in DOMAIN corpus : Verifies(corpus[n])
       ELSE golden[1] = "pass" /\ golden[2] = "pass"

Verdict == INSTANCE Decision
  WITH right <- (IF Certified THEN "0" ELSE "1"), answer <- exit

\* The run always ends, and its exit status is 0 exactly when the directory
\* deserves it: no outcome is lost between the loop, the filter and the exit.
ExitStatusIsRight == Verdict!Spec

\* When nothing failed so far, the quorum a wit- fixture pins is the number
\* of its distinct witnesses with a cosignature that verifies over the target.
CountIsOfVerified == TypeOK /\ (InBranch => Branch!CountIsOfVerified)

\* When nothing failed so far, a quorum that is reached in a fixture chained
\* to a log is over the checkpoint of that log.
QuorumIsOverTheLog == InBranch => Branch!QuorumIsOverTheLog
=============================================================================
