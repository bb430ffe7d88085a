------------------------------ MODULE Pipeline ------------------------------
(***************************************************************************)
(* What .github/workflows makes of pull requests and pushes: ci.yml judges *)
(* trees, auto-merge.yml arms Dependabot's pull requests, the notify       *)
(* workflows tell the consumers.  GitHub itself (triggers, concurrency     *)
(* groups, required checks, native auto-merge) is external and modelled    *)
(* from how the workflows use it.                                          *)
(*                                                                         *)
(* A tree is the set of changes it contains, a change a pull request at    *)
(* one of its revisions.  Two sound changes may be broken together, so     *)
(* which trees `make validate` refuses is a constant.                      *)
(***************************************************************************)
EXTENDS Naturals, Sequences, FiniteSets

CONSTANTS
  Prs,         \* pull requests
  Main,        \* the other ref: main
  MaxRev,      \* how often each pull request is pushed to (bound)
  Broken,      \* trees on which some step of the validate job exits 1
  Dependabot,  \* its patch and minor bumps
  Required,    \* the jobs branch protection waits for
  Workflows,   \* the notify workflows
  Consumers,   \* repositories that are told of a change
  WorkflowOf,  \* WorkflowOf[c]: the workflow one of whose jobs tells c
  Touches      \* Touches[p]: the workflows whose paths filter matches p

ASSUME PipelineAssumption ==
  /\ Main \notin Prs
  /\ MaxRev \in [Prs -> Nat]
  /\ Dependabot \subseteq Prs
  /\ "validate" \in Required    \* auto-merge.yml: "(CI: make validate)"
  /\ WorkflowOf \in [Consumers -> Workflows]
  /\ Touches \in [Prs -> SUBSET Workflows]
  \* dependabot.yml: requirements and workflow files, which no filter matches
  /\ \A p \in Dependabot : Touches[p] = {}

VARIABLES
  head,    \* head[p]: the revision p is at, 0 before it is opened
  main,    \* the commits of main after the first one
  runs     \* the CI runs, in the order they were triggered

pipelineVars == <<head, main, runs>>

ChangeOf(p) == <<p, head[p]>>
TreeAt(i) == IF i = 0 THEN {} ELSE main[i].tree
Merged(p) == \E i \in DOMAIN main : main[i].pr = p

\* Mutant of Group: the group leaves out github.ref.
SharedGroup(ref) == Main

\* concurrency.group and concurrency.cancel-in-progress.
Group(ref) == ref
CancelInProgress(ref) == ref # Main

SameGroup(i, ref) == Group(runs[i].ref) = Group(ref)

\* A run of a group waits for the one in progress; one run may wait, and a
\* newer one takes its place.
Superseded(i, ref) ==
  /\ SameGroup(i, ref)
  /\ \/ runs[i].status = "pending"
     \/ runs[i].status = "running" /\ CancelInProgress(ref)

Blocked(ref) ==
  \E i \in DOMAIN runs :
    SameGroup(i, ref) /\ runs[i].status = "running" /\ ~Superseded(i, ref)

Trigger(ref, rev, tree) ==
  runs' = Append(
    [i \in DOMAIN runs |->
       IF Superseded(i, ref) THEN [runs[i] EXCEPT !.status = "cancelled"]
                             ELSE runs[i]],
    [ref |-> ref, rev |-> rev, tree |-> tree,
     status |-> IF Blocked(ref) THEN "pending" ELSE "running"])

StartRun(i) ==
  /\ i \in DOMAIN runs
  /\ runs[i].status = "pending"
  /\ ~Blocked(runs[i].ref)
  /\ runs' = [runs EXCEPT ![i].status = "running"]
  /\ UNCHANGED <<head, main>>

\* The validate job: its steps in order, the first that exits 1 ends it, and
\* so does the timeout or a step that cannot install its tools.
Validate(i) ==
  /\ i \in DOMAIN runs
  /\ runs[i].status = "running"
  /\ \E status \in {"passed", "failed"} :
       /\ status = "passed" => runs[i].tree \notin Broken
       /\ runs' = [runs EXCEPT ![i].status = status]
  /\ UNCHANGED <<head, main>>

\* What a job of a finished run reports to a required check.  validate-all
\* needs validate: after a failure it is skipped, which counts as success.
ReportsSuccess(job, run) ==
  IF job = "validate" THEN run.status = "passed"
                      ELSE run.status \in {"passed", "failed"}

\* The required checks of the latest run at the head.
OfHead(i, p) == runs[i].ref = p /\ runs[i].rev = head[p]

\* Mutant of ChecksGreen: the summary job alone is required.
SummaryGreen(p) ==
  \E i \in DOMAIN runs :
    /\ OfHead(i, p)
    /\ \A j \in DOMAIN runs : j > i => ~OfHead(j, p)
    /\ ReportsSuccess("validate-all", runs[i])

ChecksGreen(p) ==
  \E i \in DOMAIN runs :
    /\ OfHead(i, p)
    /\ \A j \in DOMAIN runs : j > i => ~OfHead(j, p)
    /\ \A job \in Required : ReportsSuccess(job, runs[i])
----------------------------------------------------------------------------
PipelineInit ==
  /\ head = [p \in Prs |-> 0]
  /\ main = << >>
  /\ runs = << >>

\* A pull request is opened or pushed to; the run checks out its merge with
\* main as it is now.
Push(p) ==
  /\ ~Merged(p)
  /\ head[p] < MaxRev[p]
  /\ head' = [head EXCEPT ![p] = @ + 1]
  /\ Trigger(p, head[p] + 1, TreeAt(Len(main)) \cup {<<p, head[p] + 1>>})
  /\ UNCHANGED main

\* p lands on main.  Whether the push triggers workflows depends on the token
\* it was made with.
Land(p, auto, triggers) ==
  LET tree == TreeAt(Len(main)) \cup {ChangeOf(p)} IN
  /\ ~Merged(p)
  /\ main' = Append(main,
       [pr |-> p, rev |-> head[p], tree |-> tree, auto |-> auto,
        told |-> [c \in Consumers |->
                    IF triggers /\ WorkflowOf[c] \in Touches[p]
                      THEN "queued" ELSE "no"]])
  /\ IF triggers THEN Trigger(Main, Len(main) + 1, tree) ELSE UNCHANGED runs
  /\ UNCHANGED head

\* auto-merge.yml arms native auto-merge on Dependabot's pull requests.  It may
\* do so late, but so may the merge come late: arming is no step of its own.
AutoMerge(p) ==
  /\ p \in Dependabot
  /\ ChecksGreen(p)
  /\ \E triggers \in BOOLEAN : Land(p, TRUE, triggers)

\* People merge when they see fit, or push to main directly (revision 0).
HumanMerge(p) ==
  /\ head[p] > 0 \/ p \notin Dependabot
  /\ Land(p, FALSE, TRUE)

\* The job of workflow WorkflowOf[c] for c ends, and the jobs for the commit
\* that are still queued are cancelled for the consumers in dropped.
Tell(i, c, outcome, dropped) ==
  LET Dropped(d) == d \in dropped /\ main[i].told[d] = "queued" IN
  /\ i \in DOMAIN main
  /\ main[i].told[c] = "queued"
  /\ main' = [main EXCEPT ![i].told =
       [d \in Consumers |-> IF d = c THEN outcome
                            ELSE IF Dropped(d) THEN "cancelled" ELSE main[i].told[d]]]
  /\ UNCHANGED <<head, runs>>

\* Mutant of Notify: fail-fast, the default, drops the rest of the matrix.
NotifyFailFast(i, c) ==
  \/ Tell(i, c, "told", {})
  \/ Tell(i, c, "failed", {d \in Consumers : WorkflowOf[d] = WorkflowOf[c]})

\* One job: minting the token or the dispatch may fail.  fail-fast is false.
Notify(i, c) == \E outcome \in {"told", "failed"} : Tell(i, c, outcome, {})

\* workflow_dispatch, on main: somebody has one workflow announce the tip to
\* its consumers.  Bound: not while its jobs for the tip are still queued.
Redispatch(w) ==
  /\ main # << >>
  /\ \A c \in Consumers : WorkflowOf[c] = w => main[Len(main)].told[c] # "queued"
  /\ main' = [main EXCEPT ![Len(main)].told =
       [c \in Consumers |->
          IF WorkflowOf[c] = w THEN "queued" ELSE main[Len(main)].told[c]]]
  /\ UNCHANGED <<head, runs>>

PipelineNext ==
  \/ \E p \in Prs : Push(p) \/ AutoMerge(p) \/ HumanMerge(p)
  \/ \E i \in DOMAIN runs : StartRun(i) \/ Validate(i)
  \/ \E i \in DOMAIN main, c \in Consumers : Notify(i, c)
  \/ \E w \in Workflows : Redispatch(w)

\* timeout-minutes ends every job that was started, and hosted runners start
\* what is queued.  Nobody is obliged to push, arm or merge.
Fairness ==
  /\ WF_pipelineVars(\E i \in DOMAIN runs : StartRun(i))
  /\ WF_pipelineVars(\E i \in DOMAIN runs : Validate(i))
  /\ \A i \in 1..Cardinality(Prs), c \in Consumers : WF_pipelineVars(Notify(i, c))

PipelineSpec == PipelineInit /\ [][PipelineNext]_pipelineVars /\ Fairness
----------------------------------------------------------------------------
Trees == SUBSET (Prs \X Nat)
Runs == [ref : Prs \cup {Main}, rev : Nat, tree : Trees,
         status : {"pending", "running", "passed", "failed", "cancelled"}]
Commits == [pr : Prs, rev : Nat, tree : Trees, auto : BOOLEAN,
            told : [Consumers -> {"no", "queued", "told", "failed"}]]

PipelineTypeOK ==
  /\ head \in [Prs -> Nat]
  /\ main \in Seq(Commits)
  /\ runs \in Seq(Runs)

\* What auto-merge landed was validated: a run of that pull request, at the
\* revision that landed, passed on a tree that is not broken, which was main
\* at some earlier moment plus the change.  A broken tree can thus come about
\* only when main moved between the run and the merge.
ValidatedAt(i, r, j) ==
  /\ runs[r].ref = main[i].pr /\ runs[r].rev = main[i].rev
  /\ runs[r].status = "passed" /\ runs[r].tree \notin Broken
  /\ runs[r].tree = TreeAt(j) \cup {<<main[i].pr, main[i].rev>>}

MergedWasValidated ==
  \A i \in DOMAIN main : main[i].auto =>
    \E r \in DOMAIN runs, j \in 0 .. i - 1 : ValidatedAt(i, r, j)

\* Once pushes stop, the newest run of main has been judged: it was not
\* cancelled by an older one, nor by a pull request's, nor left waiting.
NewestOfMain(i) ==
  /\ runs[i].ref = Main
  /\ \A j \in DOMAIN runs : j > i => runs[j].ref # Main

HeadOfMainIsJudged ==
  <>[](\A i \in DOMAIN runs :
         NewestOfMain(i) => runs[i].status \in {"passed", "failed"})

\* Nothing is left that a consumer reads and was not told of: the commit, or a
\* later one, which contains it, was announced to the consumer, unless the
\* consumer's own job failed.
Announced(i, c) ==
  \E j \in DOMAIN main : j >= i /\ main[j].told[c] \in {"told", "failed"}

NothingUntold(c) ==
  \A i \in DOMAIN main :
    WorkflowOf[c] \in Touches[main[i].pr] => Announced(i, c)
=============================================================================
