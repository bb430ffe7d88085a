----------------------------- MODULE MCPipeline -----------------------------
(***************************************************************************)
(* Two scenarios in one run, told apart by the pull requests there are;    *)
(* their product is too large to check.                                    *)
(*                                                                         *)
(* Merging: a bump that is pushed to twice, a second bump that is sound    *)
(* alone and broken together with the first, and a spec change pushed to   *)
(* main by a person.  Three commits on main are enough for a run in        *)
(* progress, one that waits and a newer one that replaces it.              *)
(*                                                                         *)
(* Telling: the spec change, which both notify workflows' filters match,   *)
(* and a bump that neither does and that may land without triggering       *)
(* anything, in either order.  Two of the three consumers are jobs of one  *)
(* matrix.                                                                 *)
(***************************************************************************)
EXTENDS Pipeline

CONSTANTS bump, bump2, spec, rs, verifier, website, notify_spec, notify_website

MCPrs == {bump, bump2, spec}
MCMaxRev == [p \in MCPrs |-> CASE p = bump -> 2 [] p = bump2 -> 1 [] OTHER -> 0]
MCDependabot == {bump, bump2}
MCRequired == {"validate", "validate-all"}
MCNobody == {}
MCWorkflowOf == << >>
MCTouches == [p \in MCPrs |-> {}]

\* The first revision of bump is broken; so is its second with bump2; so is
\* the spec change, until bump2 is there too.
Bad(tree) ==
  \/ <<bump, 1>> \in tree
  \/ {<<bump, 2>>, <<bump2, 1>>} \subseteq tree
  \/ <<spec, 0>> \in tree /\ <<bump2, 1>> \notin tree
MCBroken == {tree \in SUBSET {<<bump, 1>>, <<bump, 2>>, <<bump2, 1>>, <<spec, 0>>} :
               Bad(tree)}
----------------------------------------------------------------------------
ToldPrs == {bump2, spec}
ToldWorkflows == {notify_spec, notify_website}
ToldConsumers == {rs, verifier, website}

Telling == INSTANCE Pipeline WITH
  Prs <- ToldPrs,
  MaxRev <- [p \in ToldPrs |-> MCMaxRev[p]],
  Dependabot <- {bump2},
  Workflows <- ToldWorkflows,
  Consumers <- ToldConsumers,
  WorkflowOf <- [c \in ToldConsumers |->
                   IF c = website THEN notify_website ELSE notify_spec],
  Touches <- [p \in ToldPrs |-> IF p = spec THEN ToldWorkflows ELSE {}]

InTelling == DOMAIN head = ToldPrs

MCInit == PipelineInit \/ Telling!PipelineInit

MCNext ==
  \/ ~InTelling /\ PipelineNext
  \/ InTelling /\ Telling!PipelineNext

\* The runs' fairness mentions no pull request and is that of both scenarios.
MCSpec ==
  /\ MCInit
  /\ [][MCNext]_pipelineVars
  /\ Fairness
  /\ \A i \in 1..Cardinality(ToldPrs), c \in ToldConsumers :
       WF_pipelineVars(InTelling /\ Telling!Notify(i, c))

\* Again and again no consumer is left untold of what it reads.  It takes the
\* bot to land nothing a consumer reads, for what it lands need not trigger
\* workflows (auto-merge.yml, dependabot.yml), and the jobs of a matrix to run
\* to their own ends, whatever becomes of the others (fail-fast: false).
EveryChangeIsTold ==
  \A c \in ToldConsumers : []<>(InTelling => Telling!NothingUntold(c))
=============================================================================
