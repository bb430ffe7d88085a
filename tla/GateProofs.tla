----------------------------- MODULE GateProofs -----------------------------
(***************************************************************************)
(* The gate a change passes: what the workflows let land, and what the two *)
(* programs their validate job runs, the consistency checker and the       *)
(* conformance runner, let pass.                                           *)
(***************************************************************************)
EXTENDS Pipeline, ConsistencyCheck, Runner, SequenceTheorems, FiniteSetTheorems, TLAPS

(***************************************************************************)
(* The workflows.  What auto-merge lands was validated: for any number of  *)
(* pull requests and revisions, whatever trees are broken.  Two facts      *)
(* carry the proof: commits and runs keep what they recorded, and a run    *)
(* that passed goes on having passed.                                      *)
(***************************************************************************)

Refs == Prs \cup {Main}

\* Every pull request's run checked out some state of main plus the change.
Based ==
  \A r \in DOMAIN runs : runs[r].ref # Main =>
    \E j \in 0 .. Len(main) :
      runs[r].tree = TreeAt(j) \cup {<<runs[r].ref, runs[r].rev>>}

\* validate passes no broken tree.
Sound ==
  \A r \in DOMAIN runs : runs[r].status = "passed" => runs[r].tree \notin Broken

PipelineIInv == PipelineTypeOK /\ Based /\ Sound /\ MergedWasValidated

\* What a step leaves of the commits and of the runs there are.
MainKept ==
  /\ Len(main) <= Len(main')
  /\ \A i \in DOMAIN main :
       /\ main'[i].pr = main[i].pr /\ main'[i].rev = main[i].rev
       /\ main'[i].tree = main[i].tree /\ main'[i].auto = main[i].auto

RunsKept ==
  /\ Len(runs) <= Len(runs')
  /\ \A r \in DOMAIN runs :
       /\ runs'[r].ref = runs[r].ref /\ runs'[r].rev = runs[r].rev
       /\ runs'[r].tree = runs[r].tree
       /\ runs[r].status = "passed" => runs'[r].status = "passed"

\* A run is not born passed, and one that passes passes a sound tree.
PassedBySound ==
  \A r \in DOMAIN runs' : runs'[r].status = "passed" =>
    \/ r \in DOMAIN runs /\ runs[r].status = "passed"
    \/ runs'[r].tree \notin Broken

LEMMA TypedSequences ==
  ASSUME PipelineTypeOK
  PROVE  /\ Len(main) \in Nat /\ DOMAIN main = 1 .. Len(main)
         /\ \A i \in DOMAIN main : main[i] \in Commits
         /\ Len(runs) \in Nat /\ DOMAIN runs = 1 .. Len(runs)
         /\ \A r \in DOMAIN runs : runs[r] \in Runs
BY DEF PipelineTypeOK

LEMMA TreeTyped ==
  ASSUME PipelineTypeOK, NEW j \in 0 .. Len(main)
  PROVE  TreeAt(j) \in Trees
<1>1. CASE j = 0
  BY <1>1 DEF TreeAt, Trees
<1>2. CASE j # 0
  <2>1. j \in DOMAIN main /\ main[j] \in Commits
    BY <1>2, TypedSequences
  <2> QED
    BY <1>2, <2>1 DEF TreeAt, Commits
<1> QED
  BY <1>1, <1>2

\* A trigger adds one run, which has not passed, and may cancel others.
LEMMA TriggerAddsOne ==
  ASSUME PipelineTypeOK, NEW ref \in Refs, NEW rev \in Nat, NEW tree \in Trees,
         Trigger(ref, rev, tree)
  PROVE  /\ runs' \in Seq(Runs) /\ RunsKept /\ PassedBySound
         /\ Len(runs') = Len(runs) + 1
         /\ runs'[Len(runs) + 1].ref = ref /\ runs'[Len(runs) + 1].rev = rev
         /\ runs'[Len(runs) + 1].tree = tree
<1> DEFINE kept == [i \in DOMAIN runs |->
                      IF Superseded(i, ref)
                        THEN [runs[i] EXCEPT !.status = "cancelled"]
                        ELSE runs[i]]
           new == [ref |-> ref, rev |-> rev, tree |-> tree,
                   status |-> IF Blocked(ref) THEN "pending" ELSE "running"]
<1>1. runs' = Append(kept, new)
  BY DEF Trigger
<1>2. \A i \in DOMAIN runs : kept[i] \in Runs
  <2> SUFFICES ASSUME NEW i \in DOMAIN runs PROVE kept[i] \in Runs
    OBVIOUS
  <2>1. runs[i] \in Runs
    BY TypedSequences
  <2> QED
    BY <2>1 DEF Runs
<1>3. kept \in Seq(Runs) /\ Len(kept) = Len(runs)
  BY <1>2, TypedSequences, IsASeq
<1>4. new \in Runs
  BY DEF Runs, Refs
<1>5. /\ runs' \in Seq(Runs) /\ Len(runs') = Len(runs) + 1
      /\ \A i \in 1 .. Len(runs) : runs'[i] = kept[i]
      /\ runs'[Len(runs) + 1] = new
  BY <1>1, <1>3, <1>4, AppendProperties
<1>6. \A i \in DOMAIN runs :
        /\ kept[i].ref = runs[i].ref /\ kept[i].rev = runs[i].rev
        /\ kept[i].tree = runs[i].tree
        /\ kept[i].status \in {runs[i].status, "cancelled"}
        /\ runs[i].status = "passed" => kept[i].status = "passed"
  <2> SUFFICES ASSUME NEW i \in DOMAIN runs
               PROVE  /\ kept[i].ref = runs[i].ref /\ kept[i].rev = runs[i].rev
                      /\ kept[i].tree = runs[i].tree
                      /\ kept[i].status \in {runs[i].status, "cancelled"}
                      /\ runs[i].status = "passed" => kept[i].status = "passed"
    OBVIOUS
  <2>1. runs[i] \in Runs
    BY TypedSequences
  <2>2. CASE Superseded(i, ref)
    BY <2>1, <2>2 DEF Runs, Superseded
  <2>3. CASE ~Superseded(i, ref)
    BY <2>3
  <2> QED
    BY <2>2, <2>3
<1>7. RunsKept
  <2> HIDE DEF kept
  <2> QED
    BY <1>5, <1>6, TypedSequences DEF RunsKept
<1>8. PassedBySound
  <2> SUFFICES ASSUME NEW r \in DOMAIN runs', runs'[r].status = "passed"
               PROVE  r \in DOMAIN runs /\ runs[r].status = "passed"
    BY DEF PassedBySound
  <2>1. r \in 1 .. Len(runs) + 1
    BY <1>5, LenProperties
  <2>2. r # Len(runs) + 1
    BY <1>5
  <2>3. r \in DOMAIN runs
    BY <2>1, <2>2, TypedSequences
  <2> QED
    BY <1>5, <1>6, <2>3, TypedSequences
<1> QED
  BY <1>5, <1>7, <1>8

\* The facts the four kinds of step give, and what follows from them.
LEMMA KeptInvariant ==
  ASSUME PipelineIInv, PipelineTypeOK', MainKept, RunsKept, PassedBySound,
         \A r \in DOMAIN runs' : r \in DOMAIN runs \/ runs'[r].ref = Main
           \/ \E j \in 0 .. Len(main)' :
                runs'[r].tree = TreeAt(j)' \cup {<<runs'[r].ref, runs'[r].rev>>},
         \A i \in DOMAIN main' : i \in DOMAIN main \/ ~main'[i].auto
           \/ \E r \in DOMAIN runs', j \in 0 .. i - 1 : ValidatedAt(i, r, j)'
  PROVE  PipelineIInv'
<1>1. /\ Len(main) \in Nat /\ DOMAIN main = 1 .. Len(main)
      /\ Len(runs) \in Nat /\ DOMAIN runs = 1 .. Len(runs)
  BY TypedSequences DEF PipelineIInv
<1>2. /\ Len(main') \in Nat /\ DOMAIN main' = 1 .. Len(main')
      /\ Len(runs') \in Nat /\ DOMAIN runs' = 1 .. Len(runs')
  BY DEF PipelineTypeOK
<1>3. \A j \in 0 .. Len(main) : TreeAt(j)' = TreeAt(j)
  BY <1>1 DEF MainKept, TreeAt
<1>4. Sound'
  <2> SUFFICES ASSUME NEW r \in DOMAIN runs', runs'[r].status = "passed"
               PROVE  runs'[r].tree \notin Broken
    BY DEF Sound
  <2> QED
    BY DEF PassedBySound, RunsKept, PipelineIInv, Sound
<1>5. Based'
  <2> SUFFICES ASSUME NEW r \in DOMAIN runs', runs'[r].ref # Main
               PROVE  \E j \in 0 .. Len(main)' :
                        runs'[r].tree = TreeAt(j)' \cup {<<runs'[r].ref, runs'[r].rev>>}
    BY DEF Based
  <2>1. CASE r \in DOMAIN runs
    <3>1. PICK j \in 0 .. Len(main) :
            runs[r].tree = TreeAt(j) \cup {<<runs[r].ref, runs[r].rev>>}
      BY <2>1 DEF PipelineIInv, Based, RunsKept
    <3>2. j \in 0 .. Len(main)'
      BY <1>1, <1>2 DEF MainKept
    <3> QED
      BY <1>3, <2>1, <3>1, <3>2 DEF RunsKept
  <2>2. CASE r \notin DOMAIN runs
    BY <2>2
  <2> QED
    BY <2>1, <2>2
<1>6. MergedWasValidated'
  <2> SUFFICES ASSUME NEW i \in DOMAIN main', main'[i].auto
               PROVE  \E r \in DOMAIN runs', j \in 0 .. i - 1 : ValidatedAt(i, r, j)'
    BY DEF MergedWasValidated
  <2>1. CASE i \in DOMAIN main
    <3>1. main[i].auto
      BY <2>1 DEF MainKept
    <3>2. PICK r \in DOMAIN runs, j \in 0 .. i - 1 : ValidatedAt(i, r, j)
      BY <2>1, <3>1 DEF PipelineIInv, MergedWasValidated
    <3>3. r \in DOMAIN runs' /\ j \in 0 .. Len(main)
      BY <1>1, <1>2, <2>1 DEF RunsKept
    <3>4. TreeAt(j)' = TreeAt(j)
      BY <1>3, <3>3
    <3>5. ValidatedAt(i, r, j)'
      BY <2>1, <3>2, <3>4 DEF ValidatedAt, MainKept, RunsKept
    <3> QED
      BY <3>3, <3>5
  <2>2. CASE i \notin DOMAIN main
    BY <2>2
  <2> QED
    BY <2>1, <2>2
<1> QED
  BY <1>4, <1>5, <1>6 DEF PipelineIInv

LEMMA PipelineInitIInv == PipelineInit => PipelineIInv
<1> SUFFICES ASSUME PipelineInit PROVE PipelineIInv
  OBVIOUS
<1>1. PipelineTypeOK
  BY DEF PipelineInit, PipelineTypeOK
<1> QED
  BY <1>1 DEF PipelineInit, PipelineIInv, Based, Sound, MergedWasValidated

\* A run changes its status and nothing else.
LEMMA StatusStep ==
  ASSUME PipelineIInv, NEW i \in DOMAIN runs, runs[i].status # "passed",
         NEW s \in {"running", "passed", "failed"},
         s = "passed" => runs[i].tree \notin Broken,
         runs' = [runs EXCEPT ![i].status = s], UNCHANGED <<head, main>>
  PROVE  PipelineIInv'
<1>1. /\ Len(runs) \in Nat /\ DOMAIN runs = 1 .. Len(runs) /\ runs[i] \in Runs
  BY TypedSequences DEF PipelineIInv
<1>2. [runs[i] EXCEPT !.status = s] \in Runs
  BY <1>1 DEF Runs
<1>3. runs' = [runs EXCEPT ![i] = [runs[i] EXCEPT !.status = s]]
  OBVIOUS
<1>4. /\ runs' \in Seq(Runs) /\ Len(runs') = Len(runs) /\ DOMAIN runs' = DOMAIN runs
  BY <1>1, <1>2, <1>3, ExceptSeq, LenProperties DEF PipelineIInv, PipelineTypeOK
<1>5. PipelineTypeOK'
  BY <1>4 DEF PipelineIInv, PipelineTypeOK
<1>6. \A r \in DOMAIN runs : r # i => runs'[r] = runs[r]
  BY <1>3
<1>7. /\ runs'[i].ref = runs[i].ref /\ runs'[i].rev = runs[i].rev
      /\ runs'[i].tree = runs[i].tree /\ runs'[i].status = s
  BY <1>1, <1>3 DEF Runs
<1>8. RunsKept /\ PassedBySound
  BY <1>1, <1>4, <1>6, <1>7 DEF RunsKept, PassedBySound
<1>9. MainKept
  BY TypedSequences DEF MainKept, PipelineIInv
<1> QED
  BY <1>4, <1>5, <1>8, <1>9, KeptInvariant

LEMMA PushIInv ==
  ASSUME PipelineIInv, NEW p \in Prs, Push(p)
  PROVE  PipelineIInv'
<1> DEFINE rev == head[p] + 1
           tree == TreeAt(Len(main)) \cup {<<p, rev>>}
<1>1. PipelineTypeOK /\ Len(main) \in Nat /\ rev \in Nat /\ p # Main
  BY TypedSequences, PipelineAssumption DEF PipelineIInv, PipelineTypeOK
<1>2. tree \in Trees
  <2>1. TreeAt(Len(main)) \in Trees
    BY <1>1, TreeTyped
  <2> QED
    BY <1>1, <2>1 DEF Trees
<1>3. Trigger(p, rev, tree) /\ main' = main
  BY DEF Push
<1>4. /\ runs' \in Seq(Runs) /\ RunsKept /\ PassedBySound
      /\ Len(runs') = Len(runs) + 1
      /\ runs'[Len(runs) + 1].ref = p /\ runs'[Len(runs) + 1].rev = rev
      /\ runs'[Len(runs) + 1].tree = tree
  <2> HIDE DEF rev, tree
  <2> QED
    BY <1>1, <1>2, <1>3, TriggerAddsOne DEF Refs
<1>5. PipelineTypeOK'
  BY <1>1, <1>3, <1>4 DEF PipelineTypeOK, Push
<1>6. MainKept
  BY <1>1, <1>3 DEF MainKept
<1>7. \A r \in DOMAIN runs' : r \in DOMAIN runs \/
        \E j \in 0 .. Len(main)' :
          runs'[r].tree = TreeAt(j)' \cup {<<runs'[r].ref, runs'[r].rev>>}
  <2> SUFFICES ASSUME NEW r \in DOMAIN runs', r \notin DOMAIN runs
               PROVE  \E j \in 0 .. Len(main)' :
                        runs'[r].tree = TreeAt(j)' \cup {<<runs'[r].ref, runs'[r].rev>>}
    OBVIOUS
  <2>1. r = Len(runs) + 1
    BY <1>1, <1>4, TypedSequences, LenProperties
  <2>2. TreeAt(Len(main))' = TreeAt(Len(main)) /\ Len(main)' = Len(main)
    BY <1>3 DEF TreeAt
  <2> QED
    BY <1>1, <1>4, <2>1, <2>2
<1>8. \A i \in DOMAIN main' : i \in DOMAIN main
  BY <1>3
<1> QED
  BY <1>4, <1>5, <1>6, <1>7, <1>8, KeptInvariant

\* Green checks at the head: a run of that revision that passed.
LEMMA GreenMeansPassed ==
  ASSUME NEW p \in Prs, ChecksGreen(p)
  PROVE  \E r \in DOMAIN runs :
           runs[r].ref = p /\ runs[r].rev = head[p] /\ runs[r].status = "passed"
<1>1. PICK r \in DOMAIN runs :
        OfHead(r, p) /\ \A job \in Required : ReportsSuccess(job, runs[r])
  BY DEF ChecksGreen
<1>2. ReportsSuccess("validate", runs[r])
  BY <1>1, PipelineAssumption
<1> QED
  BY <1>1, <1>2 DEF OfHead, ReportsSuccess

LEMMA LandIInv ==
  ASSUME PipelineIInv, NEW p \in Prs, NEW auto \in BOOLEAN, NEW triggers \in BOOLEAN,
         Land(p, auto, triggers), auto => ChecksGreen(p)
  PROVE  PipelineIInv'
<1> DEFINE tree == TreeAt(Len(main)) \cup {<<p, head[p]>>}
           told == [c \in Consumers |->
                      IF triggers /\ WorkflowOf[c] \in Touches[p]
                        THEN "queued" ELSE "no"]
           commit == [pr |-> p, rev |-> head[p], tree |-> tree, auto |-> auto,
                      told |-> told]
<1>1. PipelineTypeOK /\ Len(main) \in Nat /\ head[p] \in Nat
  BY TypedSequences DEF PipelineIInv, PipelineTypeOK
<1>2. tree \in Trees
  <2>1. TreeAt(Len(main)) \in Trees
    BY <1>1, TreeTyped
  <2> QED
    BY <1>1, <2>1 DEF Trees
<1>3. commit \in Commits
  <2>1. told \in [Consumers -> {"no", "queued", "told", "failed"}]
    OBVIOUS
  <2> HIDE DEF told, tree
  <2> QED
    BY <1>1, <1>2, <2>1 DEF Commits
<1>4. /\ main' = Append(main, commit) /\ head' = head
      /\ triggers => Trigger(Main, Len(main) + 1, tree)
      /\ ~triggers => runs' = runs
  BY DEF Land, ChangeOf
<1> HIDE DEF commit
<1>5. /\ main' \in Seq(Commits) /\ Len(main') = Len(main) + 1
      /\ \A i \in 1 .. Len(main) : main'[i] = main[i]
      /\ main'[Len(main) + 1] = commit
  BY <1>1, <1>3, <1>4, AppendProperties DEF PipelineTypeOK
<1>6. MainKept
  BY <1>1, <1>5, TypedSequences DEF MainKept
<1>7. /\ runs' \in Seq(Runs) /\ RunsKept /\ PassedBySound
      /\ \A r \in DOMAIN runs' : r \in DOMAIN runs \/ runs'[r].ref = Main
  <2>1. CASE triggers
    <3>1. /\ runs' \in Seq(Runs) /\ RunsKept /\ PassedBySound
          /\ Len(runs') = Len(runs) + 1 /\ runs'[Len(runs) + 1].ref = Main
      <4> HIDE DEF tree
      <4>1. Main \in Refs /\ Len(main) + 1 \in Nat
        BY <1>1 DEF Refs
      <4>2. Trigger(Main, Len(main) + 1, tree)
        BY <1>4, <2>1
      <4> QED
        BY <1>1, <1>2, <4>1, <4>2, TriggerAddsOne
    <3>2. \A r \in DOMAIN runs' : r \in DOMAIN runs \/ r = Len(runs) + 1
      BY <1>1, <3>1, TypedSequences, LenProperties
    <3> QED
      BY <3>1, <3>2
  <2>2. CASE ~triggers
    BY <1>1, <1>4, <2>2, TypedSequences DEF PipelineTypeOK, RunsKept, PassedBySound
  <2> QED
    BY <2>1, <2>2
<1>8. PipelineTypeOK'
  BY <1>1, <1>4, <1>5, <1>7 DEF PipelineTypeOK
<1>9. \A i \in DOMAIN main' : i \in DOMAIN main \/ ~main'[i].auto
        \/ \E r \in DOMAIN runs', j \in 0 .. i - 1 : ValidatedAt(i, r, j)'
  <2> SUFFICES ASSUME NEW i \in DOMAIN main', i \notin DOMAIN main, main'[i].auto
               PROVE  \E r \in DOMAIN runs', j \in 0 .. i - 1 : ValidatedAt(i, r, j)'
    OBVIOUS
  <2>1. i = Len(main) + 1 /\ DOMAIN main = 1 .. Len(main)
    BY <1>1, <1>5, TypedSequences, LenProperties
  <2>2. main'[i] = commit
    BY <1>5, <2>1
  <2>3. main'[i].pr = p /\ main'[i].rev = head[p] /\ auto
    BY <2>2 DEF commit
  <2>4. PICK r \in DOMAIN runs :
          runs[r].ref = p /\ runs[r].rev = head[p] /\ runs[r].status = "passed"
    BY <2>3, GreenMeansPassed
  <2>5. p # Main
    BY PipelineAssumption
  <2>6. PICK j \in 0 .. Len(main) : runs[r].tree = TreeAt(j) \cup {<<p, head[p]>>}
    BY <2>4, <2>5 DEF PipelineIInv, Based
  <2>7. TreeAt(j)' = TreeAt(j)
    BY <1>1, <2>1, <2>6, <1>6 DEF TreeAt, MainKept
  <2>8. r \in DOMAIN runs' /\ runs'[r].tree = runs[r].tree /\ runs'[r].status = "passed"
        /\ runs'[r].ref = p /\ runs'[r].rev = head[p]
    BY <1>1, <1>7, <2>4, TypedSequences, LenProperties DEF RunsKept
  <2>9. runs[r].tree \notin Broken
    BY <2>4 DEF PipelineIInv, Sound
  <2>10. ValidatedAt(i, r, j)'
    BY <2>3, <2>6, <2>7, <2>8, <2>9 DEF ValidatedAt
  <2>11. j \in 0 .. i - 1
    BY <1>1, <2>1, <2>6
  <2> QED
    BY <2>8, <2>10, <2>11
<1> QED
  BY <1>6, <1>7, <1>8, <1>9, KeptInvariant

\* Telling a consumer changes nobody's commit.
LEMMA TellIInv ==
  ASSUME PipelineIInv, NEW i \in DOMAIN main,
         NEW told \in [Consumers -> {"no", "queued", "told", "failed"}],
         main' = [main EXCEPT ![i].told = told], UNCHANGED <<head, runs>>
  PROVE  PipelineIInv'
<1>1. /\ Len(main) \in Nat /\ DOMAIN main = 1 .. Len(main) /\ main[i] \in Commits
  BY TypedSequences DEF PipelineIInv
<1>2. [main[i] EXCEPT !.told = told] \in Commits
  BY <1>1 DEF Commits
<1>3. main' = [main EXCEPT ![i] = [main[i] EXCEPT !.told = told]]
  OBVIOUS
<1>4. /\ main' \in Seq(Commits) /\ Len(main') = Len(main) /\ DOMAIN main' = DOMAIN main
  BY <1>1, <1>2, <1>3, ExceptSeq, LenProperties DEF PipelineIInv, PipelineTypeOK
<1>5. PipelineTypeOK'
  BY <1>4 DEF PipelineIInv, PipelineTypeOK
<1>6. \A c \in DOMAIN main : c # i => main'[c] = main[c]
  BY <1>3
<1>7. /\ main'[i].pr = main[i].pr /\ main'[i].rev = main[i].rev
      /\ main'[i].tree = main[i].tree /\ main'[i].auto = main[i].auto
  BY <1>1, <1>3 DEF Commits
<1>8. MainKept
  BY <1>1, <1>4, <1>6, <1>7 DEF MainKept
<1>9. RunsKept /\ PassedBySound
  BY TypedSequences DEF RunsKept, PassedBySound, PipelineIInv
<1> QED
  BY <1>4, <1>5, <1>8, <1>9, KeptInvariant

LEMMA PipelineNextIInv == PipelineIInv /\ [PipelineNext]_pipelineVars => PipelineIInv'
<1> SUFFICES ASSUME PipelineIInv, [PipelineNext]_pipelineVars PROVE PipelineIInv'
  OBVIOUS
<1>1. ASSUME NEW p \in Prs, Push(p) PROVE PipelineIInv'
  BY <1>1, PushIInv
<1>2. ASSUME NEW p \in Prs, AutoMerge(p) PROVE PipelineIInv'
  <2>1. PICK triggers \in BOOLEAN : Land(p, TRUE, triggers)
    BY <1>2 DEF AutoMerge
  <2> QED
    BY <1>2, <2>1, LandIInv DEF AutoMerge
<1>3. ASSUME NEW p \in Prs, HumanMerge(p) PROVE PipelineIInv'
  BY <1>3, LandIInv DEF HumanMerge
<1>4. ASSUME NEW i \in DOMAIN runs, StartRun(i) PROVE PipelineIInv'
  BY <1>4, StatusStep DEF StartRun
<1>5. ASSUME NEW i \in DOMAIN runs, Validate(i) PROVE PipelineIInv'
  <2>1. PICK s \in {"passed", "failed"} :
          /\ s = "passed" => runs[i].tree \notin Broken
          /\ runs' = [runs EXCEPT ![i].status = s]
    BY <1>5 DEF Validate
  <2> QED
    BY <1>5, <2>1, StatusStep DEF Validate
<1>6. ASSUME NEW i \in DOMAIN main, NEW c \in Consumers, Notify(i, c) PROVE PipelineIInv'
  <2>1. PICK outcome \in {"told", "failed"} : Tell(i, c, outcome, {})
    BY <1>6 DEF Notify
  <2> DEFINE told == [d \in Consumers |->
                        IF d = c THEN outcome ELSE main[i].told[d]]
  <2>2. main[i].told \in [Consumers -> {"no", "queued", "told", "failed"}]
    BY TypedSequences DEF PipelineIInv, Commits
  <2>3. told \in [Consumers -> {"no", "queued", "told", "failed"}]
    BY <2>2
  <2>4. main' = [main EXCEPT ![i].told = told] /\ UNCHANGED <<head, runs>>
    BY <2>1 DEF Tell
  <2> HIDE DEF told
  <2> QED
    BY <2>3, <2>4, TellIInv
<1>7. ASSUME NEW w \in Workflows, Redispatch(w) PROVE PipelineIInv'
  <2> DEFINE told == [c \in Consumers |-> IF WorkflowOf[c] = w THEN "queued"
                                          ELSE main[Len(main)].told[c]]
  <2>1. Len(main) \in DOMAIN main
    <3>1. main \in Seq(Commits) /\ main # << >>
      BY <1>7 DEF Redispatch, PipelineIInv, PipelineTypeOK
    <3> QED
      BY <3>1, EmptySeq, LenProperties
  <2>2. told \in [Consumers -> {"no", "queued", "told", "failed"}]
    BY <2>1, TypedSequences DEF PipelineIInv, Commits
  <2>3. main' = [main EXCEPT ![Len(main)].told = told] /\ UNCHANGED <<head, runs>>
    BY <1>7 DEF Redispatch
  <2> HIDE DEF told
  <2> QED
    BY <2>1, <2>2, <2>3, TellIInv
<1>8. CASE UNCHANGED pipelineVars
  <2>1. main' = main /\ runs' = runs /\ head' = head
    BY <1>8 DEF pipelineVars
  <2>2. PipelineTypeOK' /\ Sound'
    BY <2>1 DEF PipelineIInv, PipelineTypeOK, Sound
  <2>3. Based'
    BY <2>1 DEF PipelineIInv, Based, TreeAt
  <2>4. MergedWasValidated'
    BY <2>1 DEF PipelineIInv, MergedWasValidated, ValidatedAt, TreeAt
  <2> QED
    BY <2>2, <2>3, <2>4 DEF PipelineIInv
<1> QED
  BY <1>1, <1>2, <1>3, <1>4, <1>5, <1>6, <1>7, <1>8 DEF PipelineNext

\* The state keeps its types.
THEOREM PipelineTyped == PipelineSpec => []PipelineTypeOK
<1>1. PipelineIInv => PipelineTypeOK
  BY DEF PipelineIInv
<1> QED
  BY PipelineInitIInv, PipelineNextIInv, <1>1, PTL DEF PipelineSpec

\* Whatever is pushed, cancelled or merged in between, what auto-merge landed
\* had passed validation at the revision that landed (ci.yml, auto-merge.yml).
THEOREM AutoMergeIsGated == PipelineSpec => []MergedWasValidated
<1>1. PipelineIInv => MergedWasValidated
  BY DEF PipelineIInv
<1> QED
  BY PipelineInitIInv, PipelineNextIInv, <1>1, PTL DEF PipelineSpec

----------------------------------------------------------------------------
(***************************************************************************)
(* The checker.  What it lets pass: for any repository, registry of        *)
(* optional families and series of changes.  The program only collects     *)
(* errors, so a check that added none has established something about the  *)
(* repository, and a run that passes has established it all; the loading   *)
(* of the fixtures makes it facts about the files on disk.                 *)
(***************************************************************************)

\* The control points behind a check.
AfterOptional == {"exit", "exited"}
AfterPlacement == {"digest", "optional"} \cup AfterOptional
AfterSync == {"examples", "schemas", "links", "placement"} \cup AfterPlacement
AfterCodes == {"error code sync"} \cup AfterSync
AfterMd == {"readme", "error codes"} \cup AfterCodes
AfterListed == {"profiles md"} \cup AfterMd
AfterLoad == {"families", "profiles json"} \cup AfterListed

\* What the checks establish.
ListedKnown ==
  \A p \in DOMAIN repo.profiles :
    Listed(p) \subseteq FixtureIds \cup {fixtures[i].stem : i \in FixtureIds}

MdMatches ==
  /\ FixtureIds \subseteq CoveredMd
  /\ \A i \in CoveredMd : i.fam \in FamiliesOf(FixtureIds) => i \in FixtureIds

CodesRegistered == \A i \in FixtureIds : fixtures[i].codes \subseteq Registered

SourcesAgree ==
  repo.rfc.codes = repo.registry.codes /\ repo.registry.codes = repo.schema.codes

Placed ==
  \A p \in DOMAIN repo.profiles :
    p \in DOMAIN repo.md /\ ProfileFixtures(p) \subseteq PlacedIn(p)

OptionalBarred ==
  /\ \A p \in DOMAIN repo.profiles : Barred(p, ProfileFixtures(p)) = {}
  /\ Consumer \in DOMAIN repo.md => Barred(Consumer, Covered(repo.md[Consumer])) = {}

Established(at) ==
  /\ at \in AfterListed => ListedKnown
  /\ at \in AfterMd => MdMatches
  /\ at \in AfterCodes => CodesRegistered
  /\ at \in AfterSync => SourcesAgree
  /\ at \in AfterPlacement => Placed
  /\ at \in AfterOptional => OptionalBarred

\* The files read so far, each under an id of its own.
Loading ==
  /\ \A j \in 1..loaded : /\ repo.files[j].json /\ repo.files[j].stem = repo.files[j].id
                     /\ repo.files[j].id \in FixtureIds
                     /\ fixtures[repo.files[j].id] = repo.files[j]
  /\ \A i, j \in 1..loaded : repo.files[i].id = repo.files[j].id => i = j

\* MdMatches, of the disk alone.
CoveredMdOf(r) ==
  Covered(r.mdRest) \cup UNION {Covered(r.md[p]) : p \in DOMAIN r.md}

Matched(r) ==
  /\ IdsOf(r) \subseteq CoveredMdOf(r)
  /\ \A i \in CoveredMdOf(r) : i.fam \in FamiliesOf(IdsOf(r)) => i \in IdsOf(r)

CheckSpotless == errors = {} /\ gate # "raised"

CheckIInv ==
  /\ CheckTypeOK
  /\ IsRepository(repo) /\ IsRepository(before)
  /\ due \in AfterLoad => loaded = Len(repo.files)
  /\ errors = {} => Loading
  /\ gate = "pass" => errors = {}
  /\ CheckSpotless => Established(due)
  /\ edits > 0 => Matched(before)
----------------------------------------------------------------------------
LEMMA CheckFiles ==
  ASSUME NEW r, IsRepository(r)
  PROVE  Len(r.files) \in Nat /\ DOMAIN r.files = 1..Len(r.files)
<1> DEFINE S == {r.files[j] : j \in DOMAIN r.files}
<1>1. r.files \in Seq(S)
  BY DEF IsRepository
<1> HIDE DEF S
<1> QED
  BY <1>1

\* What a step that neither loads nor changes the repository leaves alone.
LEMMA SameRepository ==
  ASSUME UNCHANGED <<repo, fixtures>>
  PROVE  /\ ListedKnown' <=> ListedKnown
         /\ MdMatches' <=> MdMatches
         /\ CodesRegistered' <=> CodesRegistered
         /\ SourcesAgree' <=> SourcesAgree
         /\ Placed' <=> Placed
         /\ OptionalBarred' <=> OptionalBarred
<1>1. /\ FixtureIds' = FixtureIds
      /\ CoveredMd' = CoveredMd
      /\ Registered' = Registered
      /\ \A p : Listed(p)' = Listed(p)
  BY DEF FixtureIds, CoveredMd, Registered, Listed
<1>2. \A p : ProfileFixtures(p)' = ProfileFixtures(p)
  BY <1>1 DEF ProfileFixtures, Listed
<1>3. \A p : PlacedIn(p)' = PlacedIn(p)
  BY <1>1 DEF PlacedIn, FixtureIds
<1>4. ListedKnown' <=> ListedKnown
  BY <1>1 DEF ListedKnown, Listed, FixtureIds
<1>5. MdMatches' <=> MdMatches
  BY <1>1 DEF MdMatches
<1>6. CodesRegistered' <=> CodesRegistered
  BY <1>1 DEF CodesRegistered, FixtureIds
<1>7. SourcesAgree' <=> SourcesAgree
  BY DEF SourcesAgree
<1>8. Placed' <=> Placed
  BY <1>2, <1>3 DEF Placed, ProfileFixtures, PlacedIn, Listed, FixtureIds
<1>9. OptionalBarred' <=> OptionalBarred
  BY <1>2 DEF OptionalBarred, ProfileFixtures, Listed
<1> QED
  BY <1>4, <1>5, <1>6, <1>7, <1>8, <1>9

\* A check past the loading: what it establishes is what it reports nothing of.
LEMMA CheckKeeps ==
  ASSUME CheckIInv, NEW here \in Pcs, NEW faults, NEW after \in Pcs,
         Check(here, faults, after), faults \subseteq Kinds,
         here # "exited", after # "exited",
         after \in AfterLoad => loaded = Len(repo.files),
         CheckSpotless /\ faults = {} => Established(after)
  PROVE  CheckIInv'
<1>1. /\ due = here /\ errors' = errors \cup faults /\ due' = after
      /\ UNCHANGED <<repo, before, edits, loaded, fixtures, gate>>
  BY DEF Check
<1>2. CheckTypeOK'
  BY <1>1 DEF CheckIInv, CheckTypeOK, FixtureIds
<1>3. Loading' <=> Loading
  BY <1>1 DEF Loading, FixtureIds
<1>4. Established(due)' <=> Established(after)
  BY <1>1, SameRepository DEF Established
<1>5. errors' = {} => errors = {} /\ faults = {}
  BY <1>1
<1>6. CheckSpotless' => CheckSpotless /\ faults = {}
  BY <1>1, <1>5 DEF CheckSpotless
<1>7. gate = "none"
  BY <1>1 DEF CheckIInv, CheckTypeOK
<1>8. Matched(before)' <=> Matched(before)
  BY <1>1
<1> QED
  BY <1>1, <1>2, <1>3, <1>4, <1>5, <1>6, <1>7, <1>8 DEF CheckIInv, IsRepository

LEMMA FaultsAreKinds ==
  ASSUME NEW check \in Kinds, NEW things
  PROVE  /\ Faults(check, things) \subseteq Kinds
         /\ Faults(check, things) = {} <=> things = {}
BY DEF Faults

\* A check that establishes nothing more.
LEMMA PassKeeps ==
  ASSUME CheckIInv, NEW here \in Pcs, NEW faults, NEW after \in Pcs,
         Check(here, faults, after), faults \subseteq Kinds,
         here # "exited", after # "exited",
         after \in AfterLoad => here \in AfterLoad,
         after \in AfterListed => here \in AfterListed,
         after \in AfterMd => here \in AfterMd,
         after \in AfterCodes => here \in AfterCodes,
         after \in AfterSync => here \in AfterSync,
         after \in AfterPlacement => here \in AfterPlacement,
         after \in AfterOptional => here \in AfterOptional
  PROVE  CheckIInv'
<1>1. due = here
  BY DEF Check
<1>2. after \in AfterLoad => loaded = Len(repo.files)
  BY <1>1 DEF CheckIInv
<1>3. CheckSpotless => Established(after)
  BY <1>1 DEF CheckIInv, Established
<1> QED
  BY <1>2, <1>3, CheckKeeps

LEMMA PassSteps ==
  ASSUME CheckIInv,
         \/ CheckFamiliesMap \/ CheckFamilies \/ CheckConformanceReadme
         \/ CheckExamplesRouted \/ CheckSchemaIds \/ CheckMarkdownLinks
         \/ CheckNoDisprovenDigest
  PROVE  CheckIInv'
<1> USE DEF Pcs, AfterLoad, AfterListed, AfterMd, AfterCodes, AfterSync, AfterPlacement,
        AfterOptional
<1>1. CASE CheckFamiliesMap
  <2> DEFINE faults == IF repo.families = {}
                         THEN Faults("profiles-json", {"fixture_families"}) ELSE {}
  <2>1. Check("families map", faults, "load") /\ faults \subseteq Kinds
    BY <1>1 DEF CheckFamiliesMap, Faults, Kinds
  <2> HIDE DEF faults
  <2> QED
    BY <2>1, PassKeeps
<1>2. CASE CheckFamilies
  <2> DEFINE things == {i \in FixtureIds : ~\E fam \in repo.families : IsPrefix(fam, i.fam)}
  <2>1. Check("families", Faults("fixture-family", things), "profiles json")
    BY <1>2 DEF CheckFamilies
  <2> HIDE DEF things
  <2>2. Faults("fixture-family", things) \subseteq Kinds
    BY FaultsAreKinds DEF Kinds
  <2> QED
    BY <2>1, <2>2, PassKeeps
<1>3. CASE CheckConformanceReadme
  <2> DEFINE things == FixtureIds \ Covered(repo.readme)
  <2>1. Check("readme", Faults("conformance-readme", things), "error codes")
    BY <1>3 DEF CheckConformanceReadme
  <2> HIDE DEF things
  <2>2. Faults("conformance-readme", things) \subseteq Kinds
    BY FaultsAreKinds DEF Kinds
  <2> QED
    BY <2>1, <2>2, PassKeeps
<1>4. CASE CheckExamplesRouted
  <2> DEFINE things == {d \in repo.examples : ~\E r \in repo.routes : IsPrefix(d, r)}
  <2>1. Check("examples", Faults("examples-routing", things), "schemas")
    BY <1>4 DEF CheckExamplesRouted
  <2> HIDE DEF things
  <2>2. Faults("examples-routing", things) \subseteq Kinds
    BY FaultsAreKinds DEF Kinds
  <2> QED
    BY <2>1, <2>2, PassKeeps
<1>5. CASE CheckSchemaIds
  <2> DEFINE things == {j \in DOMAIN repo.schemas :
                        \/ repo.schemas[j] \in {"", "unreadable"}
                        \/ \E i \in 1..(j - 1) : repo.schemas[i] = repo.schemas[j]}
  <2>1. Check("schemas", Faults("schema-id", things), "links")
    BY <1>5 DEF CheckSchemaIds
  <2> HIDE DEF things
  <2>2. Faults("schema-id", things) \subseteq Kinds
    BY FaultsAreKinds DEF Kinds
  <2> QED
    BY <2>1, <2>2, PassKeeps
<1>6. CASE CheckMarkdownLinks
  <2> DEFINE broken == {l \in repo.links : l.target \in {"outside", "missing"}}
             unfound == {l \in repo.links : /\ l.target \in DOMAIN repo.headings
                                            /\ l.anchor # << >>
                                            /\ l.anchor \notin Anchors(l.target)}
             faults == Faults("md-link", broken) \cup Faults("md-anchor", unfound)
  <2>1. Check("links", faults, "placement")
    BY <1>6 DEF CheckMarkdownLinks
  <2> HIDE DEF broken, unfound
  <2>2. faults \subseteq Kinds
    BY FaultsAreKinds DEF Kinds
  <2> HIDE DEF faults
  <2> QED
    BY <2>1, <2>2, PassKeeps
<1>7. CASE CheckNoDisprovenDigest
  <2> DEFINE faults == IF repo.disproven THEN Faults("disproven-digest", {"found"}) ELSE {}
  <2>1. Check("digest", faults, "optional") /\ faults \subseteq Kinds
    BY <1>7 DEF CheckNoDisprovenDigest, Faults, Kinds
  <2> HIDE DEF faults
  <2> QED
    BY <2>1, PassKeeps
<1> QED
  BY <1>1, <1>2, <1>3, <1>4, <1>5, <1>6, <1>7

LEMMA EndLoadStep ==
  ASSUME CheckIInv, EndLoad
  PROVE  CheckIInv'
<1> DEFINE faults == IF FixtureIds = {} THEN Faults("fixtures", {"none"}) ELSE {}
<1>1. Check("load", faults, "families") /\ loaded = Len(repo.files)
  BY DEF EndLoad
<1>2. faults \subseteq Kinds
  BY FaultsAreKinds DEF Kinds
<1>3. Established("families")
  BY DEF Established, AfterListed, AfterMd, AfterCodes, AfterSync, AfterPlacement,
         AfterOptional
<1> HIDE DEF faults
<1> QED
  BY <1>1, <1>2, <1>3, CheckKeeps DEF Pcs

LEMMA CheckProfilesJsonStep ==
  ASSUME CheckIInv, CheckProfilesJson
  PROVE  CheckIInv'
<1> DEFINE stems == {fixtures[i].stem : i \in FixtureIds}
           listed == UNION {Listed(p) : p \in DOMAIN repo.profiles}
           things == (listed \ (FixtureIds \cup stems)) \cup (FixtureIds \ Referenced)
           faults == Faults("profiles-json", things)
<1>1. Check("profiles json", faults, "profiles md")
  BY DEF CheckProfilesJson
<1>2. things = {} => ListedKnown
  BY DEF ListedKnown
<1> HIDE DEF things
<1>3. faults \subseteq Kinds /\ (faults = {} <=> things = {})
  BY FaultsAreKinds DEF Kinds
<1> HIDE DEF faults
<1>4. CheckSpotless /\ faults = {} => Established("profiles md")
  BY <1>2, <1>3 DEF Established, AfterMd, AfterCodes, AfterSync, AfterPlacement, AfterOptional
<1>5. loaded = Len(repo.files)
  BY <1>1 DEF CheckIInv, Check, AfterLoad
<1> QED
  BY <1>1, <1>3, <1>4, <1>5, CheckKeeps DEF Pcs

LEMMA CheckProfilesMdStep ==
  ASSUME CheckIInv, CheckProfilesMd
  PROVE  CheckIInv'
<1> DEFINE things == (FixtureIds \ CoveredMd) \cup
                       {i \in CoveredMd \ FixtureIds : i.fam \in FamiliesOf(FixtureIds)}
           faults == Faults("profiles-md", things)
<1>1. Check("profiles md", faults, "readme")
  BY DEF CheckProfilesMd
<1>2. things = {} => MdMatches
  BY DEF MdMatches
<1> HIDE DEF things
<1>3. faults \subseteq Kinds /\ (faults = {} <=> things = {})
  BY FaultsAreKinds DEF Kinds
<1> HIDE DEF faults
<1>4. CheckSpotless => Established("profiles md")
  BY <1>1 DEF CheckIInv, Check
<1>5. CheckSpotless /\ faults = {} => Established("readme")
  BY <1>2, <1>3, <1>4 DEF Established, AfterListed, AfterMd, AfterCodes, AfterSync,
                    AfterPlacement, AfterOptional
<1>6. loaded = Len(repo.files)
  BY <1>1 DEF CheckIInv, Check, AfterLoad, AfterListed
<1> QED
  BY <1>1, <1>3, <1>5, <1>6, CheckKeeps DEF Pcs

LEMMA CheckErrorCodesStep ==
  ASSUME CheckIInv, CheckErrorCodes
  PROVE  CheckIInv'
<1> DEFINE asserted == UNION {fixtures[i].codes : i \in FixtureIds}
           things == IF Registered = {} THEN {"none"} ELSE asserted \ Registered
           faults == Faults("error-codes", things)
<1>1. Check("error codes", faults, "error code sync")
  BY DEF CheckErrorCodes
<1>2. things = {} => CodesRegistered
  BY DEF CodesRegistered
<1> HIDE DEF things
<1>3. faults \subseteq Kinds /\ (faults = {} <=> things = {})
  BY FaultsAreKinds DEF Kinds
<1> HIDE DEF faults
<1>4. CheckSpotless => Established("error codes")
  BY <1>1 DEF CheckIInv, Check
<1>5. CheckSpotless /\ faults = {} => Established("error code sync")
  BY <1>2, <1>3, <1>4 DEF Established, AfterListed, AfterMd, AfterCodes, AfterSync,
                    AfterPlacement, AfterOptional
<1>6. loaded = Len(repo.files)
  BY <1>1 DEF CheckIInv, Check, AfterLoad, AfterListed, AfterMd
<1> QED
  BY <1>1, <1>3, <1>5, <1>6, CheckKeeps DEF Pcs

LEMMA CheckErrorCodeRegistrySyncStep ==
  ASSUME CheckIInv, CheckErrorCodeRegistrySync
  PROVE  CheckIInv'
<1> DEFINE things == SyncFaults
           faults == Faults("error-code-sync", things)
<1>1. Check("error code sync", faults, "examples")
  BY DEF CheckErrorCodeRegistrySync
<1>2. things = {} => SourcesAgree
  <2> SUFFICES ASSUME SyncFaults = {} PROVE SourcesAgree
    OBVIOUS
  <2>1. SyncFaults = Differ(repo.rfc.codes, repo.registry.codes)
                       \cup Differ(repo.registry.codes, repo.schema.codes)
    BY DEF SyncFaults
  <2>2. Differ(repo.rfc.codes, repo.registry.codes) = {}
         => repo.rfc.codes = repo.registry.codes
    BY DEF Differ
  <2>3. Differ(repo.registry.codes, repo.schema.codes) = {}
         => repo.registry.codes = repo.schema.codes
    BY DEF Differ
  <2>4. /\ Differ(repo.rfc.codes, repo.registry.codes) = {}
        /\ Differ(repo.registry.codes, repo.schema.codes) = {}
    <3> HIDE DEF things, faults
    <3> QED BY <2>1
  <2> QED
    BY <2>2, <2>3, <2>4 DEF SourcesAgree
<1> HIDE DEF things
<1>3. faults \subseteq Kinds /\ (faults = {} <=> things = {})
  BY FaultsAreKinds DEF Kinds
<1> HIDE DEF faults
<1>4. CheckSpotless => Established("error code sync")
  BY <1>1 DEF CheckIInv, Check
<1>5. CheckSpotless /\ faults = {} => Established("examples")
  BY <1>2, <1>3, <1>4 DEF Established, AfterListed, AfterMd, AfterCodes, AfterSync,
                    AfterPlacement, AfterOptional
<1>6. loaded = Len(repo.files)
  BY <1>1 DEF CheckIInv, Check, AfterLoad, AfterListed, AfterMd, AfterCodes
<1> QED
  BY <1>1, <1>3, <1>5, <1>6, CheckKeeps DEF Pcs

LEMMA CheckProfilePlacementStep ==
  ASSUME CheckIInv, CheckProfilePlacement
  PROVE  CheckIInv'
<1> DEFINE things == {p \in DOMAIN repo.profiles :
                        \/ p \notin DOMAIN repo.md
                        \/ ~(ProfileFixtures(p) \subseteq PlacedIn(p))}
           faults == Faults("profile-placement", things)
<1>1. Check("placement", faults, "digest")
  BY DEF CheckProfilePlacement
<1>2. things = {} => Placed
  BY DEF Placed
<1> HIDE DEF things
<1>3. faults \subseteq Kinds /\ (faults = {} <=> things = {})
  BY FaultsAreKinds DEF Kinds
<1> HIDE DEF faults
<1>4. CheckSpotless => Established("placement")
  BY <1>1 DEF CheckIInv, Check
<1>5. CheckSpotless /\ faults = {} => Established("digest")
  BY <1>2, <1>3, <1>4 DEF Established, AfterListed, AfterMd, AfterCodes, AfterSync,
                          AfterPlacement, AfterOptional
<1>6. loaded = Len(repo.files)
  BY <1>1 DEF CheckIInv, Check, AfterLoad, AfterListed, AfterMd, AfterCodes, AfterSync
<1> QED
  BY <1>1, <1>3, <1>5, <1>6, CheckKeeps DEF Pcs

LEMMA CheckOptionalFamiliesStep ==
  ASSUME CheckIInv, CheckOptionalFamilies
  PROVE  CheckIInv'
<1> DEFINE section == IF Consumer \in DOMAIN repo.md THEN Covered(repo.md[Consumer]) ELSE {}
           listings == UNION {Barred(p, ProfileFixtures(p)) : p \in DOMAIN repo.profiles}
           block == IF repo.core.block THEN Barred(Consumer, Covered(repo.core.text))
                                       ELSE {NoId}
           things == listings \cup Barred(Consumer, section) \cup block
           faults == Faults("optional-family", things)
<1>1. Check("optional", faults, "exit")
  BY DEF CheckOptionalFamilies
<1>2. things = {} => OptionalBarred
  <2> SUFFICES ASSUME things = {} PROVE OptionalBarred
    OBVIOUS
  <2>1. listings = {} /\ Barred(Consumer, section) = {}
    OBVIOUS
  <2> QED
    BY <2>1 DEF OptionalBarred
<1> HIDE DEF things
<1>3. faults \subseteq Kinds /\ (faults = {} <=> things = {})
  BY FaultsAreKinds DEF Kinds
<1> HIDE DEF faults
<1>4. CheckSpotless => Established("optional")
  BY <1>1 DEF CheckIInv, Check
<1>5. CheckSpotless /\ faults = {} => Established("exit")
  BY <1>2, <1>3, <1>4 DEF Established, AfterListed, AfterMd, AfterCodes, AfterSync,
                          AfterPlacement, AfterOptional
<1>6. loaded = Len(repo.files)
  BY <1>1 DEF CheckIInv, Check, AfterLoad, AfterListed, AfterMd, AfterCodes, AfterSync,
              AfterPlacement
<1> QED
  BY <1>1, <1>3, <1>5, <1>6, CheckKeeps DEF Pcs

\* One file more: when it adds no error, its id is new and is its stem.
LEMMA LoadFixtureStep ==
  ASSUME CheckIInv, LoadFixture
  PROVE  CheckIInv'
<1> DEFINE file == repo.files[loaded + 1]
<1>1. /\ due = "load" /\ loaded < Len(repo.files) /\ loaded \in Nat /\ loaded' = loaded + 1
      /\ Len(repo.files) \in Nat
      /\ UNCHANGED <<repo, before, edits, due, gate>>
  BY CheckFiles DEF LoadFixture, CheckIInv, CheckTypeOK
<1>2. \/ /\ file.json /\ file.id # NoId /\ Keep(file)
         /\ errors' = errors \cup
              IF file.stem # file.id \/ file.id \in FixtureIds
                THEN Faults("fixture-id", {loaded + 1}) ELSE {}
      \/ /\ fixtures' = fixtures
         /\ errors' = errors \cup
              Faults(IF file.json THEN "fixture-id" ELSE "fixture-json", {loaded + 1})
  BY DEF LoadFixture
<1> HIDE DEF file
<1>3. 1..(loaded + 1) = 1..loaded \cup {loaded + 1} /\ repo.files[loaded + 1] = file
  BY <1>1 DEF file
<1>4. /\ errors' \subseteq Kinds
      /\ errors' = {} => errors = {}
      /\ errors' = {} => /\ file.json /\ file.stem = file.id
                         /\ file.id \notin FixtureIds /\ Keep(file)
  <2>1. errors \subseteq Kinds
    BY DEF CheckIInv, CheckTypeOK
  <2>2. /\ Faults("fixture-id", {loaded + 1}) = {"fixture-id"}
        /\ Faults("fixture-json", {loaded + 1}) = {"fixture-json"}
    BY DEF Faults
  <2> QED
    BY <1>2, <2>1, <2>2 DEF Kinds
<1>5. ASSUME Keep(file)
      PROVE  /\ FixtureIds' = FixtureIds \cup {file.id}
             /\ fixtures'[file.id] = file
             /\ \A i \in FixtureIds : i # file.id => fixtures'[i] = fixtures[i]
  BY <1>5 DEF Keep, FixtureIds
<1>6. \A i \in FixtureIds : /\ fixtures[i].id = i
                            /\ \E j \in 1..loaded : repo.files[j] = fixtures[i]
  BY DEF CheckIInv, CheckTypeOK
<1>7. \A i \in FixtureIds' : /\ fixtures'[i].id = i
                             /\ \E j \in 1..(loaded + 1) : repo.files[j] = fixtures'[i]
  <2>1. CASE Keep(file)
    BY <1>3, <1>5, <1>6, <2>1
  <2>2. CASE fixtures' = fixtures
    BY <1>3, <1>6, <2>2 DEF FixtureIds
  <2> QED
    BY <1>2, <2>1, <2>2
<1>8. CheckTypeOK'
  BY <1>1, <1>4, <1>7 DEF CheckIInv, CheckTypeOK
<1>9. errors' = {} => Loading'
  <2> SUFFICES ASSUME errors' = {} PROVE Loading'
    OBVIOUS
  <2>1. /\ file.json /\ file.stem = file.id /\ file.id \notin FixtureIds /\ Keep(file)
        /\ Loading
    BY <1>4 DEF CheckIInv
  <2>2. \A j \in 1..loaded : repo.files[j].id # file.id
    BY <2>1 DEF Loading
  <2>3. ASSUME NEW j \in 1..(loaded + 1)
        PROVE  /\ repo.files[j].json /\ repo.files[j].stem = repo.files[j].id
               /\ repo.files[j].id \in FixtureIds'
               /\ fixtures'[repo.files[j].id] = repo.files[j]
    BY <1>3, <1>5, <2>1, <2>2 DEF Loading
  <2>4. \A i, j \in 1..(loaded + 1) : repo.files[i].id = repo.files[j].id => i = j
    BY <1>3, <2>1, <2>2 DEF Loading
  <2> QED
    BY <1>1, <2>3, <2>4 DEF Loading
<1>10. due' \notin AfterLoad /\ Established(due')
  BY <1>1 DEF Established, AfterLoad, AfterListed, AfterMd, AfterCodes, AfterSync,
              AfterPlacement, AfterOptional
<1>11. gate = "none" /\ Established(due)'
  <2>1. gate = "none"
    BY <1>1 DEF CheckIInv, CheckTypeOK
  <2> QED
    BY <2>1, <1>10 DEF Established, AfterLoad, AfterListed, AfterMd, AfterCodes,
                       AfterSync, AfterPlacement, AfterOptional
<1>12. Matched(before)' <=> Matched(before)
  BY <1>1
<1> QED
  BY <1>1, <1>8, <1>9, <1>10, <1>11, <1>12 DEF CheckIInv, IsRepository

LEMMA RaiseOnSchemaStep ==
  ASSUME CheckIInv, RaiseOnSchema
  PROVE  CheckIInv'
<1>1. /\ due = "error code sync" /\ due' = "exited" /\ gate' = "raised"
      /\ UNCHANGED <<repo, before, edits, loaded, fixtures, errors>>
  BY DEF RaiseOnSchema
<1>2. CheckTypeOK'
  BY <1>1 DEF CheckIInv, CheckTypeOK, Pcs, FixtureIds
<1>3. loaded = Len(repo.files)
  BY <1>1 DEF CheckIInv, AfterLoad, AfterListed, AfterMd, AfterCodes
<1>4. Loading' <=> Loading
  BY <1>1 DEF Loading, FixtureIds
<1>5. Matched(before)' <=> Matched(before)
  BY <1>1
<1> QED
  BY <1>1, <1>2, <1>3, <1>4, <1>5 DEF CheckIInv, IsRepository, CheckSpotless

LEMMA ExitCheckStep ==
  ASSUME CheckIInv, ExitCheck
  PROVE  CheckIInv'
<1>1. /\ due = "exit" /\ due' = "exited"
      /\ gate' = IF errors = {} THEN "pass" ELSE "fail"
      /\ UNCHANGED <<repo, before, edits, loaded, fixtures, errors>>
  BY DEF ExitCheck
<1>2. CheckTypeOK'
  BY <1>1 DEF CheckIInv, CheckTypeOK, Pcs, FixtureIds
<1>3. loaded = Len(repo.files)
  BY <1>1 DEF CheckIInv, AfterLoad, AfterListed, AfterMd, AfterCodes, AfterSync,
              AfterPlacement, AfterOptional
<1>4. Loading' <=> Loading
  BY <1>1 DEF Loading, FixtureIds
<1>5. Matched(before)' <=> Matched(before)
  BY <1>1
<1>6. CheckSpotless' => CheckSpotless
  BY <1>1 DEF CheckSpotless, CheckIInv, CheckTypeOK
<1>7. Established("exit") => Established(due)'
  BY <1>1, SameRepository DEF Established, AfterListed, AfterMd, AfterCodes, AfterSync,
                              AfterPlacement, AfterOptional
<1> QED
  BY <1>1, <1>2, <1>3, <1>4, <1>5, <1>6, <1>7 DEF CheckIInv, IsRepository

\* After a run that reports nothing the fixtures are the files on disk.
LEMMA DiskLoaded ==
  ASSUME CheckIInv, errors = {}, due \in AfterLoad
  PROVE  /\ Loading /\ loaded = Len(repo.files) /\ Len(repo.files) \in Nat
         /\ DOMAIN repo.files = 1..loaded
         /\ OnDisk = {repo.files[j].id : j \in 1..loaded}
         /\ FixtureIds = OnDisk
         /\ \A i \in FixtureIds : fixtures[i].stem = i
<1>1. /\ Loading /\ loaded = Len(repo.files) /\ Len(repo.files) \in Nat
      /\ DOMAIN repo.files = 1..loaded
  BY CheckFiles DEF CheckIInv
<1>2. OnDisk = {repo.files[j].id : j \in 1..loaded}
  BY <1>1 DEF OnDisk, IdsOf, Loading
<1>3. FixtureIds = OnDisk
  BY <1>1, <1>2 DEF Loading, CheckIInv, CheckTypeOK
<1>4. \A i \in FixtureIds : fixtures[i].stem = i
  BY <1>1 DEF Loading, CheckIInv, CheckTypeOK
<1> QED
  BY <1>1, <1>2, <1>3, <1>4

\* What a run that passes has established.
LEMMA PassedEstablishes ==
  ASSUME CheckIInv, Passed
  PROVE  /\ errors = {} /\ due \in AfterLoad
         /\ ListedKnown /\ MdMatches /\ CodesRegistered /\ SourcesAgree
         /\ Placed /\ OptionalBarred /\ Matched(repo)
<1>1. errors = {} /\ due = "exited" /\ CheckSpotless
  BY DEF CheckIInv, CheckTypeOK, Passed, CheckSpotless
<1>2. due \in AfterLoad
  BY <1>1 DEF AfterLoad, AfterListed, AfterMd, AfterCodes, AfterSync, AfterPlacement,
              AfterOptional
<1>3. /\ ListedKnown /\ MdMatches /\ CodesRegistered /\ SourcesAgree
      /\ Placed /\ OptionalBarred
  BY <1>1 DEF CheckIInv, Established, AfterListed, AfterMd, AfterCodes, AfterSync,
              AfterPlacement, AfterOptional
<1>4. Matched(repo)
  BY <1>1, <1>2, <1>3, DiskLoaded DEF MdMatches, Matched, OnDisk, CoveredMd, CoveredMdOf
<1> QED
  BY <1>1, <1>2, <1>3, <1>4

LEMMA ChangeStep ==
  ASSUME CheckIInv, Change
  PROVE  CheckIInv'
<1>1. Passed /\ before' = repo /\ IsRepository(repo')
  BY DEF Change, Passed
<1>2. edits < MaxEdits /\ edits' = edits + 1 /\ loaded' = 0
  BY DEF Change
<1>3. due' = "families map" /\ errors' = {} /\ gate' = "none"
  BY DEF Change
<1>4. FixtureIds' = {}
  BY Zenon DEF Change, FixtureIds
<1>5. (1..loaded)' = {}
  BY <1>2
<1>6. CheckTypeOK'
  <2>1. Len(repo'.files) \in Nat
    BY <1>1, CheckFiles
  <2>2. loaded' \in 0..Len(repo'.files) /\ edits' \in 0..MaxEdits
    BY <1>2, <2>1, EditsAssumption DEF CheckIInv, CheckTypeOK
  <2> QED
    BY <1>3, <1>4, <2>2 DEF CheckTypeOK, Pcs
<1>7. Loading'
  BY <1>5 DEF Loading
<1>8. Matched(before)'
  BY <1>1, PassedEstablishes
<1>9. due' \notin AfterLoad /\ Established(due)'
  BY <1>3 DEF Established, AfterLoad, AfterListed, AfterMd, AfterCodes, AfterSync,
              AfterPlacement, AfterOptional
<1> QED
  BY <1>1, <1>3, <1>6, <1>7, <1>8, <1>9 DEF CheckIInv, IsRepository

LEMMA CheckInitial == CheckInit => CheckIInv
<1> SUFFICES ASSUME CheckInit PROVE CheckIInv
  OBVIOUS
<1>1. IsRepository(repo) /\ IsRepository(before)
  BY Zenon, RepositoriesAssumption DEF CheckInit
<1>2. edits = 0 /\ loaded = 0
  BY Zenon DEF CheckInit, Start
<1>3. due = "families map" /\ gate = "none" /\ errors = {}
  BY Zenon DEF CheckInit, Start
<1>4. FixtureIds = {}
  BY Zenon DEF CheckInit, Start, FixtureIds
<1>5. 1..loaded = {}
  BY <1>2
<1>6. CheckTypeOK
  <2>1. Len(repo.files) \in Nat
    BY <1>1, CheckFiles
  <2>2. loaded \in 0..Len(repo.files) /\ edits \in 0..MaxEdits
    BY <1>2, <2>1, EditsAssumption
  <2> QED
    BY <1>3, <1>4, <2>2 DEF CheckTypeOK, Pcs
<1>7. Loading
  BY <1>5 DEF Loading
<1>8. due \notin AfterLoad /\ Established(due)
  BY <1>3 DEF Established, AfterLoad, AfterListed, AfterMd, AfterCodes, AfterSync,
              AfterPlacement, AfterOptional
<1>9. ~(edits > 0)
  BY <1>2
<1> QED
  BY <1>1, <1>3, <1>6, <1>7, <1>8, <1>9 DEF CheckIInv

LEMMA CheckStutter ==
  ASSUME CheckIInv, UNCHANGED checkVars
  PROVE  CheckIInv'
<1>1. UNCHANGED <<repo, before, edits, due, loaded, fixtures, errors, gate>>
  BY DEF checkVars
<1>2. CheckTypeOK'
  BY <1>1 DEF CheckIInv, CheckTypeOK, FixtureIds
<1>3. Loading' <=> Loading
  BY <1>1 DEF Loading, FixtureIds
<1>4. Matched(before)' <=> Matched(before)
  BY <1>1
<1>5. (CheckSpotless' <=> CheckSpotless) /\ (Established(due)' <=> Established(due))
  BY <1>1, SameRepository DEF Established, CheckSpotless
<1> QED
  BY <1>1, <1>2, <1>3, <1>4, <1>5 DEF CheckIInv, IsRepository

LEMMA CheckInvariance == CheckSpec => []CheckIInv
<1>1. CheckInit => CheckIInv
  BY CheckInitial
<1>2. CheckIInv /\ [CheckNext]_checkVars => CheckIInv'
  BY PassSteps, LoadFixtureStep, EndLoadStep, CheckProfilesJsonStep,
     CheckProfilesMdStep, CheckErrorCodesStep, CheckErrorCodeRegistrySyncStep,
     RaiseOnSchemaStep, CheckProfilePlacementStep, CheckOptionalFamiliesStep,
     ExitCheckStep, ChangeStep, CheckStutter DEF CheckNext
<1> QED
  BY <1>1, <1>2, PTL DEF CheckSpec
----------------------------------------------------------------------------
LEMMA ListedFollows ==
  ASSUME CheckIInv
  PROVE  ListedOfKnownFamilyExists
<1> SUFFICES ASSUME Passed, NEW p \in DOMAIN repo.profiles,
                    NEW i \in ProfileFixtures(p), i.fam \in FamiliesOf(OnDisk)
             PROVE  i \in OnDisk
  BY DEF ListedOfKnownFamilyExists, CheckIInv
<1>1. FixtureIds = OnDisk /\ MdMatches /\ Placed
  BY PassedEstablishes, DiskLoaded
<1>2. p \in DOMAIN repo.md /\ i \in PlacedIn(p)
  BY <1>1 DEF Placed
<1>3. CASE i \in Covered(repo.md[p])
  <2>1. i \in CoveredMd
    BY <1>2, <1>3 DEF CoveredMd
  <2> QED
    BY <1>1, <2>1 DEF MdMatches
<1>4. CASE i \in FixtureIds
  BY <1>1, <1>4
<1> QED
  BY <1>2, <1>3, <1>4 DEF PlacedIn

\* Two repositories that match one page agree on the families they share.
LEMMA OnePageOneFamily ==
  ASSUME NEW r, NEW s, Matched(r), Matched(s), CoveredMdOf(r) = CoveredMdOf(s),
         NEW fam \in FamiliesOf(IdsOf(r)) \cap FamiliesOf(IdsOf(s))
  PROVE  {i \in IdsOf(r) : i.fam = fam} = {i \in IdsOf(s) : i.fam = fam}
<1>1. ASSUME NEW a, NEW b, Matched(a), Matched(b), CoveredMdOf(a) = CoveredMdOf(b),
             fam \in FamiliesOf(IdsOf(b)), NEW i \in IdsOf(a), i.fam = fam
      PROVE  i \in IdsOf(b)
  BY <1>1 DEF Matched
<1> QED
  BY <1>1

\* Distinct ids, as many as there are files.
LEMMA AllCounted ==
  ASSUME CheckIInv, errors = {}, due \in AfterLoad
  PROVE  Cardinality(OnDisk) = Len(repo.files)
<1> DEFINE id == [j \in 1..loaded |-> repo.files[j].id]
<1>1. /\ Loading /\ loaded = Len(repo.files) /\ loaded \in Nat
      /\ OnDisk = {repo.files[j].id : j \in 1..loaded}
  BY DiskLoaded
<1>2. id \in [1..loaded -> OnDisk]
  BY <1>1
<1>3. \A i, j \in 1..loaded : id[i] = id[j] => i = j
  BY <1>1 DEF Loading
<1>4. \A o \in OnDisk : \E j \in 1..loaded : id[j] = o
  BY <1>1
<1> HIDE DEF id
<1>5. id \in Bijection(1..loaded, OnDisk)
  BY <1>2, <1>3, <1>4 DEF Bijection, Injection, Surjection, IsInjective
<1>6. ExistsBijection(1..loaded, OnDisk)
  BY <1>5 DEF ExistsBijection
<1> QED
  BY <1>1, <1>6, FS_CountingElements

LEMMA LoneEditFollows ==
  ASSUME CheckIInv
  PROVE  LoneEditNoticed
<1> SUFFICES ASSUME Passed, edits > 0, repo = [before EXCEPT !.files = repo.files]
             PROVE  /\ \A fam \in FamiliesOf(OnDisk) \cap FamiliesOf(IdsOf(before)) :
                         {i \in OnDisk : i.fam = fam} = {i \in IdsOf(before) : i.fam = fam}
                    /\ Cardinality(OnDisk) = Len(repo.files)
                    /\ \A i \in IdsOf(before) \ OnDisk :
                         \A p \in DOMAIN repo.profiles : i \notin Listed(p)
  BY DEF LoneEditNoticed
<1>1. /\ errors = {} /\ due \in AfterLoad /\ ListedKnown
      /\ Matched(repo) /\ Matched(before)
  BY PassedEstablishes DEF CheckIInv
<1>2. repo.md = before.md /\ repo.mdRest = before.mdRest
  BY DEF CheckIInv, IsRepository, Parts
<1>3. CoveredMdOf(repo) = CoveredMdOf(before)
  BY <1>2 DEF CoveredMdOf
<1>4. \A fam \in FamiliesOf(OnDisk) \cap FamiliesOf(IdsOf(before)) :
        {i \in OnDisk : i.fam = fam} = {i \in IdsOf(before) : i.fam = fam}
  BY <1>1, <1>3, OnePageOneFamily DEF OnDisk
<1>5. Cardinality(OnDisk) = Len(repo.files)
  BY <1>1, AllCounted
<1>6. \A p \in DOMAIN repo.profiles : Listed(p) \subseteq OnDisk
  BY <1>1, DiskLoaded DEF ListedKnown
<1> QED
  BY <1>4, <1>5, <1>6

LEMMA AssertedFollows ==
  ASSUME CheckIInv
  PROVE  AssertedCodesGoOverTheWire
<1> SUFFICES ASSUME Passed, NEW j \in DOMAIN repo.files
             PROVE  repo.files[j].codes \subseteq
                      repo.registry.other \cup (repo.schema.codes \cap repo.rfc.codes)
  BY DEF AssertedCodesGoOverTheWire
<1>1. /\ Loading /\ j \in 1..loaded /\ CodesRegistered /\ SourcesAgree
  BY PassedEstablishes, DiskLoaded
<1>2. repo.files[j].codes \subseteq Registered
  BY <1>1 DEF Loading, CodesRegistered
<1> QED
  BY <1>1, <1>2 DEF Registered, SourcesAgree

LEMMA OptionalFollows ==
  ASSUME CheckIInv
  PROVE  OptionalStaysOptional
<1> SUFFICES ASSUME Passed, NEW fam \in DOMAIN OptionalOnly
             PROVE  /\ \A p \in DOMAIN repo.profiles \ OptionalOnly[fam] :
                         fam \notin FamiliesOf(ProfileFixtures(p))
                    /\ Consumer \in DOMAIN repo.md \ OptionalOnly[fam] =>
                         fam \notin FamiliesOf(Covered(repo.md[Consumer]))
  BY DEF OptionalStaysOptional
<1>1. OptionalBarred
  BY PassedEstablishes
<1>2. ASSUME NEW p, NEW ids, Barred(p, ids) = {}, p \notin OptionalOnly[fam]
      PROVE  fam \notin FamiliesOf(ids)
  BY <1>2 DEF Barred, FamiliesOf
<1> QED
  BY <1>1, <1>2 DEF OptionalBarred

\* Every fixture is loaded under its own id from a file of the repository,
\* and when the gate passes no profile names, for its users or for its own
\* tests, a missing fixture of a family that has some: the looking up of
\* check_profiles_md and check_profile_placement make up for each other.
THEOREM ListedExist == CheckSpec => []ListedOfKnownFamilyExists
<1>1. CheckIInv => ListedOfKnownFamilyExists
  BY ListedFollows
<1> QED
  BY <1>1, CheckInvariance, PTL

\* A change of the fixtures alone is noticed by the gate, which passed before:
\* profiles.md matched both, and every file was judged under an id of its own
\* (load_fixtures, check_profiles_md, check_profiles_json).
THEOREM LoneEdits == CheckSpec => []LoneEditNoticed
<1>1. CheckIInv => LoneEditNoticed
  BY LoneEditFollows
<1> QED
  BY <1>1, CheckInvariance, PTL

\* A code that a fixture asserts stands in all three sources, or in the tables
\* of reserved codes (check_error_codes, check_error_code_registry_sync).
THEOREM AssertedCodes == CheckSpec => []AssertedCodesGoOverTheWire
<1>1. CheckIInv => AssertedCodesGoOverTheWire
  BY AssertedFollows
<1> QED
  BY <1>1, CheckInvariance, PTL

\* No optional family reaches the users of another profile by the lists or by
\* the section of the consumer (check_optional_families).
THEOREM OptionalFamilies == CheckSpec => []OptionalStaysOptional
<1>1. CheckIInv => OptionalStaysOptional
  BY OptionalFollows
<1> QED
  BY <1>1, CheckInvariance, PTL

----------------------------------------------------------------------------
(***************************************************************************)
(* The conformance runner.  Exit status 0 certifies the directory: for any *)
(* contents, registry and filter the status is the one Certified asks for, *)
(* and the run changes its mind about nothing.  The counters only count,   *)
(* so the invariant says which facts about the fixtures behind them they   *)
(* stand for.                                                              *)
(***************************************************************************)

Given == corpus \in Corpora /\ golden \in GoldenOutcomes

\* failures and passes say what a set of facts says.
Tally(spotless, counted) ==
  /\ failures = 0 <=> spotless
  /\ failures = 0 => (passes # 0 <=> counted)

\* The fixtures behind the one at hand.
Spotless == \A n \in 1..(next - 1) : Clean(corpus[n])
Counted == \E n \in 1..(next - 1) : Verifies(corpus[n])

\* The first n vectors of the fixture at hand.
Size == Len(Fixture.vectors)
FineUpTo(n) == \A j \in 1..n : Fine(Fixture, j)
PassedUpTo(n) == \E j \in 1..n : Fixture.vectors[j] = "pass"
Collected(c, n) ==
  {Fixture.vectors[j].witness : j \in {m \in 1..n : Fixture.vectors[m].checkpoint = c}}

Position ==
  /\ pc # "exited" => /\ next \in 1..(Len(corpus) + 1)
                      /\ \A n \in 1..(next - 1) : corpus[n].parses
                      /\ exit = "none"
  /\ pc = "vectors" => /\ next <= Len(corpus)
                       /\ Fixture.parses /\ Selected(Fixture)
                       /\ Fixture.family \in KnownFamilies
                       /\ Executable(Fixture)
  /\ pc \in {"receipt", "report"} =>
       ~only /\ next = Len(corpus) + 1 /\ golden[1] # "raise"
  /\ pc = "report" => golden[2] # "raise"

BetweenFixtures == pc = "fixture" => Tally(Spotless, Counted)

AtPlain == pc = "vectors" /\ Fixture.family # "wit"

InPlainLoop ==
  AtPlain =>
    /\ Len(todo) <= Size
    /\ \A j \in 1..Len(todo) : todo[j] = Fixture.vectors[Size - Len(todo) + j]
    /\ Tally(Spotless /\ Size > 0 /\ FineUpTo(Size - Len(todo)),
             Counted \/ PassedUpTo(Size - Len(todo)))

BranchShape ==
  InBranch =>
    /\ todo = << >>
    /\ Branch!TypeOK
    /\ \A j \in 1..Len(verdicts) : verdicts[j] <=> Fine(Fixture, j)
    /\ step = "returned" <=> ret # "none"
    /\ step = "vectors" =>
         k = Len(verdicts) /\ \A c \in Checkpoints : seen[c] = {}
    /\ step = "count" \/ ret = "done" => Len(verdicts) = Size
    /\ step = "count" => Fixture.quorum.pinned
    /\ step = "count" => \A c \in Checkpoints : seen[c] = Collected(c, k)

BranchTally ==
  InBranch =>
    /\ step = "vectors" =>
         Tally(Spotless /\ Size > 0 /\ FineUpTo(k), Counted \/ k > 0)
    /\ step = "count" =>
         Tally(Spotless /\ Size > 0 /\ FineUpTo(Size), Counted \/ Size > 0)
    /\ ret = "done" => Tally(Spotless /\ Clean(Fixture), Counted \/ Size > 0)
    /\ ret = "raised" => ~FineUpTo(Size)
    /\ quorum = "True" =>
         /\ ret = "done"
         /\ Fixture.quorum.count = Cardinality(Collected(Fixture.quorum.target, Size))

GoldenTally ==
  /\ pc = "receipt" => (failures = 0 <=> Spotless /\ golden[1] = "pass")
  /\ pc = "report" =>
       (failures = 0 <=> Spotless /\ golden[1] = "pass" /\ golden[2] = "pass")

Status == IF Certified THEN "0" ELSE "1"

ExitRight == pc = "exited" => exit = Status

IInv ==
  /\ Given /\ TypeOK /\ Position /\ BetweenFixtures /\ InPlainLoop
  /\ BranchShape /\ BranchTally /\ GoldenTally /\ ExitRight
----------------------------------------------------------------------------
LEMMA Files ==
  ASSUME Given
  PROVE  /\ Len(corpus) \in Nat /\ DOMAIN corpus = 1..Len(corpus)
         /\ \A n \in 1..Len(corpus) : IsFile(corpus[n])
         /\ golden[1] \in {"pass", "fail", "raise"}
         /\ golden[2] \in {"pass", "fail", "raise"}
<1>1. corpus \in Seq({corpus[n] : n \in DOMAIN corpus})
      /\ \A n \in DOMAIN corpus : IsFile(corpus[n])
  BY RunnerAssumption DEF Given
<1>2. golden \in {"pass", "fail", "raise"} \X {"pass", "fail", "raise"}
  BY RunnerAssumption DEF Given
<1>3. Len(corpus) \in Nat /\ DOMAIN corpus = 1..Len(corpus)
  <2> DEFINE S == {corpus[n] : n \in DOMAIN corpus}
  <2>1. corpus \in Seq(S)
    BY <1>1
  <2> HIDE DEF S
  <2> QED
    BY <2>1
<1> QED
  BY <1>1, <1>2, <1>3

LEMMA FileShape ==
  ASSUME NEW f, IsFile(f)
  PROVE  /\ Len(f.vectors) \in Nat /\ DOMAIN f.vectors = 1..Len(f.vectors)
         /\ f.vectors = << >> <=> Len(f.vectors) = 0
         /\ f.family = "wit" =>
              \A n \in 1..Len(f.vectors) : f.vectors[n] \in Cosignature
         /\ f.family # "wit" => f.vectors \in Seq(Outcomes)
         /\ f.chain \in Checkpoints \cup {None, Missing}
         /\ f.quorum.target \in Checkpoints /\ f.quorum.count \in Nat
<1>1. CASE f.family = "wit"
  <2>1. f \in FileOf(Seq(Cosignature))
    BY <1>1 DEF IsFile
  <2>2. f.vectors \in Seq(Cosignature) /\ f.chain \in Checkpoints \cup {None, Missing}
        /\ f.quorum.target \in Checkpoints /\ f.quorum.count \in Nat
    BY <2>1 DEF FileOf
  <2> QED
    BY <1>1, <2>2
<1>2. CASE f.family # "wit"
  <2>1. f \in FileOf(Seq(Outcomes))
    BY <1>2 DEF IsFile
  <2>2. f.vectors \in Seq(Outcomes) /\ f.chain \in Checkpoints \cup {None, Missing}
        /\ f.quorum.target \in Checkpoints /\ f.quorum.count \in Nat
    BY <2>1 DEF FileOf
  <2> QED
    BY <1>2, <2>2
<1> QED
  BY <1>1, <1>2

\* What is asked of the files does not change: the arguments do not.
LEMMA SameArguments ==
  ASSUME UNCHANGED Inputs
  PROVE  /\ \A n : Clean(corpus[n])' <=> Clean(corpus[n])
         /\ \A n : Verifies(corpus[n])' <=> Verifies(corpus[n])
         /\ Certified' <=> Certified
<1>1. \A n : Clean(corpus[n])' <=> Clean(corpus[n])
  BY DEF Inputs, Clean, Selected, Executable, Fine, QuorumHolds
<1>2. \A n : Verifies(corpus[n])' <=> Verifies(corpus[n])
  BY DEF Inputs, Verifies, Selected, Executable
<1>3. Certified' <=> Certified
  BY <1>1, <1>2 DEF Inputs, Certified
<1> QED
  BY <1>1, <1>2, <1>3

LEMMA NextFixture ==
  ASSUME IInv, UNCHANGED Inputs, next' = next + 1, pc # "exited"
  PROVE  /\ Spotless' <=> Spotless /\ Clean(Fixture)
         /\ Counted' <=> Counted \/ Verifies(Fixture)
<1>1. next \in 1..(Len(corpus) + 1) /\ Len(corpus) \in Nat
  BY Files DEF IInv, Position
<1>2. 1..(next' - 1) = 1..(next - 1) \cup {next}
  BY <1>1
<1>3. Spotless' <=> \A n \in 1..(next - 1) \cup {next} : Clean(corpus[n])
  BY <1>2, SameArguments DEF Spotless
<1>4. Counted' <=> \E n \in 1..(next - 1) \cup {next} : Verifies(corpus[n])
  BY <1>2, SameArguments DEF Counted
<1> QED
  BY <1>3, <1>4 DEF Spotless, Counted, Fixture

LEMMA SameFixture ==
  ASSUME UNCHANGED <<Inputs, next>>
  PROVE  /\ Spotless' <=> Spotless
         /\ Counted' <=> Counted
         /\ Fixture' = Fixture
<1>1. Spotless' <=> Spotless
  BY SameArguments DEF Spotless
<1>2. Counted' <=> Counted
  BY SameArguments DEF Counted
<1> QED
  BY <1>1, <1>2 DEF Fixture, Inputs

\* The exits: the status is all there is to show.
LEMMA ExitKeeps ==
  ASSUME IInv, NEW status \in {"0", "1"}, Exit(status), status = Status
  PROVE  IInv'
<1>1. Given'
  BY DEF IInv, Given, Exit
<1>2. TypeOK'
  BY DEF IInv, TypeOK, Exit
<1>3. pc' = "exited"
  BY DEF Exit
<1>4. Status' = Status
  BY SameArguments DEF Status, Exit, Inputs
<1>5. ExitRight'
  BY <1>4 DEF ExitRight, Exit
<1>6. ~InBranch' /\ ~AtPlain'
  BY <1>3 DEF InBranch, AtPlain
<1>7. Position' /\ BetweenFixtures' /\ GoldenTally'
  BY <1>3 DEF Position, BetweenFixtures, GoldenTally
<1>8. InPlainLoop' /\ BranchShape' /\ BranchTally'
  BY <1>6 DEF InPlainLoop, BranchShape, BranchTally
<1> QED
  BY <1>1, <1>2, <1>5, <1>7, <1>8 DEF IInv

\* Leaving a fixture behind.
LEMMA AdvanceKeeps ==
  ASSUME IInv, UNCHANGED <<Inputs, exit>>, TypeOK', pc # "exited",
         next <= Len(corpus), Fixture.parses,
         pc' = "fixture", next' = next + 1,
         failures' = 0 <=> Spotless /\ Clean(Fixture),
         failures' = 0 => (passes' # 0 <=> Counted \/ Verifies(Fixture))
  PROVE  IInv'
<1>1. Given'
  BY DEF IInv, Given, Inputs
<1>2. next \in 1..(Len(corpus) + 1) /\ Len(corpus) \in Nat
  BY Files DEF IInv, Position
<1>3. Position'
  <2>1. next' \in 1..(Len(corpus) + 1) /\ corpus' = corpus
    BY <1>2 DEF Inputs
  <2>2. \A n \in 1..(next' - 1) : corpus[n].parses
    BY <1>2 DEF IInv, Position, Fixture
  <2>3. exit' = "none"
    BY DEF IInv, Position
  <2> QED
    BY <2>1, <2>2, <2>3 DEF Position
<1>4. BetweenFixtures'
  BY NextFixture DEF BetweenFixtures, Tally
<1>5. ~InBranch' /\ ~AtPlain'
  BY DEF InBranch, AtPlain
<1>6. InPlainLoop' /\ BranchShape' /\ BranchTally'
  BY <1>5 DEF InPlainLoop, BranchShape, BranchTally
<1>7. GoldenTally' /\ ExitRight'
  BY DEF GoldenTally, ExitRight
<1> QED
  BY <1>1, <1>3, <1>4, <1>6, <1>7 DEF IInv

LEMMA AtFixtureFacts ==
  ASSUME IInv, AtFixture
  PROVE  /\ next \in 1..Len(corpus) /\ Len(corpus) \in Nat
         /\ Tally(Spotless, Counted) /\ exit = "none"
         /\ IsFile(Fixture)
<1>1. next \in 1..Len(corpus) /\ Len(corpus) \in Nat
  BY Files DEF IInv, Position, AtFixture
<1> QED
  BY <1>1, Files DEF IInv, Position, AtFixture, BetweenFixtures, Fixture

LEMMA UnparsableStep == ASSUME IInv, Unparsable PROVE IInv'
<1>1. next \in 1..Len(corpus) /\ DOMAIN corpus = 1..Len(corpus)
  BY AtFixtureFacts, Files DEF Unparsable, IInv
<1>2. ~Certified
  BY <1>1 DEF Unparsable, Certified, Fixture
<1> QED
  BY <1>2, ExitKeeps DEF Unparsable, Status

LEMMA FilterOutStep == ASSUME IInv, FilterOut PROVE IInv'
<1>1. AtFixture /\ Tally(Spotless, Counted)
  BY AtFixtureFacts DEF FilterOut
<1>2. Clean(Fixture) /\ ~Verifies(Fixture)
  BY DEF FilterOut, Clean, Verifies
<1>3. TypeOK'
  BY <1>1 DEF FilterOut, AtFixture, Inputs, IInv, TypeOK
<1> QED
  BY <1>1, <1>2, <1>3, AdvanceKeeps DEF FilterOut, AtFixture, Tally

LEMMA UnknownFamilyStep ==
  ASSUME IInv, UnknownFamily
  PROVE  IInv'
<1>1. AtFixture /\ Tally(Spotless, Counted)
  BY AtFixtureFacts DEF UnknownFamily
<1>2. ~Clean(Fixture)
  BY DEF UnknownFamily, Clean
<1>3. TypeOK' /\ failures' # 0
  BY <1>1 DEF UnknownFamily, AtFixture, Inputs, IInv, TypeOK
<1> QED
  BY <1>1, <1>2, <1>3, AdvanceKeeps DEF UnknownFamily, AtFixture

LEMMA SkipBehavioralStep ==
  ASSUME IInv, SkipBehavioral
  PROVE  IInv'
<1>1. AtFixture /\ Tally(Spotless, Counted)
  BY AtFixtureFacts DEF SkipBehavioral
<1>2. Clean(Fixture) /\ ~Verifies(Fixture)
  BY DEF SkipBehavioral, Clean, Verifies
<1>3. TypeOK'
  BY <1>1 DEF SkipBehavioral, AtFixture, Inputs, IInv, TypeOK
<1> QED
  BY <1>1, <1>2, <1>3, AdvanceKeeps DEF SkipBehavioral, AtFixture, Tally

----------------------------------------------------------------------------
\* The fixture that was dispatched.
LEMMA Dispatched ==
  ASSUME IInv, pc = "vectors"
  PROVE  /\ next \in 1..Len(corpus) /\ Len(corpus) \in Nat
         /\ IsFile(Fixture) /\ Fixture.parses /\ Selected(Fixture)
         /\ Fixture.family \in KnownFamilies /\ Executable(Fixture)
         /\ Size \in Nat /\ DOMAIN Fixture.vectors = 1..Size
         /\ Fixture.vectors = << >> <=> Size = 0
<1>1. next \in 1..Len(corpus) /\ Len(corpus) \in Nat
  BY Files DEF IInv, Position
<1>2. IsFile(Fixture)
  BY <1>1, Files DEF IInv, Fixture
<1> QED
  BY <1>1, <1>2, FileShape DEF IInv, Position, Size

LEMMA PlainFixture ==
  ASSUME IInv, AtPlain
  PROVE  /\ Clean(Fixture) <=> Size > 0 /\ FineUpTo(Size)
         /\ Verifies(Fixture) <=> PassedUpTo(Size)
<1>1. pc = "vectors" /\ Fixture.family # "wit"
  BY DEF AtPlain
<1>2. Clean(Fixture) <=> Size > 0 /\ FineUpTo(Size)
  BY <1>1, Dispatched DEF Clean, FineUpTo
<1>3. Verifies(Fixture) <=> PassedUpTo(Size)
  BY <1>1, Dispatched DEF Verifies, PassedUpTo
<1> QED
  BY <1>2, <1>3

LEMMA WitnessedFixture ==
  ASSUME IInv, InBranch
  PROVE  /\ QuorumHolds(Fixture) <=>
              (Fixture.quorum.pinned =>
                 Fixture.quorum.count =
                   Cardinality(Collected(Fixture.quorum.target, Size)))
         /\ Clean(Fixture) <=> Size > 0 /\ FineUpTo(Size) /\ QuorumHolds(Fixture)
         /\ Verifies(Fixture) <=> Size > 0
<1>1. pc = "vectors" /\ Fixture.family = "wit"
  BY DEF InBranch
<1>2. Collected(Fixture.quorum.target, Size) =
        {Fixture.vectors[n].witness :
           n \in {m \in DOMAIN Fixture.vectors :
                    Fixture.vectors[m].checkpoint = Fixture.quorum.target}}
  BY <1>1, Dispatched DEF Collected
<1>3. QuorumHolds(Fixture) <=>
        (Fixture.quorum.pinned =>
           Fixture.quorum.count =
             Cardinality(Collected(Fixture.quorum.target, Size)))
  BY <1>2 DEF QuorumHolds
<1>4. Clean(Fixture) <=> Size > 0 /\ FineUpTo(Size) /\ QuorumHolds(Fixture)
  BY <1>1, Dispatched DEF Clean, FineUpTo
<1>5. Verifies(Fixture) <=> Size > 0
  BY <1>1, Dispatched DEF Verifies
<1> QED
  BY <1>3, <1>4, <1>5

\* What a step inside a fixture has nothing to do with.
LEMMA WithinKeeps ==
  ASSUME IInv, pc = "vectors", UNCHANGED <<Inputs, next, pc, exit>>
  PROVE  /\ Given' /\ Position' /\ BetweenFixtures' /\ GoldenTally' /\ ExitRight'
         /\ Spotless' <=> Spotless
         /\ Counted' <=> Counted
         /\ Fixture' = Fixture /\ Size' = Size
         /\ AtPlain' <=> AtPlain
         /\ InBranch' <=> InBranch
<1>1. Fixture' = Fixture
  BY SameFixture
<1>2. Position'
  BY <1>1 DEF IInv, Position, Inputs, Selected
<1>3. Given' /\ BetweenFixtures' /\ GoldenTally' /\ ExitRight'
  BY DEF IInv, Given, Inputs, BetweenFixtures, GoldenTally, ExitRight
<1>4. /\ Size' = Size
      /\ AtPlain' <=> AtPlain
      /\ InBranch' <=> InBranch
  BY <1>1 DEF Size, AtPlain, InBranch
<1> QED
  BY <1>1, <1>2, <1>3, <1>4, SameFixture

LEMMA CheckVectorStep ==
  ASSUME IInv, CheckVector
  PROVE  IInv'
<1> DEFINE n == Size - Len(todo)
<1>1. pc = "vectors" /\ todo # << >> /\ todo \in Seq(Outcomes)
  BY DEF CheckVector, IInv, TypeOK
<1>2. AtPlain
  BY <1>1 DEF AtPlain, InBranch, IInv, BranchShape
<1>3. UNCHANGED <<Inputs, next, pc, exit>>
  BY DEF CheckVector
<1>4. /\ Len(todo) \in 1..Size /\ Size \in Nat
      /\ Head(todo) = Fixture.vectors[n + 1]
      /\ Tally(Spotless /\ Size > 0 /\ FineUpTo(n), Counted \/ PassedUpTo(n))
  <2>1. Len(todo) \in 1..Size /\ Size \in Nat /\ Head(todo) = todo[1]
    BY <1>1, <1>2, Dispatched DEF IInv, InPlainLoop
  <2> QED
    BY <2>1, <1>2 DEF IInv, InPlainLoop
<1>5. /\ todo' \in Seq(Outcomes) /\ Len(todo') = Len(todo) - 1
      /\ \A j \in 1..Len(todo') : todo'[j] = todo[j + 1]
  BY <1>1 DEF CheckVector
<1>6. TypeOK'
  BY <1>3, <1>5 DEF CheckVector, IInv, TypeOK, Inputs
<1>7. n \in Nat /\ n < Size /\ Size - Len(todo') = n + 1
  BY <1>4, <1>5
<1>8. /\ FineUpTo(n + 1) <=> FineUpTo(n) /\ Head(todo) \in {"pass", "none"}
      /\ PassedUpTo(n + 1) <=> PassedUpTo(n) \/ Head(todo) = "pass"
  <2> HIDE DEF n
  <2>1. 1..(n + 1) = 1..n \cup {n + 1}
    BY <1>7
  <2>2. Fine(Fixture, n + 1) <=> Head(todo) \in {"pass", "none"}
    BY <1>2, <1>4 DEF Fine, AtPlain
  <2> QED
    BY <1>4, <2>1, <2>2 DEF FineUpTo, PassedUpTo
<1>9. Head(todo) \in {"pass", "fail", "none"}
  BY <1>1 DEF CheckVector, Outcomes
<1>10. /\ failures' = 0 <=> Spotless /\ Size > 0 /\ FineUpTo(n + 1)
       /\ failures' = 0 => (passes' # 0 <=> Counted \/ PassedUpTo(n + 1))
  <2> HIDE DEF n
  <2>1. passes \in Nat /\ failures \in Nat
    BY DEF IInv, TypeOK
  <2> QED
    BY <2>1, <1>4, <1>8, <1>9 DEF Tally, CheckVector
<1>11. InPlainLoop'
  <2>1. /\ Fixture' = Fixture /\ Size' = Size
        /\ Spotless' <=> Spotless
        /\ Counted' <=> Counted
    BY <1>1, <1>3, WithinKeeps
  <2>2. (\A j \in 1..Len(todo') : todo'[j] = Fixture.vectors[Size - Len(todo') + j])
    <3> SUFFICES ASSUME NEW j \in 1..Len(todo')
                 PROVE  todo'[j] = Fixture.vectors[Size - Len(todo') + j]
      OBVIOUS
    <3>1. todo'[j] = todo[j + 1] /\ j + 1 \in 1..Len(todo)
      BY <1>4, <1>5
    <3>2. todo[j + 1] = Fixture.vectors[Size - Len(todo) + (j + 1)]
      BY <3>1, <1>2 DEF IInv, InPlainLoop
    <3>3. Size - Len(todo) + (j + 1) = Size - Len(todo') + j
      BY <1>4, <1>5
    <3> QED
      BY <3>1, <3>2, <3>3
  <2>3. /\ FineUpTo(Size - Len(todo))' <=> FineUpTo(n + 1)
        /\ PassedUpTo(Size - Len(todo))' <=> PassedUpTo(n + 1)
    BY <2>1, <1>7 DEF FineUpTo, PassedUpTo
  <2> QED
    BY <2>1, <2>2, <2>3, <1>4, <1>5, <1>10 DEF InPlainLoop, Tally
<1>12. BranchShape' /\ BranchTally'
  BY <1>1, <1>2, <1>3, WithinKeeps DEF BranchShape, BranchTally, AtPlain, InBranch
<1> QED
  BY <1>1, <1>3, <1>6, <1>11, <1>12, WithinKeeps DEF IInv

LEMMA DispatchStep ==
  ASSUME IInv, Dispatch
  PROVE  IInv'
<1>1. /\ AtFixture /\ next \in 1..Len(corpus) /\ Len(corpus) \in Nat
      /\ Tally(Spotless, Counted) /\ exit = "none" /\ IsFile(Fixture)
  BY AtFixtureFacts DEF Dispatch
<1>2. /\ Size \in Nat
      /\ Fixture.vectors = << >> <=> Size = 0
      /\ Fixture.family # "wit" => Fixture.vectors \in Seq(Outcomes)
  BY <1>1, FileShape DEF Size
<1>3. UNCHANGED <<Inputs, next, exit>> /\ pc' = "vectors"
  BY DEF Dispatch
<1>4. /\ Fixture' = Fixture /\ Size' = Size
      /\ Spotless' <=> Spotless
      /\ Counted' <=> Counted
  BY <1>3, SameFixture DEF Size
<1>5. /\ passes' = passes /\ passes \in Nat /\ failures' \in Nat
      /\ failures' = 0 <=> Spotless /\ Size > 0
      /\ failures' = 0 => (passes' # 0 <=> Counted)
  BY <1>1, <1>2 DEF Dispatch, IInv, TypeOK, Tally
<1>6. Position'
  BY <1>1, <1>3, <1>4 DEF IInv, Position, Dispatch, AtFixture, Inputs, Selected
<1>7. Given' /\ BetweenFixtures' /\ GoldenTally' /\ ExitRight'
  BY <1>3 DEF IInv, Given, Inputs, BetweenFixtures, GoldenTally, ExitRight
<1>8. TypeOK'
  BY <1>2, <1>3, <1>5 DEF Dispatch, IInv, TypeOK, Inputs
<1>9. InPlainLoop'
  <2> SUFFICES ASSUME AtPlain' PROVE InPlainLoop'
    BY DEF InPlainLoop
  <2>1. Fixture.family # "wit"
    BY <1>4 DEF AtPlain
  <2>2. todo' = Fixture.vectors /\ Len(todo') = Size
    BY <2>1 DEF Dispatch, Size
  <2>3. FineUpTo(Size - Len(todo))' /\ ~PassedUpTo(Size - Len(todo))'
    BY <2>2, <1>2, <1>4 DEF FineUpTo, PassedUpTo
  <2> QED
    BY <2>2, <2>3, <1>2, <1>4, <1>5 DEF InPlainLoop, Tally
<1>10. BranchShape' /\ BranchTally'
  <2> SUFFICES ASSUME InBranch' PROVE BranchShape' /\ BranchTally'
    BY DEF BranchShape, BranchTally
  <2>1. Fixture.family = "wit"
    BY <1>4 DEF InBranch
  <2>2. /\ todo' = << >> /\ step' = "vectors" /\ k' = 0 /\ verdicts' = << >>
        /\ seen' = [c \in Checkpoints |-> {}] /\ quorum' = "none" /\ ret' = "none"
    BY <2>1 DEF Dispatch, Branch!Call
  <2>3. Branch!TypeOK'
    BY <2>2, <1>2, <1>4, <1>5 DEF Branch!TypeOK, Branch!Vectors, Size
  <2>4. BranchShape'
    BY <2>2, <2>3 DEF BranchShape
  <2>5. FineUpTo(k)'
    BY <2>2 DEF FineUpTo
  <2>6. BranchTally'
    BY <2>2, <2>5, <1>4, <1>5 DEF BranchTally, Tally
  <2> QED
    BY <2>4, <2>6
<1> QED
  BY <1>6, <1>7, <1>8, <1>9, <1>10 DEF IInv

LEMMA FinishFixtureStep ==
  ASSUME IInv, FinishFixture
  PROVE  IInv'
<1>1. /\ pc = "vectors" /\ todo = << >>
      /\ InBranch => ret = "done"
      /\ UNCHANGED <<Inputs, exit, passes, failures>> /\ pc' = "fixture"
      /\ next' = next + 1 /\ next \in 1..Len(corpus) /\ Len(corpus) \in Nat
      /\ Fixture.parses /\ Size \in Nat
  BY Dispatched DEF FinishFixture
<1>2. TypeOK'
  BY <1>1 DEF FinishFixture, IInv, TypeOK, Inputs
<1>3. Tally(Spotless /\ Clean(Fixture), Counted \/ Verifies(Fixture))
  <2>1. CASE AtPlain
    <3>1. Size - Len(todo) = Size
      BY <1>1
    <3>2. Tally(Spotless /\ Size > 0 /\ FineUpTo(Size), Counted \/ PassedUpTo(Size))
      BY <2>1, <3>1 DEF IInv, InPlainLoop
    <3> QED
      BY <2>1, <3>2, PlainFixture DEF Tally
  <2>2. CASE InBranch
    <3>1. Tally(Spotless /\ Clean(Fixture), Counted \/ Size > 0)
      BY <2>2, <1>1 DEF IInv, BranchTally
    <3> QED
      BY <2>2, <3>1, WitnessedFixture DEF Tally
  <2> QED
    BY <1>1, <2>1, <2>2 DEF AtPlain, InBranch
<1> QED
  BY <1>1, <1>2, <1>3, AdvanceKeeps DEF Tally

LEMMA CheckerRaisesStep ==
  ASSUME IInv, CheckerRaises
  PROVE  IInv'
<1>1. /\ pc = "vectors" /\ next \in 1..Len(corpus) /\ DOMAIN corpus = 1..Len(corpus)
      /\ Size \in Nat
  BY Dispatched, Files DEF CheckerRaises, IInv
<1>2. ~FineUpTo(Size) /\ (AtPlain \/ InBranch)
  <2>1. CASE InBranch
    <3>1. ret = "raised"
      BY <2>1 DEF CheckerRaises, IInv, BranchShape
    <3> QED
      BY <2>1, <3>1 DEF IInv, BranchTally
  <2>2. CASE AtPlain
    <3> DEFINE n == Size - Len(todo) + 1
    <3>1. todo # << >> /\ Head(todo) = "raise" /\ todo \in Seq(Outcomes)
      BY <2>2 DEF CheckerRaises, InBranch, AtPlain, IInv, TypeOK
    <3>2. Len(todo) \in Nat /\ Len(todo) > 0 /\ Len(todo) <= Size /\ Head(todo) = todo[1]
      BY <2>2, <3>1 DEF IInv, InPlainLoop
    <3>3. n \in 1..Size /\ Fixture.vectors[n] = "raise"
      BY <1>1, <2>2, <3>1, <3>2 DEF IInv, InPlainLoop
    <3>4. ~Fine(Fixture, n)
      BY <2>2, <3>3 DEF Fine, AtPlain
    <3> QED
      BY <2>2, <3>3, <3>4 DEF FineUpTo
  <2> QED
    BY <1>1, <2>1, <2>2 DEF AtPlain, InBranch
<1>3. ~Clean(Fixture)
  BY <1>2, PlainFixture, WitnessedFixture
<1>4. ~Certified
  BY <1>1, <1>3 DEF Certified, Fixture
<1> QED
  BY <1>4, ExitKeeps DEF CheckerRaises, Status
----------------------------------------------------------------------------
\* Past the last fixture the counters speak of the whole directory.
LEMMA AllBehind ==
  ASSUME IInv, next = Len(corpus) + 1, pc # "exited"
  PROVE  /\ Certified <=>
              Spotless /\ IF only THEN Counted
                                  ELSE golden[1] = "pass" /\ golden[2] = "pass"
         /\ passes \in Nat /\ failures \in Nat
<1>1. DOMAIN corpus = 1..(next - 1)
  BY Files DEF IInv
<1>2. \A n \in DOMAIN corpus : corpus[n].parses
  BY <1>1 DEF IInv, Position
<1>3. Spotless <=> \A n \in DOMAIN corpus : corpus[n].parses /\ Clean(corpus[n])
  BY <1>1, <1>2 DEF Spotless
<1>4. Counted <=> \E n \in DOMAIN corpus : Verifies(corpus[n])
  BY <1>1 DEF Counted
<1> QED
  BY <1>3, <1>4 DEF Certified, IInv, TypeOK

LEMMA AtEndFacts ==
  ASSUME IInv, AtEnd
  PROVE  next = Len(corpus) + 1 /\ pc = "fixture" /\ Tally(Spotless, Counted)
BY Files DEF IInv, Position, AtEnd, BetweenFixtures

LEMMA NothingExecutedStep ==
  ASSUME IInv, NothingExecuted
  PROVE  IInv'
<1>1. ~Certified
  BY AtEndFacts, AllBehind DEF NothingExecuted, Tally
<1> QED
  BY <1>1, ExitKeeps DEF NothingExecuted, Status

LEMMA ReportResultStep ==
  ASSUME IInv, ReportResult
  PROVE  IInv'
<1>1. Certified <=> failures = 0
  <2>1. CASE AtEnd /\ only /\ (passes # 0 \/ failures # 0)
    BY <2>1, AtEndFacts, AllBehind DEF Tally
  <2>2. CASE pc = "report"
    <3>1. next = Len(corpus) + 1 /\ ~only
      BY <2>2 DEF IInv, Position
    <3> QED
      BY <2>2, <3>1, AllBehind DEF IInv, GoldenTally
  <2> QED
    BY <2>1, <2>2 DEF ReportResult, Report
<1>2. Status = IF failures > 0 THEN "1" ELSE "0"
  BY <1>1 DEF Status, IInv, TypeOK
<1> QED
  BY <1>2, ExitKeeps DEF ReportResult

\* One golden example more, or its exception.
LEMMA GoldenKeeps ==
  ASSUME IInv, pc \in {"fixture", "receipt"}, pc' \in {"receipt", "report"},
         UNCHANGED <<Inputs, next, exit>>, TypeOK', ~only,
         next = Len(corpus) + 1, golden[1] # "raise",
         pc' = "report" => golden[2] # "raise", GoldenTally'
  PROVE  IInv'
<1>1. Position'
  BY DEF IInv, Position, Inputs
<1>2. ~InBranch' /\ ~AtPlain'
  BY DEF InBranch, AtPlain
<1>3. InPlainLoop' /\ BranchShape' /\ BranchTally'
  BY <1>2 DEF InPlainLoop, BranchShape, BranchTally
<1>4. Given' /\ BetweenFixtures' /\ ExitRight'
  BY DEF IInv, Given, Inputs, BetweenFixtures, ExitRight
<1> QED
  BY <1>1, <1>3, <1>4 DEF IInv

LEMMA CheckRetrievalExampleStep ==
  ASSUME IInv, CheckRetrievalExample
  PROVE  IInv'
<1>1. /\ next = Len(corpus) + 1 /\ pc = "fixture" /\ Tally(Spotless, Counted)
      /\ ~only /\ golden[1] \in {"pass", "fail"} /\ pc' = "receipt"
      /\ UNCHANGED <<Inputs, next, exit>>
      /\ failures' = IF golden[1] = "fail" THEN failures + 1 ELSE failures
  BY AtEndFacts, Files DEF CheckRetrievalExample, CheckGolden, IInv
<1>2. TypeOK'
  BY <1>1 DEF CheckRetrievalExample, CheckGolden, IInv, TypeOK, Inputs
<1>3. Spotless' <=> Spotless
  BY <1>1, SameFixture
<1>4. GoldenTally'
  BY <1>1, <1>3 DEF GoldenTally, Tally, Inputs, IInv, TypeOK
<1> QED
  BY <1>1, <1>2, <1>4, GoldenKeeps

LEMMA CheckReceiptExampleStep ==
  ASSUME IInv, CheckReceiptExample
  PROVE  IInv'
<1>1. /\ next = Len(corpus) + 1 /\ pc = "receipt" /\ ~only /\ golden[1] # "raise"
      /\ golden[2] \in {"pass", "fail"} /\ pc' = "report"
      /\ UNCHANGED <<Inputs, next, exit>>
      /\ failures' = IF golden[2] = "fail" THEN failures + 1 ELSE failures
  BY Files DEF CheckReceiptExample, CheckGolden, IInv, Position
<1>2. TypeOK'
  BY <1>1 DEF CheckReceiptExample, CheckGolden, IInv, TypeOK, Inputs
<1>3. Spotless' <=> Spotless
  BY <1>1, SameFixture
<1>4. GoldenTally'
  BY <1>1, <1>3 DEF GoldenTally, Inputs, IInv, TypeOK
<1> QED
  BY <1>1, <1>2, <1>4, GoldenKeeps

LEMMA GoldenRaisesStep ==
  ASSUME IInv, GoldenRaises
  PROVE  IInv'
<1>1. ~Certified
  BY DEF GoldenRaises, Certified, IInv, Position
<1> QED
  BY <1>1, ExitKeeps DEF GoldenRaises, Status
----------------------------------------------------------------------------
\* The steps of the wit- branch.
LEMMA BranchKeeps ==
  ASSUME IInv, InBranch,
         UNCHANGED <<Inputs, pc, next, todo, skipped_behavioral, exit>>,
         passes' \in Nat, failures' \in Nat, BranchShape', BranchTally'
  PROVE  IInv'
<1>1. pc = "vectors" /\ ~AtPlain
  BY DEF InBranch, AtPlain
<1>2. TypeOK'
  BY DEF IInv, TypeOK, Inputs
<1>3. InPlainLoop'
  BY <1>1, WithinKeeps DEF InPlainLoop
<1> QED
  BY <1>1, <1>2, <1>3, WithinKeeps DEF IInv

LEMMA BranchFacts ==
  ASSUME IInv, InBranch
  PROVE  /\ IsFile(Fixture) /\ Fixture.family = "wit" /\ Size \in Nat
         /\ \A n \in 1..Size : Fixture.vectors[n] \in Cosignature
         /\ Fixture.chain \in Checkpoints \cup {None, Missing}
         /\ Fixture.quorum.target \in Checkpoints
         /\ Fixture.vectors = Branch!Vectors /\ Size = Len(Branch!Vectors)
         /\ passes \in Nat /\ failures \in Nat
         /\ k \in 0..Size /\ verdicts \in Seq(BOOLEAN) /\ Len(verdicts) <= Size
         /\ seen \in [Checkpoints -> SUBSET Witnesses]
         /\ step \in {"vectors", "count", "returned"}
<1>1. pc = "vectors" /\ Fixture.family = "wit"
  BY DEF InBranch
<1>2. IsFile(Fixture) /\ Size \in Nat
  BY <1>1, Dispatched
<1>3. Branch!TypeOK
  BY DEF IInv, BranchShape
<1> QED
  BY <1>1, <1>2, <1>3, FileShape DEF Branch!TypeOK, Branch!Vectors, Size

\* What holds of a vector is what Fine says of it.
LEMMA HoldsIfFine ==
  ASSUME IInv, InBranch, NEW n \in 1..Size
  PROVE  LET v == Fixture.vectors[n]
         IN  /\ Fine(Fixture, n) <=>
                  Branch!Verifies(v) /\ Branch!Chained(v)
             /\ Fixture.chain = Missing => ~Fine(Fixture, n)
<1> DEFINE v == Fixture.vectors[n]
<1>1. Fixture.family = "wit" /\ v \in Cosignature /\ v.checkpoint \in Checkpoints
  BY BranchFacts DEF Cosignature
<1>2. Missing \notin Checkpoints /\ Missing # None
  BY RunnerAssumption
<1> QED
  BY <1>1, <1>2 DEF Fine, Branch!Verifies, Branch!Chained

LEMMA WitnessVectorStep ==
  ASSUME IInv, InBranch, Branch!CheckVector,
         UNCHANGED <<Inputs, pc, next, todo, skipped_behavioral, exit>>
  PROVE  IInv'
<1> DEFINE v == Fixture.vectors[k + 1]
           holds == Branch!Verifies(v) /\ Branch!Chained(v)
<1>1. /\ step = "vectors" /\ k < Size /\ k \in Nat /\ k + 1 \in 1..Size
      /\ Size \in Nat
  BY BranchFacts DEF Branch!CheckVector
<1>2. Fine(Fixture, k + 1) <=> holds
  BY <1>1, HoldsIfFine
<1>3. /\ k' = k + 1 /\ verdicts' = Append(verdicts, holds)
      /\ passes' = IF holds THEN passes + 1 ELSE passes
      /\ failures' = IF holds THEN failures ELSE failures + 1
      /\ step' = step /\ seen' = seen /\ quorum' = quorum /\ ret' = ret
  BY DEF Branch!CheckVector, Branch!Vectors
<1> HIDE DEF holds
<1>4. /\ k = Len(verdicts) /\ ret = "none" /\ todo = << >>
      /\ Tally(Spotless /\ Size > 0 /\ FineUpTo(k), Counted \/ k > 0)
      /\ \A c \in Checkpoints : seen[c] = {}
      /\ quorum # "True" /\ quorum \in {"none", "True", "False"}
      /\ \A j \in 1..k : verdicts[j] <=> Fine(Fixture, j)
  BY <1>1 DEF IInv, BranchShape, BranchTally, Branch!TypeOK
<1>5. /\ Fixture' = Fixture /\ Size' = Size
      /\ Spotless' <=> Spotless
      /\ Counted' <=> Counted
      /\ InBranch'
  BY WithinKeeps DEF InBranch
<1>6. holds \in BOOLEAN
  BY DEF holds
<1>7. /\ verdicts' \in Seq(BOOLEAN) /\ Len(verdicts') = k + 1
      /\ \A j \in 1..k : verdicts'[j] = verdicts[j]
      /\ verdicts'[k + 1] = holds
  BY <1>3, <1>4, <1>6, BranchFacts
<1>8. 1..(k + 1) = 1..k \cup {k + 1}
  BY <1>1
<1>9. \A j \in 1..(k + 1) : verdicts'[j] <=> Fine(Fixture, j)
  BY <1>2, <1>4, <1>7, <1>8
<1>10. FineUpTo(k)' <=> FineUpTo(k) /\ holds
  BY <1>2, <1>3, <1>5, <1>8 DEF FineUpTo
<1>11. passes' \in Nat /\ failures' \in Nat
  BY <1>3, BranchFacts
<1>12. Branch!TypeOK'
  BY <1>1, <1>3, <1>4, <1>5, <1>7, <1>11, BranchFacts DEF Branch!TypeOK, Branch!Vectors
<1>13. BranchShape'
  BY <1>1, <1>3, <1>4, <1>5, <1>7, <1>9, <1>12 DEF BranchShape
<1>14. BranchTally'
  BY <1>1, <1>3, <1>4, <1>5, <1>10, BranchFacts DEF BranchTally, Tally
<1> QED
  BY <1>11, <1>13, <1>14, BranchKeeps

LEMMA LogFixtureMissingStep ==
  ASSUME IInv, InBranch, Branch!LogFixtureMissing,
         UNCHANGED <<Inputs, pc, next, todo, skipped_behavioral, exit>>
  PROVE  IInv'
<1>1. /\ step = "vectors" /\ k + 1 \in 1..Size /\ Fixture.chain = Missing
      /\ step' = "returned" /\ ret' = "raised"
      /\ UNCHANGED <<k, verdicts, seen, quorum, passes, failures>>
  BY BranchFacts DEF Branch!LogFixtureMissing, Branch!Vectors
<1>2. ~FineUpTo(Size)
  BY <1>1, HoldsIfFine DEF FineUpTo
<1>3. /\ quorum # "True" /\ todo = << >> /\ Branch!TypeOK
      /\ \A j \in 1..Len(verdicts) : verdicts[j] <=> Fine(Fixture, j)
  BY <1>1 DEF IInv, BranchShape, BranchTally
<1>4. Fixture' = Fixture /\ Size' = Size /\ InBranch'
  BY WithinKeeps DEF InBranch
<1>5. Branch!TypeOK'
  BY <1>1, <1>3, <1>4 DEF Branch!TypeOK, Branch!Vectors
<1>6. BranchShape'
  BY <1>1, <1>3, <1>4, <1>5 DEF BranchShape
<1>7. ~FineUpTo(Size)'
  BY <1>2, <1>4 DEF FineUpTo
<1>8. BranchTally'
  BY <1>1, <1>3, <1>7 DEF BranchTally
<1> QED
  BY <1>1, <1>6, <1>8, BranchFacts, BranchKeeps

LEMMA EndVectorsStep ==
  ASSUME IInv, InBranch, Branch!EndVectors,
         UNCHANGED <<Inputs, pc, next, todo, skipped_behavioral, exit>>
  PROVE  IInv'
<1>1. /\ step = "vectors" /\ k = Size /\ k' = 0 /\ Size \in Nat
      /\ step' = IF Fixture.quorum.pinned THEN "count" ELSE "returned"
      /\ ret' = IF Fixture.quorum.pinned THEN ret ELSE "done"
      /\ UNCHANGED <<verdicts, seen, quorum, passes, failures>>
  BY BranchFacts DEF Branch!EndVectors, Branch!Vectors
<1>2. /\ quorum # "True" /\ ret = "none" /\ todo = << >> /\ Branch!TypeOK
      /\ \A j \in 1..Len(verdicts) : verdicts[j] <=> Fine(Fixture, j)
      /\ Len(verdicts) = Size /\ \A c \in Checkpoints : seen[c] = {}
      /\ Tally(Spotless /\ Size > 0 /\ FineUpTo(Size), Counted \/ Size > 0)
  BY <1>1 DEF IInv, BranchShape, BranchTally
<1>3. /\ Fixture' = Fixture /\ Size' = Size
      /\ Spotless' <=> Spotless
      /\ Counted' <=> Counted
      /\ InBranch'
  BY WithinKeeps DEF InBranch
<1>4. Branch!TypeOK'
  BY <1>1, <1>2, <1>3 DEF Branch!TypeOK, Branch!Vectors
<1>5. \A c \in Checkpoints : Collected(c, k)' = {}
  BY <1>1 DEF Collected
<1>6. BranchShape'
  BY <1>1, <1>2, <1>3, <1>4, <1>5 DEF BranchShape
<1>7. FineUpTo(Size)' <=> FineUpTo(Size)
  BY <1>3 DEF FineUpTo
<1>8. Clean(Fixture)' <=> Clean(Fixture)
  BY SameArguments DEF Fixture, Inputs
<1>9. ~Fixture.quorum.pinned => (Clean(Fixture) <=> Size > 0 /\ FineUpTo(Size))
  BY WitnessedFixture
<1>10. BranchTally'
  BY <1>1, <1>2, <1>3, <1>7, <1>8, <1>9 DEF BranchTally, Tally
<1> QED
  BY <1>1, <1>6, <1>10, BranchFacts, BranchKeeps

LEMMA CollectWitnessStep ==
  ASSUME IInv, InBranch, Branch!CollectWitness,
         UNCHANGED <<Inputs, pc, next, todo, skipped_behavioral, exit>>
  PROVE  IInv'
<1> DEFINE v == Fixture.vectors[k + 1]
<1>1. /\ step = "count" /\ k \in Nat /\ k < Size /\ Size \in Nat /\ k' = k + 1
      /\ seen' = [seen EXCEPT ![v.checkpoint] = @ \cup {v.witness}]
      /\ UNCHANGED <<step, verdicts, quorum, passes, failures, ret>>
  BY BranchFacts DEF Branch!CollectWitness, Branch!Vectors
<1>2. /\ quorum # "True" /\ ret = "none" /\ todo = << >> /\ Branch!TypeOK
      /\ \A j \in 1..Len(verdicts) : verdicts[j] <=> Fine(Fixture, j)
      /\ Len(verdicts) = Size /\ \A c \in Checkpoints : seen[c] = Collected(c, k)
      /\ Tally(Spotless /\ Size > 0 /\ FineUpTo(Size), Counted \/ Size > 0)
      /\ Fixture.quorum.pinned
  BY <1>1 DEF IInv, BranchShape, BranchTally
<1>3. /\ Fixture' = Fixture /\ Size' = Size
      /\ Spotless' <=> Spotless
      /\ Counted' <=> Counted
      /\ InBranch'
  BY WithinKeeps DEF InBranch
<1>4. v.checkpoint \in Checkpoints /\ v.witness \in Witnesses
  BY <1>1, BranchFacts DEF Cosignature
<1>5. seen' \in [Checkpoints -> SUBSET Witnesses]
  BY <1>1, <1>4, BranchFacts
<1>6. Branch!TypeOK'
  BY <1>1, <1>2, <1>3, <1>5 DEF Branch!TypeOK, Branch!Vectors, Size
<1>7. ASSUME NEW c \in Checkpoints
      PROVE  seen'[c] = Collected(c, k + 1)
  <2>1. 1..(k + 1) = 1..k \cup {k + 1}
    BY <1>1
  <2>2. CASE c = v.checkpoint
    <3>1. Collected(c, k + 1) = Collected(c, k) \cup {v.witness}
      BY <2>1, <2>2 DEF Collected
    <3> QED
      BY <1>1, <1>2, <1>4, <2>2, <3>1, BranchFacts
  <2>3. CASE c # v.checkpoint
    <3>1. Collected(c, k + 1) = Collected(c, k)
      BY <2>1, <2>3 DEF Collected
    <3> QED
      BY <1>1, <1>2, <1>4, <2>3, <3>1, BranchFacts
  <2> QED
    BY <2>2, <2>3
<1>8. \A c \in Checkpoints : Collected(c, k)' = Collected(c, k + 1)
  BY <1>1, <1>3 DEF Collected
<1>9. BranchShape'
  BY <1>1, <1>2, <1>3, <1>6, <1>7, <1>8 DEF BranchShape
<1>10. FineUpTo(Size)' <=> FineUpTo(Size)
  BY <1>3 DEF FineUpTo
<1>11. BranchTally'
  BY <1>1, <1>2, <1>3, <1>10 DEF BranchTally, Tally
<1> QED
  BY <1>1, <1>9, <1>11, BranchFacts, BranchKeeps

LEMMA SameCardinality == \A S : Branch!Cardinality(S) = Cardinality(S)
BY DEF Cardinality, Branch!Cardinality

LEMMA CompareQuorumStep ==
  ASSUME IInv, InBranch, Branch!CompareQuorum,
         UNCHANGED <<Inputs, pc, next, todo, skipped_behavioral, exit>>
  PROVE  IInv'
<1> DEFINE reached == Cardinality(seen[Fixture.quorum.target]) = Fixture.quorum.count
<1>1. /\ step = "count" /\ k = Size /\ Size \in Nat
      /\ step' = "returned" /\ ret' = "done"
      /\ quorum' = IF reached THEN "True" ELSE "False"
      /\ passes' = IF reached THEN passes + 1 ELSE passes
      /\ failures' = IF reached THEN failures ELSE failures + 1
      /\ UNCHANGED <<k, verdicts, seen>>
  BY BranchFacts, SameCardinality DEF Branch!CompareQuorum, Branch!Vectors
<1>2. /\ todo = << >> /\ Branch!TypeOK /\ Fixture.quorum.pinned
      /\ \A j \in 1..Len(verdicts) : verdicts[j] <=> Fine(Fixture, j)
      /\ Len(verdicts) = Size /\ \A c \in Checkpoints : seen[c] = Collected(c, Size)
      /\ Tally(Spotless /\ Size > 0 /\ FineUpTo(Size), Counted \/ Size > 0)
  BY <1>1 DEF IInv, BranchShape, BranchTally
<1>3. /\ Fixture' = Fixture /\ Size' = Size
      /\ Spotless' <=> Spotless
      /\ Counted' <=> Counted
      /\ InBranch'
  BY WithinKeeps DEF InBranch
<1>4. reached <=> Fixture.quorum.count =
                    Cardinality(Collected(Fixture.quorum.target, Size))
  BY <1>2, BranchFacts
<1> HIDE DEF reached
<1>5. Clean(Fixture) <=> Size > 0 /\ FineUpTo(Size) /\ reached
  BY <1>2, <1>4, WitnessedFixture
<1>6. Clean(Fixture)' <=> Clean(Fixture)
  BY SameArguments DEF Fixture, Inputs
<1>7. passes' \in Nat /\ failures' \in Nat
  BY <1>1, BranchFacts
<1>8. Branch!TypeOK'
  BY <1>1, <1>2, <1>3, <1>7 DEF Branch!TypeOK, Branch!Vectors
<1>9. BranchShape'
  BY <1>1, <1>2, <1>3, <1>8 DEF BranchShape
<1>10. Tally(Spotless /\ Clean(Fixture), Counted \/ Size > 0)'
  BY <1>1, <1>2, <1>3, <1>5, <1>6, BranchFacts DEF Tally
<1>11. Collected(Fixture.quorum.target, Size)' = Collected(Fixture.quorum.target, Size)
  BY <1>3 DEF Collected
<1>12. BranchTally'
  BY <1>1, <1>3, <1>4, <1>10, <1>11 DEF BranchTally
<1> QED
  BY <1>7, <1>9, <1>12, BranchKeeps
----------------------------------------------------------------------------
LEMMA Initial == Init => IInv
<1> SUFFICES ASSUME Init PROVE IInv
  OBVIOUS
<1>0. /\ only \in BOOLEAN /\ corpus \in Corpora /\ golden \in GoldenOutcomes
      /\ pc = "fixture" /\ next = 1 /\ todo = << >> /\ passes = 0 /\ failures = 0
      /\ skipped_behavioral = << >> /\ exit = "none"
  BY Zenon DEF Init
<1>1. Given /\ TypeOK
  BY <1>0 DEF Given, TypeOK
<1>2. Position
  BY <1>0, <1>1, Files DEF Position
<1>3. Spotless /\ ~Counted
  BY <1>0 DEF Spotless, Counted
<1>4. BetweenFixtures
  BY <1>0, <1>3 DEF BetweenFixtures, Tally
<1>5. InPlainLoop /\ BranchShape /\ BranchTally
  BY <1>0 DEF InPlainLoop, BranchShape, BranchTally, AtPlain, InBranch
<1>6. GoldenTally /\ ExitRight
  BY <1>0 DEF GoldenTally, ExitRight
<1> QED
  BY <1>1, <1>2, <1>4, <1>5, <1>6 DEF IInv

\* Nothing moves when the variables do not.
LEMMA Stutter ==
  ASSUME IInv, UNCHANGED vars
  PROVE  IInv'
<1>1. UNCHANGED Inputs /\ UNCHANGED <<pc, next, todo, passes, failures, exit, step, k,
                                       verdicts, seen, quorum, ret, skipped_behavioral>>
  BY DEF vars, Inputs, branch
<1>2. /\ Fixture' = Fixture /\ Size' = Size
      /\ Spotless' <=> Spotless
      /\ Counted' <=> Counted
      /\ Clean(Fixture)' <=> Clean(Fixture)
      /\ Status' = Status
  BY <1>1, SameFixture, SameArguments DEF Size, Fixture, Inputs, Status
<1>3. Given' /\ TypeOK' /\ Position' /\ BetweenFixtures' /\ GoldenTally' /\ ExitRight'
  BY <1>1, <1>2 DEF IInv, Given, TypeOK, Position, BetweenFixtures, Tally,
                    GoldenTally, ExitRight, Inputs, Selected
<1>4. InPlainLoop'
  BY <1>1, <1>2 DEF IInv, InPlainLoop, AtPlain, FineUpTo, PassedUpTo, Tally
<1>5. BranchShape'
  BY <1>1, <1>2 DEF IInv, BranchShape, InBranch, Collected, Branch!TypeOK, Branch!Vectors
<1>6. BranchTally'
  BY <1>1, <1>2 DEF IInv, BranchTally, InBranch, Collected, FineUpTo, Tally
<1> QED
  BY <1>3, <1>4, <1>5, <1>6 DEF IInv

LEMMA NextKeeps ==
  ASSUME IInv, [Next]_vars
  PROVE  IInv'
<1>1. CASE CheckWitnesses
  <2>1. /\ InBranch /\ Branch!Next
        /\ UNCHANGED <<Inputs, pc, next, todo, skipped_behavioral, exit>>
    BY <1>1 DEF CheckWitnesses
  <2>2. CASE Branch!CheckVector
    BY <2>1, <2>2, WitnessVectorStep
  <2>3. CASE Branch!LogFixtureMissing
    BY <2>1, <2>3, LogFixtureMissingStep
  <2>4. CASE Branch!EndVectors
    BY <2>1, <2>4, EndVectorsStep
  <2>5. CASE Branch!CollectWitness
    BY <2>1, <2>5, CollectWitnessStep
  <2>6. CASE Branch!CompareQuorum
    BY <2>1, <2>6, CompareQuorumStep
  <2> QED
    BY <2>1, <2>2, <2>3, <2>4, <2>5, <2>6 DEF Branch!Next
<1>2. CASE UNCHANGED vars
  BY <1>2, Stutter
<1> QED
  BY <1>1, <1>2, UnparsableStep, FilterOutStep, UnknownFamilyStep,
     SkipBehavioralStep, DispatchStep, CheckVectorStep, CheckerRaisesStep,
     FinishFixtureStep, NothingExecutedStep, ReportResultStep,
     CheckRetrievalExampleStep, CheckReceiptExampleStep, GoldenRaisesStep DEF Next

LEMMA Invariance == Spec => []IInv
<1>1. Init => IInv
  BY Initial
<1>2. IInv /\ [Next]_vars => IInv'
  BY NextKeeps
<1> QED
  BY <1>1, <1>2, PTL DEF Spec

\* In a fixture that is done and spotless every vector was found to verify.
LEMMA DoneMeansVerified ==
  ASSUME IInv, InBranch, ret = "done", failures = 0
  PROVE  /\ FineUpTo(Size) /\ QuorumHolds(Fixture)
         /\ \A c : Branch!Verified(c) = Collected(c, Size)
<1>1. Clean(Fixture)
  BY DEF IInv, BranchTally, Tally
<1>2. FineUpTo(Size) /\ QuorumHolds(Fixture)
  BY <1>1, WitnessedFixture
<1>3. DOMAIN verdicts = 1..Size /\ \A j \in 1..Size : verdicts[j]
  BY <1>2, BranchFacts DEF IInv, BranchShape, FineUpTo
<1>4. \A c : Branch!Verified(c) = Collected(c, Size)
  BY <1>3, BranchFacts DEF Branch!Verified, Collected
<1> QED
  BY <1>2, <1>4

LEMMA CountFollows ==
  ASSUME IInv
  PROVE  CountIsOfVerified
<1> SUFFICES ASSUME InBranch PROVE Branch!CountIsOfVerified
  BY DEF CountIsOfVerified, IInv
<1>1. ret = "done" /\ failures = 0 /\ Fixture.quorum.pinned =>
        Fixture.quorum.count = Branch!Cardinality(Branch!Verified(Fixture.quorum.target))
  BY DoneMeansVerified, WitnessedFixture, SameCardinality
<1> QED
  BY <1>1 DEF IInv, BranchShape, Branch!CountIsOfVerified

LEMMA OverTheLogFollows ==
  ASSUME IInv
  PROVE  QuorumIsOverTheLog
<1> SUFFICES ASSUME InBranch, ret = "done", failures = 0, Fixture.chain # None,
                    quorum = "True", Fixture.quorum.count > 0
             PROVE  Fixture.quorum.target = Fixture.chain
  BY DEF QuorumIsOverTheLog, Branch!QuorumIsOverTheLog
<1> DEFINE over == Collected(Fixture.quorum.target, Size)
<1>1. Fixture.quorum.count = Cardinality(over)
  BY DEF IInv, BranchTally
<1>2. over # {}
  BY <1>1, FS_EmptySet
<1>3. PICK j \in 1..Size : Fixture.vectors[j].checkpoint = Fixture.quorum.target
  BY <1>2 DEF Collected
<1>4. Fine(Fixture, j) /\ Fixture.family = "wit"
  BY DoneMeansVerified, BranchFacts DEF FineUpTo
<1> QED
  BY <1>3, <1>4 DEF Fine

\* Every fixture index, counter and answer stays what its type says, for any
\* directory and registry (main of conformance-runner.py).
THEOREM TypeCorrect == Spec => []TypeOK
<1>1. IInv => TypeOK
  BY DEF IInv
<1> QED
  BY <1>1, Invariance, PTL

\* When nothing failed, a pinned quorum is the number of distinct witnesses
\* whose cosignature over the target was found to verify, although
\* check_witness_quorum counts without looking at the verdicts.
THEOREM CountOfVerified == Spec => []CountIsOfVerified
<1>1. IInv => CountIsOfVerified
  BY CountFollows
<1> QED
  BY <1>1, Invariance, PTL

\* When nothing failed, a quorum reached in a fixture chained to a log is over
\* the checkpoint of that log, although nothing compares the two.
THEOREM OverTheLog == Spec => []QuorumIsOverTheLog
<1>1. IInv => QuorumIsOverTheLog
  BY OverTheLogFollows
<1> QED
  BY <1>1, Invariance, PTL

LEMMA OnlyExitsDecide ==
  ASSUME IInv, [Next]_vars
  PROVE  /\ UNCHANGED Inputs
         /\ UNCHANGED exit \/ (pc # "exited" /\ pc' = "exited")
<1>1. CASE UNCHANGED vars
  BY <1>1 DEF vars, Inputs
<1>2. CASE Next
  <2> USE DEF Exit, Inputs
  <2>1. CASE CheckWitnesses
    BY <2>1 DEF CheckWitnesses
  <2>2. CASE Unparsable \/ CheckerRaises \/ NothingExecuted
    BY <2>2 DEF Unparsable, AtFixture, CheckerRaises, NothingExecuted, AtEnd
  <2>3. CASE ReportResult \/ GoldenRaises
    BY <2>3 DEF ReportResult, Report, GoldenRaises, AtEnd
  <2>4. CASE CheckRetrievalExample \/ CheckReceiptExample
    BY <2>4 DEF CheckRetrievalExample, CheckReceiptExample, CheckGolden
  <2>5. CASE FilterOut \/ UnknownFamily \/ SkipBehavioral
    BY <2>5 DEF FilterOut, UnknownFamily, SkipBehavioral
  <2>6. CASE Dispatch \/ CheckVector \/ FinishFixture
    BY <2>6 DEF Dispatch, CheckVector, FinishFixture
  <2> QED
    BY <1>2, <2>1, <2>2, <2>3, <2>4, <2>5, <2>6 DEF Next
<1> QED
  BY <1>1, <1>2

\* The exit status is given at most once, and it is 0 exactly when the
\* directory deserves it: every file parses, every selected fixture has a
\* known family, a non-empty list and no deviating vector, a wit- fixture
\* reaches its quorum, and something was verified.  The safety part of
\* ExitStatusIsRight.
THEOREM ExitStatus == Spec => Verdict!Safety
<1>1. Init => Verdict!Init
  BY Zenon DEF Init, Verdict!Init
<1>2. IInv /\ IInv' /\ [Next]_vars =>
        [Verdict!Decide]_<<(IF Certified THEN "0" ELSE "1"), exit>>
  <2> SUFFICES ASSUME IInv, IInv', [Next]_vars
               PROVE  [Verdict!Decide]_<<(IF Certified THEN "0" ELSE "1"), exit>>
    OBVIOUS
  <2>1. Certified' <=> Certified
    BY OnlyExitsDecide, SameArguments
  <2>2. CASE UNCHANGED exit
    BY <2>1, <2>2
  <2>3. CASE pc # "exited" /\ pc' = "exited"
    <3>1. exit = "none"
      BY <2>3 DEF IInv, Position
    <3>2. exit' = IF Certified THEN "0" ELSE "1"
      BY <2>1, <2>3 DEF IInv, ExitRight, Status
    <3> QED
      BY <2>1, <3>1, <3>2 DEF Verdict!Decide
  <2> QED
    BY <2>2, <2>3, OnlyExitsDecide
<1> QED
  BY <1>1, <1>2, Invariance, PTL DEF Spec, Verdict!Safety
=============================================================================
