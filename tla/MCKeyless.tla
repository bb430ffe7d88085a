----------------------------- MODULE MCKeyless -----------------------------
(***************************************************************************)
(* Keyless on tables of one and two cases: instants on both sides of every *)
(* end of the window 1..3 and of the boundaries 2 and 3, every combination *)
(* of predecessor, body between and successor of two identities.           *)
(***************************************************************************)
EXTENDS Keyless

Sound ==
  [valid |-> TRUE, registry_accepted |-> TRUE, bindings_ok |-> TRUE,
   retracted |-> FALSE, receipt |-> TRUE, created_at |-> 1,
   signature_valid |-> TRUE, revocations |-> {}, listed |-> "yes",
   expected |-> Status("currently_authorized")]

Attested ==
  {Sound, [Sound EXCEPT !.valid = FALSE], [Sound EXCEPT !.registry_accepted = FALSE],
   [Sound EXCEPT !.bindings_ok = FALSE], [Sound EXCEPT !.retracted = TRUE],
   [Sound EXCEPT !.signature_valid = FALSE], [Sound EXCEPT !.receipt = FALSE]}

Boundaries == SUBSET {2, 3}

SomeCases ==
  {[a EXCEPT !.created_at = t, !.listed = l] :
     a \in Attested, t \in 0..4, l \in {"yes", "no", "unreachable"}}

Vector(kind, cases) ==
  [kind |-> kind, key_pair |-> TRUE, attested |-> TRUE, wrong |-> "none",
   window |-> [not_before |-> 1, not_after |-> 4], cases |-> cases]

Classifications ==
  {Vector("classification",
          <<[c EXCEPT !.revocations = r], [c EXCEPT !.revocations = s]>>) :
     c \in SomeCases, r, s \in Boundaries}

Body ==
  {[kind |-> "controller", identity |-> "", org_wide |-> FALSE]} \cup
  [kind : {"keyless"}, identity : {"ann", "bob"}, org_wide : BOOLEAN]

Step(p, s) == [predecessor |-> p, successor |-> s, expected |-> Allowed]

Supersessions ==
  {Vector("supersession", <<Step(p, q), Step(q, r)>>) : p, q, r \in Body}

Others ==
  {[Vector(kind, << >>) EXCEPT !.key_pair = b, !.attested = a, !.wrong = w,
                               !.window.not_after = e] :
     kind \in GoldenKinds, a, b \in BOOLEAN, w \in {"none", "content", "member"},
     e \in {1, 4, 5}}
  \cup {Vector("classification", << >>), Vector("supersession", << >>),
        Vector("hearsay", <<Sound>>), Vector("hearsay", << >>)}

SomeVectors == Classifications \cup Supersessions \cup Others
=============================================================================
