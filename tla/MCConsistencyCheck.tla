------------------------- MODULE MCConsistencyCheck -------------------------
(***************************************************************************)
(* ConsistencyCheck from a repository that is wired, or is in one place    *)
(* different, changed up to twice in one place each time.  Four families,  *)
(* one named like the start of another and one optional, of up to three    *)
(* fixtures; three profiles; a directory named like the start of another.  *)
(***************************************************************************)
EXTENDS ConsistencyCheck

Pub == <<"pub">>
Ssrf == <<"pub", "ssrf">>
A2A == <<"a2a">>

Id(fam, n) == [fam |-> fam, n |-> n]
File(fam, n) ==
  [json |-> TRUE, id |-> Id(fam, n), stem |-> Id(fam, n), codes |-> {"denied"}]
Text(ids, ranges, wild) == [ids |-> ids, ranges |-> ranges, wild |-> wild]
Pubs(last) == [fam |-> Pub, first |-> 1, last |-> last]
Profile(listed, self_test, prose) ==
  [listed |-> listed, self_test |-> self_test, prose |-> prose]

Files == <<File(A2A, 1), File(Pub, 1), File(Pub, 2), File(Ssrf, 1)>>

Wired ==
  [files |-> Files,
   families |-> {Pub, A2A},
   profiles |->
     [core |-> Profile({Id(Pub, 1), Id(Pub, 2)}, {Id(Ssrf, 1)}, {Id(Pub, 3)}),
      consumer |-> Profile({Id(Pub, 1)}, {}, {}),
      binding |-> Profile({Id(A2A, 1)}, {NoId}, {})],
   md |->
     [core |-> Text({Id(Pub, 1), Id(Ssrf, 1)}, {Pubs(2)}, {}),
      consumer |-> Text({Id(Pub, 1)}, {}, {}),
      binding |-> Text({}, {}, {A2A})],
   mdRest |-> Text({Id(A2A, 1)}, {}, {}),
   readme |-> Text({Id(A2A, 1), Id(Ssrf, 1)}, {Pubs(3)}, {}),
   core |-> [block |-> TRUE, text |-> Text({Id(Pub, 1)}, {}, {})],
   rfc |-> [section |-> TRUE, codes |-> {"denied", "expired"}],
   registry |-> [section |-> TRUE, codes |-> {"denied", "expired"},
                 other |-> {"reserved"}],
   schema |-> [json |-> TRUE, enum |-> TRUE, codes |-> {"denied", "expired"}],
   examples |-> {<<"subscription">>, <<"subscription", "request">>},
   routes |-> {<<"subscription">>, <<"subscription", "request">>},
   schemas |-> <<"body", "context">>,
   links |-> {[target |-> "guide", anchor |-> <<"setup", 1>>]},
   headings |-> [guide |-> <<"setup", "setup">>],
   disproven |-> FALSE]

\* Adding, removing, renumbering, duplicating and breaking a file.
FileChanges(files) ==
  {Append(files, f) : f \in {File(Pub, 1), File(Pub, 3), File(A2A, 2)}}
  \cup {SubSeq(files, 1, j - 1) \o SubSeq(files, j + 1, Len(files)) :
          j \in DOMAIN files}
  \cup {[files EXCEPT ![j].json = FALSE] : j \in DOMAIN files}
  \cup {[files EXCEPT ![j].codes = c] :
          j \in DOMAIN files, c \in {{"expired"}, {"reserved"}, {"unheard"}}}
  \cup {[files EXCEPT ![j].stem = Id(Pub, 3)] : j \in DOMAIN files}
  \cup {[files EXCEPT ![j].id = i] : j \in DOMAIN files, i \in {NoId, Id(Pub, 3)}}
  \cup {<< >>}

ProfileChanges(r) ==
  {[r EXCEPT !.profiles[p].listed = @ \cup {i}] :
     p \in DOMAIN r.profiles, i \in {Id(Pub, 3), Id(Ssrf, 1), Id(A2A, 1)}}
  \cup {[r EXCEPT !.profiles[p].self_test = @ \cup {i}] :
          p \in DOMAIN r.profiles, i \in {Id(Pub, 3), Id(A2A, 1)}}
  \cup {[r EXCEPT !.profiles[p].prose = {}] : p \in DOMAIN r.profiles}
  \cup {[r EXCEPT !.families = f] : f \in {{}, {Ssrf, A2A}, {<<"new">>, Pub, A2A}}}

TextChanges(r) ==
  {[r EXCEPT !.md[p].ids = @ \cup {i}] :
     p \in DOMAIN r.md, i \in {Id(Pub, 2), Id(Pub, 3), Id(A2A, 1)}}
  \cup {[r EXCEPT !.md[p].ranges = s] : p \in DOMAIN r.md, s \in {{}, {Pubs(3)}}}
  \cup {[r EXCEPT !.md[p].wild = s] :
          p \in DOMAIN r.md, s \in {{}, {A2A}, {Pub, Ssrf}}}
  \cup {[r EXCEPT !.md = [p \in DOMAIN r.md \ {q} |-> r.md[p]]] : q \in DOMAIN r.md}
  \cup {[r EXCEPT !.mdRest.ids = {}], [r EXCEPT !.readme.ranges = {}]}
  \cup {[r EXCEPT !.core.block = FALSE], [r EXCEPT !.core.text.ids = {Id(A2A, 1)}]}

OtherChanges(r) ==
  {[r EXCEPT !.rfc.codes = @ \ {"expired"}],
   [r EXCEPT !.rfc.section = FALSE],
   [r EXCEPT !.registry.codes = {}, !.registry.other = {}],
   [r EXCEPT !.registry.section = FALSE],
   [r EXCEPT !.schema.codes = @ \ {"expired"}],
   [r EXCEPT !.schema.json = FALSE],
   [r EXCEPT !.schema.enum = FALSE],
   [r EXCEPT !.examples = @ \cup {<<"change">>}],
   [r EXCEPT !.routes = @ \ {<<"subscription">>}],
   [r EXCEPT !.schemas = <<"body", "body">>],
   [r EXCEPT !.schemas = <<"unreadable", "">>],
   [r EXCEPT !.links = @ \cup {[target |-> "missing", anchor |-> << >>]}],
   [r EXCEPT !.headings.guide = <<"setup">>],
   [r EXCEPT !.disproven = TRUE]}

Changes(r) ==
  {[r EXCEPT !.files = f] : f \in FileChanges(r.files)}
  \cup ProfileChanges(r) \cup TextChanges(r) \cup OtherChanges(r)

Repository == {Wired} \cup Changes(Wired)
Optional == [fam \in {A2A} |-> {"binding"}]
=============================================================================
