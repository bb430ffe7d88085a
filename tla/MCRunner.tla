------------------------------ MODULE MCRunner ------------------------------
(***************************************************************************)
(* Runner on every directory of at most two fixtures from a representative *)
(* of each dispatch class, and every witness fixture of up to three        *)
(* vectors alone in its directory.                                         *)
(***************************************************************************)
EXTENDS Runner

Known == {"can", "sig", "rcpt", "wit", "rev", "anc", "rec", "pub"}

\* Vector lists: none, one vector, or a pass before or after another answer.
Lists(answers) ==
  {<< >>} \cup {<<a>> : a \in answers}
  \cup {<<"pass", a>> : a \in answers} \cup {<<a, "pass">> : a \in answers}

Checked == {"pass", "fail", "raise"}

NoQuorum == [pinned |-> FALSE, target |-> "cp1", count |-> 0]

Made(families, keyed, listed, lists) ==
  [parses : {TRUE}, family : families, matches : BOOLEAN, keyed : keyed,
   listed : listed, vectors : lists, chain : {None}, quorum : {NoQuorum}]

\* A fixture without a "vectors" member reads as an empty list.
Unlisted == Made({"can", "rcpt", "wit", "rev", "anc", "rec", "pub", "typo"},
                 BOOLEAN, {FALSE}, {<< >>})
Listed ==
  Made({"can", "anc"}, {FALSE}, {TRUE}, Lists(Outcomes))
  \cup Made({"sig", "rec", "pub", "typo"}, {FALSE}, {TRUE}, Lists(Checked))
  \cup Made({"rcpt", "rev"}, BOOLEAN, {TRUE}, Lists(Checked))
Broken == {[f EXCEPT !.parses = FALSE] : f \in Made({"sig"}, {FALSE}, {TRUE}, {<<"pass">>})}

\* Witness fixtures: up to three vectors of two witnesses over two
\* checkpoints, of which the last may be wrong in one place.
SomeWitnesses == {"w1", "w2"}
SomeCheckpoints == {"cp1", "cp2"}

Right(w, c) ==
  [witness |-> w, checkpoint |-> c, keypair |-> "right", version |-> TRUE,
   pins |-> TRUE, assembled |-> "right", times |-> TRUE]

Rights == {Right(w, c) : w \in SomeWitnesses, c \in SomeCheckpoints}
Wrongs ==
  {[Right("w2", "cp1") EXCEPT !.keypair = "absent"],
   [Right("w2", "cp1") EXCEPT !.keypair = "wrong"],
   [Right("w2", "cp1") EXCEPT !.version = FALSE],
   [Right("w2", "cp1") EXCEPT !.pins = FALSE],
   [Right("w2", "cp1") EXCEPT !.assembled = "absent"],
   [Right("w2", "cp1") EXCEPT !.assembled = "foreign"],
   [Right("w2", "cp1") EXCEPT !.assembled = "wrong"],
   [Right("w2", "cp1") EXCEPT !.times = FALSE]}

VectorLists ==
  {<< >>} \cup {<<v>> : v \in Rights \cup Wrongs}
  \cup {<<v, w>> : v \in Rights, w \in Rights \cup Wrongs}
  \cup {<<u, v, w>> : u, v \in Rights,
                       w \in Rights \cup {[Right("w2", "cp1") EXCEPT !.pins = FALSE]}}

Witnessed ==
  [parses : {TRUE}, family : {"wit"}, matches : {TRUE}, keyed : {TRUE},
   listed : {TRUE}, vectors : VectorLists, chain : {None, Missing, "cp1", "cp2"},
   quorum : {NoQuorum} \cup [pinned : {TRUE}, target : {"cp1"}, count : 0..2]]

Fixtures == Unlisted \cup Listed \cup Broken

\* The second fixture of a directory: one of each effect a fixture can have.
Companions ==
  Made({"sig"}, {FALSE}, {TRUE}, {<< >>, <<"pass">>, <<"fail">>})
  \cup Made({"can"}, {FALSE}, {TRUE}, {<<"none">>})
  \cup Made({"pub", "typo"}, {FALSE}, {FALSE}, {<< >>})
  \cup Broken

ShortlyWitnessed == {f \in Witnessed : Len(f.vectors) <= 1}

Directories ==
  {<< >>} \cup {<<f>> : f \in Fixtures}
  \cup {<<f, g>> : f \in Fixtures, g \in Companions}
  \cup {<<g, f>> : f \in Fixtures, g \in Companions}
  \cup {<<f>> : f \in Witnessed}
  \cup {<<f, g>> : f \in ShortlyWitnessed, g \in Companions}
  \cup {<<g, f>> : f \in ShortlyWitnessed, g \in Companions}

Golden == {<<"pass", "pass">>, <<"fail", "pass">>, <<"pass", "fail">>,
           <<"raise", "pass">>, <<"pass", "raise">>}
=============================================================================
