--------------------------- MODULE MCA2AArtifact ---------------------------
(***************************************************************************)
(* A2AArtifact on runs of up to three chunks, the records a right or a     *)
(* wrong agent could publish of them, and for each a held artifact that    *)
(* differs from the published one in at most one place.                    *)
(***************************************************************************)
EXTENDS A2AArtifact

SomeContents == {"a", "b"}
SomeIds == {"x", "y"}
SomeSalts == {"s1", "s2"}
SomeTexts == {"", "n", "m"}
SomeInputs == {"c1", "c2", "c3"}

Named(name) == [name |-> name, description |-> NoLabel]
ShortName == [kept |-> "n", rest |-> ""]
LongName == [kept |-> "n", rest |-> "m"]

C(append, someParts, name) ==
  [ids |-> TRUE, append |-> append, lastChunk |-> TRUE, artifactId |-> "x",
   parts |-> someParts, labels |-> Named(name)]

P(content) == <<[content |-> content, form |-> "canonical"]>>
R(content) == <<[content |-> content, form |-> "received"]>>

FirstChunks == {C(FALSE, P("a"), NoLabel), C(TRUE, R("a"), LongName)}
MoreChunks ==
  {C(TRUE, P("b"), NoLabel), C(FALSE, R("b"), NoLabel), C(TRUE, << >>, ShortName),
   C(FALSE, P("a"), [kept |-> "m", rest |-> "n"])}

ChunkLists ==
  {<<c>> : c \in FirstChunks} \cup {<<c, d>> : c \in FirstChunks, d \in MoreChunks}
  \cup {<<c, d, e>> : c \in FirstChunks, d, e \in MoreChunks}

\* What a right agent gets out of three chunks at most, without the loop.
PartsOf(l) ==
  LET n == Len(l)
      from == IF n = 3 /\ ~l[3].append THEN 3
              ELSE IF n >= 2 /\ ~l[2].append THEN 2 ELSE 1
      at(j) == IF from <= j /\ j <= n THEN l[j].parts ELSE << >>
  IN  at(1) \o at(2) \o at(3)

NameOf(l) ==
  LET n == Len(l)
      has(j) == j <= n /\ l[j].labels["name"] # NoLabel
  IN  IF has(3) THEN l[3].labels["name"]
      ELSE IF has(2) THEN l[2].labels["name"] ELSE l[1].labels["name"]

RecordOf(l, salted, embedded) ==
  [wellformed |-> TRUE, salted |-> salted, embedded |-> embedded,
   labels |-> [name |-> NameOf(l).kept, description |-> ""],
   role |-> IF embedded THEN "ROLE_AGENT" ELSE "",
   parts_hash |-> Hash(IF salted THEN "s1" ELSE Unsalted, Normalize(PartsOf(l))),
   artifact_id_hash |-> Hash("s1", "x"), task_id_hash |-> Hash("s1", "x"),
   context_id_hash |-> Hash("s1", "y")]

RightRecords(l) ==
  {RecordOf(l, TRUE, FALSE), RecordOf(l, TRUE, TRUE), RecordOf(l, FALSE, TRUE)}

WrongRecords(l) ==
  LET right == RecordOf(l, TRUE, FALSE)
  IN  {RecordOf(l, FALSE, FALSE), [right EXCEPT !.wellformed = FALSE],
       [right EXCEPT !.labels["name"] = "m"],
       [right EXCEPT !.artifact_id_hash = Hash("s1", "y")],
       [right EXCEPT !.parts_hash = Hash("s1", <<"b">>)]}

Holders(l) ==
  LET held == [linked |-> TRUE, salt |-> "s1", parts |-> PartsOf(l),
               artifactId |-> "x", labels |-> Named(NameOf(l)), role |-> ""]
      h == [held |-> held, card |-> "right", task |-> "x", context |-> "y",
            expected |-> "ok"]
  IN  {h, [h EXCEPT !.task = "", !.context = "", !.card = "none"],
       [h EXCEPT !.card = "wrong"], [h EXCEPT !.task = "y"],
       [h EXCEPT !.context = "x"], [h EXCEPT !.held.linked = FALSE],
       [h EXCEPT !.held.salt = "s2"], [h EXCEPT !.held.salt = InvalidSalt],
       [h EXCEPT !.held.parts = R("a")], [h EXCEPT !.held.parts = << >>],
       [h EXCEPT !.held.parts = [j \in DOMAIN PartsOf(l) |->
                                   [PartsOf(l)[j] EXCEPT !.form = "received"]]],
       [h EXCEPT !.held.parts = <<[content |-> "a", form |-> "broken"]>>],
       [h EXCEPT !.held.artifactId = "y"],
       [h EXCEPT !.held.labels = Named([NameOf(l) EXCEPT !.rest = "m"])],
       [h EXCEPT !.held.labels = Named([kept |-> "m", rest |-> ""])],
       [h EXCEPT !.held.labels = Named(NoLabel)],
       [h EXCEPT !.held.role = "ROLE_UNSPECIFIED"],
       [h EXCEPT !.held.role = "ROLE_USER"]}

Verdicts == {"ok", "parts_mismatch", "label_mismatch", "role_mismatch"}

Base(l, r, hs) ==
  [signed |-> TRUE, salt |-> "s1", chunks |-> l, task_id |-> "x",
   context_id |-> "y", record |-> r, embed |-> r.embedded,
   assembled_parts |-> Normalize(PartsOf(l)), cited |-> << >>,
   verified |-> {}, derived_from |-> << >>, wrong |-> FALSE, holders |-> hs]

Plain == <<C(FALSE, P("a"), ShortName)>>
PlainVector == Base(Plain, RecordOf(Plain, TRUE, FALSE), << >>)

CitedVectors ==
  {[PlainVector EXCEPT !.cited = cited, !.verified = verified,
                       !.derived_from = pinned] :
     cited \in UNION {[1..n -> SomeInputs] : n \in 0..3},
     verified \in SUBSET SomeInputs, pinned \in {<< >>, <<"c1", "c2">>}}

OddVectors ==
  {[PlainVector EXCEPT !.signed = FALSE], [PlainVector EXCEPT !.salt = InvalidSalt],
   [PlainVector EXCEPT !.chunks = << >>], [PlainVector EXCEPT !.wrong = TRUE],
   [PlainVector EXCEPT !.chunks[1].lastChunk = FALSE],
   [PlainVector EXCEPT !.chunks[1].ids = FALSE],
   [PlainVector EXCEPT !.chunks[1].parts[1].form = "broken"],
   [PlainVector EXCEPT !.assembled_parts = <<"b">>],
   [PlainVector EXCEPT !.embed = TRUE]}

SomeVectors ==
  UNION {{Base(l, r, <<[h EXCEPT !.expected = v]>>) :
            r \in RightRecords(l), h \in Holders(l), v \in Verdicts} \cup
         {Base(l, r, <<h>>) : r \in WrongRecords(l), h \in Holders(l)} :
           l \in ChunkLists}
  \cup CitedVectors \cup OddVectors
=============================================================================
