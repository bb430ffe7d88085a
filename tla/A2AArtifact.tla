---------------------------- MODULE A2AArtifact ----------------------------
(***************************************************************************)
(* One call of check_a2a_vector (scripts/conformance-runner.py): an agent  *)
(* assembles an artifact from its chunks and publishes a record of salted  *)
(* hashes; holders of the artifact verify it against the record            *)
(* (a2a_holder_verify).                                                    *)
(*                                                                         *)
(* Names, contents and salts are model values of the sets below, a hash is *)
(* the pair of what goes into it, and                                      *)
(*   a part    is [content, form]: the form is what normalization removes  *)
(*             (null members, another base64 alphabet), or "broken" when   *)
(*             the base64 cannot be decoded at all                         *)
(*   a label   is [kept, rest]: what the length limit keeps and what it    *)
(*             cuts off; absent and empty are both NoLabel                 *)
(*   a vector  pins the chunks, the record, the assembled parts, the       *)
(*             inputs cited and held artifacts with the verdict expected;  *)
(*             its other pins that differ from what is computed are wrong  *)
(***************************************************************************)
EXTENDS Naturals, Sequences

CONSTANTS
  Contents, Ids, Salts,   \* part contents; artifact, task, context ids; salts
  Texts,                  \* label texts, "" among them
  Inputs,                 \* contexts a client can cite
  DerivedCap,             \* most contexts in derived_from: 1000 in the code
  Vectors

Unsalted == "unsalted"
InvalidSalt == "invalid"      \* not 43 canonical base64url characters
Labels == {"name", "description"}
Label == [kept : Texts, rest : Texts]
NoLabel == [kept |-> "", rest |-> ""]

Part == [content : Contents, form : {"canonical", "received", "broken"}]
Chunk ==
  [ids : BOOLEAN, append : BOOLEAN, lastChunk : BOOLEAN, artifactId : Ids,
   parts : Seq(Part), labels : [Labels -> Label]]

\* An artifact as a holder has it, with what the holder knows besides.
Held ==
  [linked : BOOLEAN, salt : Salts \cup {InvalidSalt}, parts : Seq(Part),
   artifactId : Ids, labels : [Labels -> Label], role : STRING]
Holder ==
  [held : Held, card : {"right", "wrong", "none"}, task : Ids \cup {""},
   context : Ids \cup {""}, expected : STRING]

\* Of the members a vector must have: a record may hold anything, also what
\* is no hash of this artifact.
IsVector(v) ==
  /\ v.chunks \in Seq(Chunk)
  /\ v.cited \in Seq(Inputs)
  /\ v.holders \in Seq(Holder)

ASSUME A2AAssumption ==
  /\ \A v \in Vectors : IsVector(v)
  /\ "" \in Texts
  /\ DerivedCap \in Nat

Hash(salt, value) == <<salt, value>>

\* _a2a_normalize_parts, which raises on a part that cannot be decoded.
Undecodable(parts) == \E p \in DOMAIN parts : parts[p].form = "broken"
Normalize(parts) == [p \in DOMAIN parts |-> parts[p].content]

\* _a2a_role
Role(role) == IF role \in {"", "ROLE_UNSPECIFIED"} THEN "ROLE_AGENT" ELSE role

VARIABLES
  vector,           \* the argument
  pc,               \* control point
  k,                \* elements of the loop at hand already dealt with
  parts, labels,    \* what the chunks so far assemble to
  derived,          \* derived_from so far
  verdicts,         \* what a2a_holder_verify answered for each held artifact
  ok,               \* no deviation so far
  ret               \* "none", then "True", "False" or "raised"

vars == <<vector, pc, k, parts, labels, derived, verdicts, ok, ret>>

Chunks == vector.chunks
Record == vector.record
PartsSalt == IF Record.salted THEN vector.salt ELSE Unsalted

(* a2a_holder_verify: the first failing check, or "ok".                    *)

\* Mutant of LabelMismatch: a label the held artifact lacks is not compared.
LabelMismatchIfHeld(rec, held) ==
  \E l \in Labels : /\ rec.labels[l] # "" /\ held.labels[l] # NoLabel
                  /\ rec.labels[l] # held.labels[l].kept

\* Mutant of LabelMismatch: the held label is compared without being cut.
LabelMismatchUncut(rec, held) ==
  \E l \in Labels :
    rec.labels[l] # "" /\ [kept |-> rec.labels[l], rest |-> ""] # held.labels[l]

LabelMismatch(rec, held) ==
  \E l \in Labels : rec.labels[l] # "" /\ rec.labels[l] # held.labels[l].kept

Verdict ==
  {"ok", "link_mismatch", "card_mismatch", "record_invalid", "salt_invalid",
   "parts_mismatch", "artifact_id_mismatch", "label_mismatch", "role_mismatch",
   "task_mismatch", "context_mismatch", "raised"}

HolderVerify(rec, h) ==
  LET held == h.held
      salt == held.salt
      partsSalt == IF rec.salted THEN salt ELSE Unsalted
  IN  IF ~held.linked THEN "link_mismatch"
      ELSE IF h.card = "wrong" THEN "card_mismatch"
      ELSE IF ~rec.wellformed THEN "record_invalid"
      ELSE IF salt = InvalidSalt THEN "salt_invalid"
      ELSE IF ~rec.salted /\ ~rec.embedded THEN "record_invalid"
      ELSE IF Undecodable(held.parts) THEN "raised"
      ELSE IF Hash(partsSalt, Normalize(held.parts)) # rec.parts_hash
        THEN "parts_mismatch"
      ELSE IF Hash(salt, held.artifactId) # rec.artifact_id_hash
        THEN "artifact_id_mismatch"
      ELSE IF LabelMismatch(rec, held) THEN "label_mismatch"
      ELSE IF rec.role # "" /\ rec.role # Role(held.role)
        THEN "role_mismatch"
      ELSE IF h.task # "" /\ Hash(salt, h.task) # rec.task_id_hash
        THEN "task_mismatch"
      ELSE IF h.context # "" /\ Hash(salt, h.context) # rec.context_id_hash
        THEN "context_mismatch"
      ELSE "ok"

Init ==
  /\ vector \in Vectors
  /\ pc = "salt"
  /\ k = 0
  /\ parts = << >>
  /\ labels = [l \in Labels |-> NoLabel]
  /\ derived = << >>
  /\ verdicts = << >>
  /\ ok = TRUE
  /\ ret = "none"

Return(value) ==
  /\ pc' = "returned"
  /\ ret' = value
  /\ UNCHANGED <<vector, k, parts, labels, derived, verdicts, ok>>

\* A comparison that only records its failure, and the stage after it.
Note(holds, to) ==
  /\ ok' = (ok /\ holds)
  /\ pc' = to
  /\ k' = 0
  /\ UNCHANGED <<vector, parts, labels, derived, verdicts, ret>>

\* The signature and the salt: the two checks that end the call.
CheckSalt ==
  /\ pc = "salt"
  /\ IF ~vector.signed \/ vector.salt = InvalidSalt THEN Return("False")
     ELSE Note(TRUE, "chunks")

\* Mutant of AssembleChunk: a chunk that starts afresh drops the labels too.
AssembleChunkAnew ==
  /\ pc = "chunks"
  /\ k < Len(Chunks)
  /\ LET ev == Chunks[k + 1]
     IN  /\ parts' = (IF ev.append THEN parts ELSE << >>) \o ev.parts
         /\ labels' = [l \in Labels |->
                         IF ev.labels[l].kept # "" \/ ~ev.append
                           THEN ev.labels[l] ELSE labels[l]]
         /\ ok' = (ok /\ ev.ids)
  /\ k' = k + 1
  /\ UNCHANGED <<vector, pc, derived, verdicts, ret>>

\* One TaskArtifactUpdateEvent.
AssembleChunk ==
  /\ pc = "chunks"
  /\ k < Len(Chunks)
  /\ LET ev == Chunks[k + 1]
     IN  /\ parts' = (IF ev.append THEN parts ELSE << >>) \o ev.parts
         /\ labels' = [l \in Labels |->
                         IF ev.labels[l].kept # "" THEN ev.labels[l] ELSE labels[l]]
         /\ ok' = (ok /\ ev.ids)
  /\ k' = k + 1
  /\ UNCHANGED <<vector, pc, derived, verdicts, ret>>

\* chunks[0] is taken for the artifact's id even when there is none.
EndChunks ==
  /\ pc = "chunks"
  /\ k = Len(Chunks)
  /\ IF Undecodable(parts) \/ Chunks = << >> THEN Return("raised")
     ELSE Note(Chunks[k].lastChunk /\ Normalize(parts) = vector.assembled_parts,
               "record")

ComputedHashes ==
  [parts_hash |-> Hash(PartsSalt, Normalize(parts)),
   artifact_id_hash |-> Hash(vector.salt, Chunks[1].artifactId),
   task_id_hash |-> Hash(vector.salt, vector.task_id),
   context_id_hash |-> Hash(vector.salt, vector.context_id)]

CompareRecord ==
  /\ pc = "record"
  /\ Note(/\ \A h \in DOMAIN ComputedHashes : Record[h] = ComputedHashes[h]
          /\ Record.wellformed
          /\ Record.embedded = vector.embed
          /\ Record.salted \/ Record.embedded
          /\ \A l \in Labels : Record.labels[l] = labels[l].kept,
          "derived")

\* derived_from: cited inputs in citation order, the first occurrence of each,
\* only those the agent verified.
Among(s, x) == \E j \in DOMAIN s : s[j] = x

\* Mutant of CiteInput: an input cited twice is listed twice.
CiteInputTwice ==
  /\ pc = "derived"
  /\ k < Len(vector.cited)
  /\ LET c == vector.cited[k + 1]
     IN  derived' = IF c \in vector.verified /\ Len(derived) < DerivedCap
                      THEN Append(derived, c) ELSE derived
  /\ k' = k + 1
  /\ UNCHANGED <<vector, pc, parts, labels, verdicts, ok, ret>>

CiteInput ==
  /\ pc = "derived"
  /\ k < Len(vector.cited)
  /\ LET c == vector.cited[k + 1]
     IN  derived' = IF c \in vector.verified /\ ~Among(derived, c)
                         /\ Len(derived) < DerivedCap
                      THEN Append(derived, c) ELSE derived
  /\ k' = k + 1
  /\ UNCHANGED <<vector, pc, parts, labels, verdicts, ok, ret>>

\* The comparisons that read nothing the call computes go with this one: body
\* type, data_refs, Idempotency-Key, the link on the final chunk and the
\* snapshot, the Card and the AITP identifier.
EndCited ==
  /\ pc = "derived"
  /\ k = Len(vector.cited)
  /\ Note(derived = vector.derived_from /\ ~vector.wrong, "holders")

\* The Task snapshot first, then the pinned positives and negatives.
JudgeHolder ==
  /\ pc = "holders"
  /\ k < Len(vector.holders)
  /\ LET verdict == HolderVerify(Record, vector.holders[k + 1])
     IN  IF verdict = "raised" THEN Return("raised")
         ELSE /\ verdicts' = Append(verdicts, verdict)
              /\ ok' = (ok /\ verdict = vector.holders[k + 1].expected)
              /\ k' = k + 1
              /\ UNCHANGED <<vector, pc, parts, labels, derived, ret>>

EndHolders ==
  /\ pc = "holders"
  /\ k = Len(vector.holders)
  /\ Return(IF ok THEN "True" ELSE "False")

Next ==
  \/ CheckSalt
  \/ AssembleChunk
  \/ EndChunks
  \/ CompareRecord
  \/ CiteInput
  \/ EndCited
  \/ JudgeHolder
  \/ EndHolders

\* A plain call on one thread.
Spec == Init /\ [][Next]_vars
----------------------------------------------------------------------------
TypeOK ==
  /\ pc \in {"salt", "chunks", "record", "derived", "holders", "returned"}
  /\ k \in Nat
  /\ parts \in Seq(Part)
  /\ labels \in [Labels -> Label]
  /\ derived \in Seq(Inputs)
  /\ verdicts \in Seq(Verdict)
  /\ Len(verdicts) \in 0..Len(vector.holders)
  /\ ok \in BOOLEAN
  /\ ret \in {"none", "True", "False", "raised"}

\* Chunks dealt with, once there are any to deal with.
Assembling == pc \in {"chunks", "record", "derived", "holders"}
Dealt == IF pc = "chunks" THEN k ELSE Len(Chunks)

\* Concatenates(s, runs): s is the concatenation of the sequences in runs,
\* the j-th of which ends at cut[j].
Concatenates(s, runs) ==
  \E cut \in [0..Len(runs) -> 0..Len(s)] :
    /\ cut[0] = 0 /\ cut[Len(runs)] = Len(s)
    /\ \A j \in DOMAIN runs :
         /\ cut[j] = cut[j - 1] + Len(runs[j])
         /\ \A i \in DOMAIN runs[j] : s[cut[j - 1] + i] = runs[j][i]

\* Of the first n chunks, the last that starts afresh, else the first.
Restarts(a, n) ==
  /\ a \in 1..n
  /\ a = 1 \/ ~Chunks[a].append
  /\ \A m \in (a + 1)..n : Chunks[m].append

Run(a, n) == [j \in 1..(n - a + 1) |-> Chunks[a + j - 1].parts]
Contained(a, n) == [j \in 1..(n - a + 1) |-> Normalize(Chunks[a + j - 1].parts)]

Carriers(l, n) == {j \in 1..n : Chunks[j].labels[l].kept # ""}

\* The artifact the call works with, said of the chunks as a whole: its parts
\* are those from the last chunk that starts afresh on, and a label is that of
\* the last chunk that carries one, also one before the restart.
AssemblyIsLastRun ==
  /\ TypeOK
  /\ Assembling =>
       /\ IF Dealt = 0 THEN parts = << >>
          ELSE \E a \in 1..Dealt :
                 Restarts(a, Dealt) /\ Concatenates(parts, Run(a, Dealt))
       /\ \A l \in Labels :
            IF Carriers(l, Dealt) = {} THEN labels[l] = NoLabel
            ELSE \E j \in Carriers(l, Dealt) :
                   /\ labels[l] = Chunks[j].labels[l]
                   /\ \A m \in Carriers(l, Dealt) : m <= j

\* derived_from holds each cited and verified input once, in the order of
\* first citation, and leaves one out only at the cap.
Position(x) == CHOOSE j \in DOMAIN vector.cited :
                 vector.cited[j] = x /\ \A m \in 1..(j - 1) : vector.cited[m] # x

DerivedIsWhatWasUsed ==
  pc = "holders" =>
    /\ Len(derived) <= DerivedCap
    /\ \A a \in DOMAIN derived :
         /\ derived[a] \in vector.verified
         /\ Among(vector.cited, derived[a])
         /\ \A b \in 1..(a - 1) : Position(derived[b]) < Position(derived[a])
    /\ Len(derived) < DerivedCap =>
         \A x \in vector.verified : Among(vector.cited, x) => Among(derived, x)

\* Same(held): the artifact the agent published, in whatever form it came.
Same(held) ==
  /\ \E a \in DOMAIN Chunks :
       /\ Restarts(a, Len(Chunks))
       /\ Concatenates(Normalize(held.parts), Contained(a, Len(Chunks)))
  /\ held.artifactId = Chunks[1].artifactId

\* A holder is told "ok" only of the artifact that was published: between
\* the assembly of the chunks, the record and the holder's recomputation, no
\* other parts, id, task, context or Card, no other recorded label beyond the
\* cut, slips through, and no other salt does either.
HolderAcceptsOnlyTheArtifact ==
  ret = "True" =>
    \A j \in DOMAIN verdicts :
      verdicts[j] = "ok" =>
        LET h == vector.holders[j]
        IN  /\ h.held.linked /\ h.card # "wrong"
            /\ h.held.salt = vector.salt
            /\ Same(h.held)
            /\ \A l \in Labels : labels[l].kept # "" =>
                 h.held.labels[l].kept = labels[l].kept
            /\ h.task \in {"", vector.task_id}
            /\ h.context \in {"", vector.context_id}

\* A holder of the artifact itself is not turned away, in whatever form it
\* received the parts and whatever the limits cut off its labels.
HolderAcceptsTheArtifact ==
  ret = "True" =>
    \A j \in DOMAIN verdicts :
      LET h == vector.holders[j]
      IN  /\ h.held.linked /\ h.card # "wrong"
          /\ h.held.salt = vector.salt
          /\ Same(h.held)
          /\ \A l \in Labels : h.held.labels[l].kept = labels[l].kept
          /\ Record.role = "" \/ Record.role = Role(h.held.role)
          /\ h.task \in {"", vector.task_id}
          /\ h.context \in {"", vector.context_id}
          => verdicts[j] = "ok"
=============================================================================
