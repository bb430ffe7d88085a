------------------------- MODULE A2AArtifactProofs -------------------------
(***************************************************************************)
(* What check_a2a_vector guarantees, for runs of chunks, parts, cited      *)
(* inputs and holders of any number.                                       *)
(***************************************************************************)
EXTENDS A2AArtifact, SequenceTheorems, WellFoundedInduction, TLAPS

(***************************************************************************)
(* Concatenations.                                                         *)
(***************************************************************************)

\* A set of natural numbers that is not empty has a least element.
LEMMA Least ==
  ASSUME NEW T, T \subseteq Nat, T # {}
  PROVE  \E x \in T : \A y \in T : x <= y
<1> DEFINE R == OpToRel(<, Nat)
<1>1. IsWellFoundedOn(R, Nat)  BY NatLessThanWellFounded
<1>2. \A x, y \in Nat : x < y => <<x, y>> \in R  BY DEF OpToRel
<1> HIDE DEF R
<1>3. PICK x \in T : \A y \in T : ~(<<y, x>> \in R)  BY <1>1, WFMin
<1>4. ASSUME NEW y \in T  PROVE x <= y
  <2>1. x \in Nat /\ y \in Nat  OBVIOUS
  <2>2. ~(y < x)  BY <1>2, <1>3, <2>1, Zenon
  <2> QED  BY <2>1, <2>2, SMT
<1> QED  BY <1>4

\* Cuts(cut, s, runs): cut says where in s the sequences of runs end.
Cuts(cut, s, runs) ==
  /\ cut \in [0..Len(runs) -> 0..Len(s)]
  /\ cut[0] = 0 /\ cut[Len(runs)] = Len(s)
  /\ \A j \in DOMAIN runs :
       /\ cut[j] = cut[j - 1] + Len(runs[j])
       /\ \A i \in DOMAIN runs[j] : s[cut[j - 1] + i] = runs[j][i]

LEMMA ConcatenatesCuts ==
  \A s, runs : Concatenates(s, runs) <=> \E cut : Cuts(cut, s, runs)
BY DEF Concatenates, Cuts

\* There is one concatenation of given sequences.
LEMMA OneConcatenation ==
  ASSUME NEW C, NEW runs \in Seq(Seq(C)), NEW s \in Seq(C), NEW t \in Seq(C),
         Concatenates(s, runs), Concatenates(t, runs)
  PROVE  s = t
<1>1. PICK a : Cuts(a, s, runs)  BY ConcatenatesCuts
<1>2. PICK b : Cuts(b, t, runs)  BY ConcatenatesCuts
<1>3. /\ Len(runs) \in Nat /\ DOMAIN runs = 1..Len(runs)
      /\ Len(s) \in Nat /\ Len(t) \in Nat
      /\ DOMAIN s = 1..Len(s) /\ DOMAIN t = 1..Len(t)
      /\ \A j \in DOMAIN runs :
           Len(runs[j]) \in Nat /\ DOMAIN runs[j] = 1..Len(runs[j])
  BY LenProperties, ElementOfSeq
<1> DEFINE n == Len(runs)
<1>c. /\ n \in Nat
      /\ \A j \in 0..n : a[j] \in Nat /\ b[j] \in Nat
      /\ a[0] = 0 /\ b[0] = 0 /\ a[n] = Len(s) /\ b[n] = Len(t)
  <2>1. \A j \in 0..n : a[j] \in 0..Len(s)  BY <1>1 DEF Cuts
  <2>2. \A j \in 0..n : b[j] \in 0..Len(t)  BY <1>2 DEF Cuts
  <2>3. a[0] = 0 /\ b[0] = 0 /\ a[n] = Len(s) /\ b[n] = Len(t)
    BY <1>1, <1>2 DEF Cuts
  <2> QED  BY <1>3, <2>1, <2>2, <2>3
<1>4. \A j \in 0..Len(runs) : a[j] = b[j]
  <2> DEFINE T == {j \in 0..Len(runs) : a[j] # b[j]}
  <2>1. SUFFICES ASSUME T # {}  PROVE FALSE  OBVIOUS
  <2>2. T \subseteq Nat  BY <1>3
  <2>3. PICK x \in T : \A y \in T : x <= y  BY <2>1, <2>2, Least
  <2>4. x \in 1..Len(runs)  BY <1>c, <1>3
  <2>5. x - 1 \in 0..Len(runs) /\ x - 1 \notin T
    <3>1. x - 1 \in 0..Len(runs) /\ ~(x <= x - 1)  BY <1>3, <2>4
    <3> QED  BY <2>3, <3>1
  <2>6. a[x - 1] = b[x - 1]  BY <2>5
  <2>7. a[x] = a[x - 1] + Len(runs[x]) /\ b[x] = b[x - 1] + Len(runs[x])
    BY <1>1, <1>2, <1>3, <2>4 DEF Cuts
  <2> QED  BY <2>3, <2>6, <2>7
<1>5. Len(s) = Len(t)
  <2>1. n \in 0..n  BY <1>c
  <2> QED  BY <1>c, <1>4, <2>1
<1>6. ASSUME NEW i \in 1..Len(s)  PROVE s[i] = t[i]
  <2> DEFINE T == {j \in 0..Len(runs) : i <= a[j]}
  <2>1. Len(runs) \in T  BY <1>c, <1>3
  <2>2. T \subseteq Nat  BY <1>3
  <2>3. PICK x \in T : \A y \in T : x <= y  BY <2>1, <2>2, Least
  <2>4. x \in 1..Len(runs)  BY <1>c, <1>3
  <2>5. x - 1 \in 0..Len(runs) /\ x - 1 \notin T
    <3>1. x - 1 \in 0..Len(runs) /\ ~(x <= x - 1)  BY <1>3, <2>4
    <3> QED  BY <2>3, <3>1
  <2>6. a[x - 1] \in Nat /\ a[x - 1] < i
    <3>1. a[x - 1] \in Nat /\ ~(i <= a[x - 1])  BY <1>c, <2>5
    <3>2. i \in Nat  BY <1>3
    <3> QED  BY <3>1, <3>2
  <2>7. a[x] = a[x - 1] + Len(runs[x]) /\ i <= a[x]  BY <1>1, <1>3, <2>4 DEF Cuts
  <2> DEFINE m == i - a[x - 1]
  <2>8. m \in DOMAIN runs[x] /\ a[x - 1] + m = i  BY <1>3, <2>4, <2>6, <2>7
  <2>9. s[a[x - 1] + m] = runs[x][m]  BY <1>1, <1>3, <2>4, <2>8 DEF Cuts
  <2>10. t[b[x - 1] + m] = runs[x][m]  BY <1>2, <1>3, <2>4, <2>8 DEF Cuts
  <2>11. a[x - 1] = b[x - 1]  BY <1>4, <2>5
  <2> QED  BY <2>8, <2>9, <2>10, <2>11
<1> QED  BY <1>5, <1>6, SeqEqual

\* One more sequence at the end.
LEMMA LongerConcatenation ==
  ASSUME NEW C, NEW runs \in Seq(Seq(C)), NEW s \in Seq(C), NEW t \in Seq(C),
         Concatenates(s, runs)
  PROVE  Concatenates(s \o t, Append(runs, t))
<1>1. PICK cut : Cuts(cut, s, runs)  BY ConcatenatesCuts
<1> DEFINE n == Len(runs)
           more == Append(runs, t)
           whole == s \o t
           after == [j \in 0..(n + 1) |-> IF j <= n THEN cut[j] ELSE Len(s) + Len(t)]
<1>2. /\ n \in Nat /\ DOMAIN runs = 1..n
      /\ Len(s) \in Nat /\ Len(t) \in Nat /\ DOMAIN t = 1..Len(t)
      /\ \A j \in DOMAIN runs :
           Len(runs[j]) \in Nat /\ DOMAIN runs[j] = 1..Len(runs[j])
  BY LenProperties, ElementOfSeq
<1>3. /\ more \in Seq(Seq(C)) /\ Len(more) = n + 1 /\ DOMAIN more = 1..(n + 1)
      /\ \A j \in 1..n : more[j] = runs[j]
      /\ more[n + 1] = t
  BY AppendProperties, LenProperties
<1>4. /\ Len(whole) = Len(s) + Len(t)
      /\ \A i \in 1..Len(s) : whole[i] = s[i]
      /\ \A i \in 1..Len(t) : whole[Len(s) + i] = t[i]
  BY <1>2, ConcatProperties
<1> HIDE DEF more, whole
<1>5. after \in [0..Len(more) -> 0..Len(whole)]
  BY <1>1, <1>2, <1>3, <1>4 DEF Cuts
<1>6. after[0] = 0 /\ after[Len(more)] = Len(whole)
  BY <1>1, <1>2, <1>3, <1>4 DEF Cuts
<1>7. ASSUME NEW j \in DOMAIN more
      PROVE  /\ after[j] = after[j - 1] + Len(more[j])
             /\ \A i \in DOMAIN more[j] : whole[after[j - 1] + i] = more[j][i]
  <2>1. CASE j \in 1..n
    <3>1. /\ cut[j] = cut[j - 1] + Len(runs[j])
          /\ \A i \in DOMAIN runs[j] : s[cut[j - 1] + i] = runs[j][i]
          /\ cut[j - 1] \in Nat /\ cut[j] \in 0..Len(s)
      BY <1>1, <1>2, <2>1 DEF Cuts
    <3>2. after[j] = cut[j] /\ after[j - 1] = cut[j - 1] /\ more[j] = runs[j]
      BY <1>2, <1>3, <2>1
    <3>3. \A i \in DOMAIN runs[j] : cut[j - 1] + i \in 1..Len(s)
      BY <1>2, <2>1, <3>1
    <3>4. after[j] = after[j - 1] + Len(more[j])  BY <3>1, <3>2
    <3>5. ASSUME NEW i \in DOMAIN more[j]
          PROVE  whole[after[j - 1] + i] = more[j][i]
      <4>1. i \in DOMAIN runs[j] /\ cut[j - 1] + i \in 1..Len(s)  BY <3>2, <3>3
      <4>2. s[cut[j - 1] + i] = runs[j][i]  BY <3>1, <4>1
      <4>3. whole[cut[j - 1] + i] = s[cut[j - 1] + i]  BY <1>4, <4>1
      <4> QED  BY <3>2, <4>2, <4>3
    <3> QED  BY <3>4, <3>5
  <2>2. CASE j = n + 1
    <3>1. cut[n] = Len(s)  BY <1>1 DEF Cuts
    <3>2. after[j] = Len(s) + Len(t) /\ after[j - 1] = Len(s) /\ more[j] = t
      BY <1>2, <1>3, <2>2, <3>1
    <3> QED  BY <1>2, <1>4, <3>2
  <2>3. j \in 1..n \/ j = n + 1  BY <1>2, <1>3
  <2> QED  BY <2>1, <2>2, <2>3
<1>8. Cuts(after, whole, more)  BY <1>5, <1>6, <1>7 DEF Cuts
<1> QED  BY <1>8, ConcatenatesCuts DEF more, whole

LEMMA SingleConcatenation ==
  ASSUME NEW C, NEW t \in Seq(C)
  PROVE  Concatenates(t, <<t>>)
<1> DEFINE cut == [j \in 0..1 |-> IF j = 0 THEN 0 ELSE Len(t)]
<1>1. Len(t) \in Nat /\ DOMAIN t = 1..Len(t)  BY LenProperties
<1>2. Len(<<t>>) = 1 /\ DOMAIN <<t>> = 1..1 /\ <<t>>[1] = t  OBVIOUS
<1>3. Cuts(cut, t, <<t>>)  BY <1>1, <1>2 DEF Cuts
<1> QED  BY <1>3, ConcatenatesCuts

LEMMA NormalizeType ==
  ASSUME NEW s \in Seq(Part)
  PROVE  /\ Normalize(s) \in Seq(Contents)
         /\ Len(Normalize(s)) = Len(s)
         /\ DOMAIN Normalize(s) = DOMAIN s
         /\ \A i \in DOMAIN s : Normalize(s)[i] = s[i].content
<1>1. Len(s) \in Nat /\ DOMAIN s = 1..Len(s)  BY LenProperties
<1>2. \A i \in DOMAIN s : s[i].content \in Contents
  <2>1. \A i \in DOMAIN s : s[i] \in Part  BY <1>1, ElementOfSeq
  <2> QED  BY <2>1 DEF Part
<1>3. Normalize(s) \in [1..Len(s) -> Contents]  BY <1>1, <1>2 DEF Normalize
<1>4. Normalize(s) \in Seq(Contents)  BY <1>1, <1>3
<1>5. Len(Normalize(s)) = Len(s)  BY <1>1, <1>3, <1>4, LenProperties
<1> QED  BY <1>4, <1>5 DEF Normalize

\* What is concatenated and then normalized is the concatenation of what is
\* normalized first.
LEMMA NormalizedConcatenation ==
  ASSUME NEW runs \in Seq(Seq(Part)), NEW s \in Seq(Part), Concatenates(s, runs)
  PROVE  Concatenates(Normalize(s), [j \in DOMAIN runs |-> Normalize(runs[j])])
<1> DEFINE n == Len(runs)
           normal == [j \in DOMAIN runs |-> Normalize(runs[j])]
<1>1. PICK cut : Cuts(cut, s, runs)  BY ConcatenatesCuts
<1>2. n \in Nat /\ DOMAIN runs = 1..n /\ \A j \in DOMAIN runs : runs[j] \in Seq(Part)
  BY LenProperties, ElementOfSeq
<1>3. \A j \in DOMAIN runs :
        /\ normal[j] \in Seq(Contents)
        /\ Len(normal[j]) = Len(runs[j]) /\ DOMAIN normal[j] = DOMAIN runs[j]
        /\ \A i \in DOMAIN runs[j] : normal[j][i] = runs[j][i].content
  BY <1>2, NormalizeType
<1>4. DOMAIN normal = DOMAIN runs /\ Len(normal) = n
  <2>1. normal \in [1..n -> Seq(Contents)]  BY <1>2, <1>3
  <2>2. normal \in Seq(Seq(Contents))  BY <1>2, <2>1
  <2> QED  BY <1>2, <2>1, <2>2, LenProperties
<1>5. /\ Len(Normalize(s)) = Len(s) /\ Len(s) \in Nat /\ DOMAIN s = 1..Len(s)
      /\ \A i \in DOMAIN s : Normalize(s)[i] = s[i].content
  BY NormalizeType, LenProperties
<1>6. cut \in [0..Len(normal) -> 0..Len(Normalize(s))]  BY <1>1, <1>4, <1>5 DEF Cuts
<1>7. cut[0] = 0 /\ cut[Len(normal)] = Len(Normalize(s))
  BY <1>1, <1>4, <1>5 DEF Cuts
<1> HIDE DEF normal
<1>8. ASSUME NEW j \in DOMAIN normal
      PROVE  /\ cut[j] = cut[j - 1] + Len(normal[j])
             /\ \A i \in DOMAIN normal[j] :
                  Normalize(s)[cut[j - 1] + i] = normal[j][i]
  <2>1. j \in DOMAIN runs  BY <1>4
  <2>2. cut[j] = cut[j - 1] + Len(normal[j])  BY <1>1, <1>3, <2>1 DEF Cuts
  <2>3. ASSUME NEW i \in DOMAIN normal[j]
        PROVE  Normalize(s)[cut[j - 1] + i] = normal[j][i]
    <3>1. i \in DOMAIN runs[j] /\ normal[j][i] = runs[j][i].content
      BY <1>3, <2>1, <2>3
    <3>2. s[cut[j - 1] + i] = runs[j][i]  BY <1>1, <2>1, <3>1 DEF Cuts
    <3>3. cut[j - 1] + i \in DOMAIN s
      <4>1. i \in 1..Len(runs[j]) /\ Len(runs[j]) \in Nat
        BY <1>2, <2>1, <3>1, LenProperties
      <4>2. cut[j - 1] \in 0..Len(s) /\ cut[j] \in 0..Len(s)
        BY <1>1, <1>2, <2>1 DEF Cuts
      <4>3. cut[j] = cut[j - 1] + Len(runs[j])  BY <1>1, <2>1 DEF Cuts
      <4> QED  BY <1>5, <4>1, <4>2, <4>3
    <3> QED  BY <1>5, <3>1, <3>2, <3>3
  <2> QED  BY <2>2, <2>3
<1>9. Cuts(cut, Normalize(s), normal)  BY <1>6, <1>7, <1>8 DEF Cuts
<1> QED  BY <1>9, ConcatenatesCuts DEF normal

(***************************************************************************)
(* The inductive invariant.                                                *)
(***************************************************************************)

\* The call is past the checks that end it at once; past the assembly; past
\* the comparison of the record.
Underway == pc \in {"chunks", "record", "derived", "holders"} \/ ret = "True"
Assembled == pc \in {"record", "derived", "holders"} \/ ret = "True"
Compared == pc \in {"derived", "holders"} \/ ret = "True"

Positions ==
  /\ vector \in Vectors
  /\ ret = "none" <=> pc # "returned"
  /\ pc = "chunks" => k <= Len(Chunks)
  /\ pc = "derived" => k <= Len(vector.cited)
  /\ pc = "holders" => k = Len(verdicts)
  /\ pc \in {"salt", "chunks", "record", "derived"} => verdicts = << >>
  /\ pc \in {"salt", "chunks", "record"} => derived = << >>
  /\ pc = "derived" /\ k = 0 => derived = << >>

\* The assembly of the first n chunks, and what is still to come of it.
AssembledAt(n) ==
  /\ IF n = 0 THEN parts = << >>
     ELSE \E a \in 1..n : Restarts(a, n) /\ Concatenates(parts, Run(a, n))
  /\ \A l \in Labels :
       IF Carriers(l, n) = {} THEN labels[l] = NoLabel
       ELSE \E j \in Carriers(l, n) :
              /\ labels[l] = Chunks[j].labels[l]
              /\ \A m \in Carriers(l, n) : m <= j

Assembly ==
  /\ pc = "salt" => parts = << >> /\ labels = [l \in Labels |-> NoLabel]
  /\ pc = "chunks" => AssembledAt(k)
  /\ Assembled => AssembledAt(Len(Chunks)) /\ Chunks # << >>

\* FirstCited(p, x): x is cited at p and not before.
FirstCited(p, x) ==
  /\ p \in DOMAIN vector.cited
  /\ vector.cited[p] = x
  /\ \A m \in 1..(p - 1) : vector.cited[m] # x

\* Of the first n inputs cited, those verified are listed, in the order of
\* their first citation, up to the cap.
UsedAt(n) ==
  /\ Len(derived) <= DerivedCap
  /\ \A a \in DOMAIN derived : derived[a] \in vector.verified
  /\ \A a \in DOMAIN derived : \E p \in 1..n : FirstCited(p, derived[a])
  /\ \A a \in DOMAIN derived : \A b \in 1..(a - 1) : \A p, q \in 1..n :
       FirstCited(p, derived[b]) /\ FirstCited(q, derived[a]) => p < q
  /\ Len(derived) < DerivedCap =>
       \A m \in 1..n : vector.cited[m] \in vector.verified =>
         Among(derived, vector.cited[m])

Used ==
  /\ pc = "derived" => UsedAt(k)
  /\ pc = "holders" => UsedAt(Len(vector.cited))

\* The record says what was computed, unless a deviation was noted.
RecordIsRight ==
  /\ \A h \in DOMAIN ComputedHashes : Record[h] = ComputedHashes[h]
  /\ Record.wellformed
  /\ Record.salted \/ Record.embedded
  /\ \A l \in Labels : Record.labels[l] = labels[l].kept

Recorded ==
  /\ Underway => vector.salt # InvalidSalt
  /\ ret = "True" => ok
  /\ Compared /\ ok => RecordIsRight

Judged ==
  \A j \in DOMAIN verdicts :
    /\ verdicts[j] = HolderVerify(Record, vector.holders[j])
    /\ verdicts[j] # "raised"

IInv == TypeOK /\ Positions /\ Assembly /\ Used /\ Recorded /\ Judged

LEMMA Shape ==
  \A v \in Vectors :
    /\ IsVector(v)
    /\ Len(v.chunks) \in Nat /\ DOMAIN v.chunks = 1..Len(v.chunks)
    /\ Len(v.cited) \in Nat /\ DOMAIN v.cited = 1..Len(v.cited)
    /\ Len(v.holders) \in Nat /\ DOMAIN v.holders = 1..Len(v.holders)
<1>1. SUFFICES ASSUME NEW v \in Vectors
      PROVE  /\ IsVector(v)
             /\ Len(v.chunks) \in Nat /\ DOMAIN v.chunks = 1..Len(v.chunks)
             /\ Len(v.cited) \in Nat /\ DOMAIN v.cited = 1..Len(v.cited)
             /\ Len(v.holders) \in Nat /\ DOMAIN v.holders = 1..Len(v.holders)
  OBVIOUS
<1>2. IsVector(v)  BY A2AAssumption
<1>3. /\ v.chunks \in Seq(Chunk) /\ v.cited \in Seq(Inputs)
      /\ v.holders \in Seq(Holder)
  BY <1>2 DEF IsVector
<1> QED  BY <1>2, <1>3, LenProperties

\* The members of a chunk and of a held artifact.
LEMMA ChunkType ==
  \A c \in Chunk :
    /\ c.ids \in BOOLEAN /\ c.append \in BOOLEAN /\ c.lastChunk \in BOOLEAN
    /\ c.parts \in Seq(Part) /\ c.labels \in [Labels -> Label]
BY DEF Chunk

LEMMA HolderType ==
  \A h \in Holder : h.held.parts \in Seq(Part) /\ h.expected \in STRING
BY DEF Holder, Held

\* The runs are sequences of sequences of parts; a run that goes on has one
\* more, one that restarts only the new one.
LEMMA Runs ==
  ASSUME vector \in Vectors, NEW n \in 1..Len(Chunks), NEW a \in 1..n
  PROVE  /\ Run(a, n) \in Seq(Seq(Part))
         /\ Len(Run(a, n)) = n - a + 1
         /\ DOMAIN Run(a, n) = 1..(n - a + 1)
         /\ \A j \in DOMAIN Run(a, n) : Run(a, n)[j] = Chunks[a + j - 1].parts
<1>1. /\ Chunks \in Seq(Chunk) /\ Len(Chunks) \in Nat
      /\ DOMAIN Chunks = 1..Len(Chunks)
  BY Shape DEF Chunks, IsVector
<1>2. \A m \in 1..Len(Chunks) : Chunks[m].parts \in Seq(Part)
  BY <1>1, ElementOfSeq, ChunkType
<1>3. \A j \in 1..(n - a + 1) : a + j - 1 \in 1..Len(Chunks)  BY <1>1
<1>4. n - a + 1 \in Nat  BY <1>1
<1>5. Run(a, n) \in [1..(n - a + 1) -> Seq(Part)]  BY <1>2, <1>3 DEF Run
<1>6. Run(a, n) \in Seq(Seq(Part))  BY <1>4, <1>5
<1>7. Len(Run(a, n)) = n - a + 1  BY <1>4, <1>5, <1>6, LenProperties
<1> QED  BY <1>5, <1>6, <1>7 DEF Run

LEMMA RunGoesOn ==
  ASSUME vector \in Vectors, NEW n \in 1..Len(Chunks), n + 1 <= Len(Chunks),
         NEW a \in 1..n
  PROVE  Run(a, n + 1) = Append(Run(a, n), Chunks[n + 1].parts)
<1>1. Len(Chunks) \in Nat /\ Chunks \in Seq(Chunk)  BY Shape DEF Chunks, IsVector
<1>2. n + 1 \in 1..Len(Chunks) /\ a \in 1..(n + 1)  BY <1>1
<1>3. Chunks[n + 1].parts \in Seq(Part)  BY <1>1, <1>2, ElementOfSeq, ChunkType
<1> DEFINE r == Run(a, n)
           s == Run(a, n + 1)
           t == Chunks[n + 1].parts
<1>4. /\ r \in Seq(Seq(Part)) /\ Len(r) = n - a + 1
      /\ \A j \in 1..(n - a + 1) : r[j] = Chunks[a + j - 1].parts
  BY Runs
<1>5. /\ s \in Seq(Seq(Part)) /\ Len(s) = n + 1 - a + 1
      /\ \A j \in 1..(n + 1 - a + 1) : s[j] = Chunks[a + j - 1].parts
  <2> DEFINE m == n + 1
  <2>1. m \in 1..Len(Chunks) /\ a \in 1..m  BY <1>2
  <2> HIDE DEF m
  <2>2. /\ Run(a, m) \in Seq(Seq(Part)) /\ Len(Run(a, m)) = m - a + 1
        /\ \A j \in 1..(m - a + 1) : Run(a, m)[j] = Chunks[a + j - 1].parts
    BY <2>1, Runs
  <2> QED  BY <2>2 DEF m
<1>6. r \in Seq(Seq(Part)) /\ t \in Seq(Part)  BY <1>3, <1>4
<1> HIDE DEF r, s, t
<1>7. /\ Append(r, t) \in Seq(Seq(Part)) /\ Len(Append(r, t)) = Len(r) + 1
      /\ \A j \in 1..Len(r) : Append(r, t)[j] = r[j]
      /\ Append(r, t)[Len(r) + 1] = t
  BY <1>6, AppendProperties
<1>8. Len(s) = Len(Append(r, t))  BY <1>4, <1>5, <1>7, <1>1
<1>9. ASSUME NEW j \in 1..Len(s)  PROVE s[j] = Append(r, t)[j]
  <2>1. j \in 1..(n - a + 1) \/ j = n - a + 2  BY <1>1, <1>5
  <2>2. CASE j \in 1..(n - a + 1)  BY <1>1, <1>4, <1>5, <1>7, <2>2
  <2>3. CASE j = n - a + 2
    <3>1. a + j - 1 = n + 1 /\ j = Len(r) + 1  BY <1>1, <1>4, <2>3
    <3> QED  BY <1>5, <1>7, <3>1 DEF t
  <2> QED  BY <2>1, <2>2, <2>3
<1>10. s = Append(r, t)  BY <1>5, <1>7, <1>8, <1>9, SeqEqual
<1> QED  BY <1>10 DEF r, s, t

LEMMA RunOfOne ==
  ASSUME vector \in Vectors, NEW n \in 1..Len(Chunks)
  PROVE  Run(n, n) = <<Chunks[n].parts>>
<1>1. Len(Chunks) \in Nat  BY Shape DEF Chunks
<1>2. n \in 1..n  BY <1>1
<1>3. /\ Run(n, n) \in Seq(Seq(Part)) /\ Len(Run(n, n)) = n - n + 1
      /\ \A j \in 1..(n - n + 1) : Run(n, n)[j] = Chunks[n + j - 1].parts
  BY <1>2, Runs
<1>4. n - n + 1 = 1 /\ n + 1 - 1 = n /\ 1 \in 1..1  BY <1>1
<1>5. Len(Run(n, n)) = 1 /\ Run(n, n)[1] = Chunks[n].parts  BY <1>3, <1>4
<1>6. Run(n, n) \in [1..1 -> Seq(Part)]  BY <1>3, <1>5, LenProperties
<1> QED  BY <1>5, <1>6

(***************************************************************************)
(* One chunk, and one input cited.                                         *)
(***************************************************************************)

\* Where the last run begins once one more chunk has been dealt with.
LEMMA PartsOfOneMore ==
  ASSUME IInv, pc = "chunks", k < Len(Chunks), vector' = vector,
         parts' = (IF Chunks[k + 1].append THEN parts ELSE << >>) \o Chunks[k + 1].parts
  PROVE  \E a \in 1..(k + 1) :
           Restarts(a, k + 1) /\ Concatenates(parts', Run(a, k + 1))
<1> DEFINE n == k + 1
           t == Chunks[n].parts
<1>1. vector \in Vectors /\ k \in Nat /\ parts \in Seq(Part) /\ AssembledAt(k)
  BY DEF IInv, TypeOK, Positions, Assembly
<1>2. Len(Chunks) \in Nat /\ Chunks \in Seq(Chunk)  BY <1>1, Shape DEF Chunks, IsVector
<1>3. n \in 1..Len(Chunks)  BY <1>1, <1>2
<1>4. t \in Seq(Part) /\ Chunks[n].append \in BOOLEAN
  BY <1>2, <1>3, ElementOfSeq, ChunkType
<1>5. CASE k = 0
  <2>1. parts' = t  BY <1>1, <1>4, <1>5, ConcatEmptySeq DEF AssembledAt
  <2>2. Restarts(1, 1)  BY <1>5 DEF Restarts
  <2>3. 1 \in 1..Len(Chunks) /\ n = 1  BY <1>3, <1>5
  <2>4. Concatenates(t, <<t>>)  BY <1>4, SingleConcatenation
  <2>5. Run(1, 1) = <<Chunks[1].parts>>  BY <1>1, <2>3, RunOfOne
  <2>6. Concatenates(parts', Run(1, n)) /\ Restarts(1, n)
    BY <2>1, <2>2, <2>3, <2>4, <2>5
  <2>7. 1 \in 1..n  BY <2>3
  <2> QED  BY <2>6, <2>7
<1>6. CASE k # 0 /\ ~Chunks[n].append
  <2>1. parts' = t  BY <1>4, <1>6, ConcatEmptySeq
  <2>2. Restarts(n, n)  BY <1>1, <1>6 DEF Restarts
  <2>3. Concatenates(t, <<t>>)  BY <1>4, SingleConcatenation
  <2>4. Run(n, n) = <<t>>  BY <1>1, <1>3, RunOfOne
  <2>5. n \in 1..n  BY <1>1
  <2> QED  BY <2>1, <2>2, <2>3, <2>4, <2>5
<1>7. CASE k # 0 /\ Chunks[n].append
  <2>1. PICK a \in 1..k : Restarts(a, k) /\ Concatenates(parts, Run(a, k))
    BY <1>1, <1>7 DEF AssembledAt
  <2>2. k \in 1..Len(Chunks) /\ k + 1 <= Len(Chunks)  BY <1>1, <1>2, <1>7
  <2>3. Run(a, n) = Append(Run(a, k), t)  BY <1>1, <2>1, <2>2, RunGoesOn
  <2>4. Run(a, k) \in Seq(Seq(Part))  BY <1>1, <2>1, <2>2, Runs
  <2>5. Concatenates(parts \o t, Append(Run(a, k), t))
    BY <1>1, <1>4, <2>1, <2>4, LongerConcatenation
  <2>6. a \in 1..n /\ Restarts(a, n)
    <3>1. a \in 1..n /\ \A m \in (a + 1)..n : m \in (a + 1)..k \/ m = n
      BY <1>1, <2>1
    <3> QED  BY <1>7, <2>1, <3>1 DEF Restarts
  <2>7. parts' = parts \o t  BY <1>7
  <2> QED  BY <2>3, <2>5, <2>6, <2>7
<1> QED  BY <1>4, <1>5, <1>6, <1>7

LEMMA OneMore ==
  \A n \in Nat :
    /\ n + 1 \in 1..(n + 1)
    /\ \A j : j \in 1..(n + 1) <=> (j \in 1..n \/ j = n + 1)
    /\ \A j \in 1..(n + 1) : j <= n + 1
OBVIOUS

LEMMA LabelOfOneMore ==
  ASSUME IInv, pc = "chunks", k < Len(Chunks), vector' = vector, NEW l \in Labels,
         labels'[l] = IF Chunks[k + 1].labels[l].kept # ""
                        THEN Chunks[k + 1].labels[l] ELSE labels[l]
  PROVE  IF Carriers(l, k + 1) = {} THEN labels'[l] = NoLabel
         ELSE \E j \in Carriers(l, k + 1) :
                /\ labels'[l] = Chunks[j].labels[l]
                /\ \A m \in Carriers(l, k + 1) : m <= j
<1> DEFINE n == k + 1
<1>1. k \in Nat /\ AssembledAt(k)  BY DEF IInv, TypeOK, Assembly
<1> HIDE DEF n
<1>a. k \in Nat /\ n = k + 1  BY <1>1 DEF n
<1>n. n \in 1..n /\ \A j : j \in 1..n <=> (j \in 1..k \/ j = n)  BY <1>a, OneMore
<1>b. \A j \in 1..n : j <= n  BY <1>a, OneMore
<1>c. labels'[l] = IF Chunks[n].labels[l].kept # ""
                     THEN Chunks[n].labels[l] ELSE labels[l]
  BY DEF n
<1>2. CASE Chunks[n].labels[l].kept # ""
  <2>1. n \in Carriers(l, n) /\ \A m \in Carriers(l, n) : m <= n
    <3>1. n \in Carriers(l, n)  BY <1>2, <1>n DEF Carriers
    <3>2. \A m \in Carriers(l, n) : m <= n  BY <1>b DEF Carriers
    <3> QED  BY <3>1, <3>2
  <2>2. labels'[l] = Chunks[n].labels[l]  BY <1>2, <1>c
  <2> QED  BY <2>1, <2>2 DEF n
<1>3. CASE Chunks[n].labels[l].kept = ""
  <2>1. Carriers(l, n) = Carriers(l, k)
    <3>1. \A j : j \in Carriers(l, n) <=> j \in Carriers(l, k)
      BY <1>3, <1>n DEF Carriers
    <3> QED  BY <3>1
  <2>2. IF Carriers(l, k) = {} THEN labels[l] = NoLabel
        ELSE \E j \in Carriers(l, k) :
               /\ labels[l] = Chunks[j].labels[l]
               /\ \A m \in Carriers(l, k) : m <= j
    BY <1>1 DEF AssembledAt
  <2>3. labels'[l] = labels[l]  BY <1>3, <1>c
  <2> QED  BY <2>1, <2>2, <2>3 DEF n
<1> QED  BY <1>2, <1>3

\* An input that is listed is listed at its first citation: had it been cited
\* before, it would have been listed then.
LEMMA UsedOneMore ==
  ASSUME IInv, CiteInput
  PROVE  UsedAt(k)'
<1> DEFINE n == k + 1
           c == vector.cited[n]
<1>1. /\ vector \in Vectors /\ k \in Nat /\ derived \in Seq(Inputs)
      /\ UsedAt(k) /\ k < Len(vector.cited)
  BY DEF IInv, TypeOK, Positions, Used, CiteInput
<1>2. /\ Len(vector.cited) \in Nat /\ DOMAIN vector.cited = 1..Len(vector.cited)
      /\ vector.cited \in Seq(Inputs)
  BY <1>1, Shape DEF IsVector
<1>3. n \in 1..Len(vector.cited) /\ c \in Inputs  BY <1>1, <1>2, ElementOfSeq
<1>4. /\ vector' = vector /\ k' = n
      /\ derived' = IF c \in vector.verified /\ ~Among(derived, c)
                         /\ Len(derived) < DerivedCap
                      THEN Append(derived, c) ELSE derived
  BY DEF CiteInput
<1>5. Len(derived) \in Nat /\ DOMAIN derived = 1..Len(derived)
  BY <1>1, LenProperties
<1>6. DerivedCap \in Nat  BY A2AAssumption
<1>7. \A a \in DOMAIN derived : \E p \in 1..k : FirstCited(p, derived[a])
  BY <1>1 DEF UsedAt
<1>8. \A p, q, x : FirstCited(p, x) /\ FirstCited(q, x) => p = q
  <2> SUFFICES ASSUME NEW p, NEW q, NEW x, FirstCited(p, x), FirstCited(q, x)
               PROVE  p = q
    OBVIOUS
  <2>1. p \in Nat /\ q \in Nat /\ p >= 1 /\ q >= 1  BY <1>2 DEF FirstCited
  <2>2. ~(p < q) /\ ~(q < p)  BY <2>1 DEF FirstCited
  <2> QED  BY <2>1, <2>2
<1>9. CASE c \in vector.verified /\ ~Among(derived, c) /\ Len(derived) < DerivedCap
  <2> DEFINE d == Append(derived, c)
             e == Len(derived)
  <2>1. /\ d \in Seq(Inputs) /\ Len(d) = e + 1
        /\ \A i \in 1..e : d[i] = derived[i]
        /\ d[e + 1] = c
    BY <1>1, <1>3, AppendProperties
  <2>2. DOMAIN d = 1..(e + 1) /\ derived' = d  BY <1>4, <1>5, <1>9, <2>1, LenProperties
  <2> HIDE DEF d
  <2>3. \A i \in 1..(e + 1) : i \in DOMAIN derived \/ i = e + 1  BY <1>5
  <2>4. FirstCited(n, c)
    <3>1. ASSUME NEW m \in 1..(n - 1)  PROVE vector.cited[m] # c
      <4>1. m \in 1..k  BY <1>1
      <4>2. vector.cited[m] \in vector.verified => Among(derived, vector.cited[m])
        BY <1>1, <1>9, <4>1 DEF UsedAt
      <4> QED  BY <1>9, <4>2
    <3> QED  BY <1>2, <1>3, <3>1 DEF FirstCited
  <2>5. Len(d) <= DerivedCap  BY <1>5, <1>6, <1>9, <2>1
  <2>6. \A a \in DOMAIN d : d[a] \in vector.verified
    BY <1>1, <1>5, <1>9, <2>1, <2>2, <2>3 DEF UsedAt
  <2>7. \A a \in DOMAIN d : \E p \in 1..n : FirstCited(p, d[a])
    <3>1. ASSUME NEW a \in DOMAIN derived
          PROVE  \E p \in 1..n : FirstCited(p, d[a])
      <4>1. PICK p \in 1..k : FirstCited(p, derived[a])  BY <1>7
      <4>2. p \in 1..n /\ d[a] = derived[a]  BY <1>1, <1>5, <2>1, <4>1
      <4> QED  BY <4>1, <4>2
    <3>2. n \in 1..n  BY <1>1
    <3> QED  BY <2>1, <2>2, <2>3, <2>4, <3>1, <3>2
  <2>8. ASSUME NEW a \in DOMAIN d, NEW b \in 1..(a - 1), NEW p \in 1..n,
               NEW q \in 1..n, FirstCited(p, d[b]), FirstCited(q, d[a])
        PROVE  p < q
    <3>1. b \in DOMAIN derived /\ d[b] = derived[b]  BY <1>5, <2>1, <2>2
    <3>2. p \in 1..k
      <4>1. PICK r \in 1..k : FirstCited(r, derived[b])  BY <1>7, <3>1
      <4> QED  BY <1>8, <2>8, <3>1, <4>1
    <3>3. CASE a \in DOMAIN derived
      <4>1. d[a] = derived[a]  BY <1>5, <2>1, <3>3
      <4>2. PICK r \in 1..k : FirstCited(r, derived[a])  BY <1>7, <3>3
      <4>3. q \in 1..k  BY <1>8, <2>8, <4>1, <4>2
      <4> QED  BY <1>1, <2>8, <3>1, <3>2, <3>3, <4>1, <4>3 DEF UsedAt
    <3>4. CASE a = e + 1
      <4>1. q = n  BY <1>8, <2>1, <2>4, <2>8, <3>4
      <4> QED  BY <1>1, <3>2, <4>1
    <3> QED  BY <2>2, <2>3, <3>3, <3>4
  <2>9. ASSUME NEW m \in 1..n, vector.cited[m] \in vector.verified
        PROVE  Among(d, vector.cited[m])
    <3>1. CASE m = n
      <4>1. e + 1 \in DOMAIN d  BY <1>5, <2>2
      <4> QED  BY <2>1, <3>1, <4>1 DEF Among
    <3>2. CASE m \in 1..k
      <4>1. PICK i \in DOMAIN derived : derived[i] = vector.cited[m]
        BY <1>1, <1>9, <2>9, <3>2 DEF UsedAt, Among
      <4>2. i \in DOMAIN d /\ d[i] = vector.cited[m]  BY <1>5, <2>1, <2>2, <4>1
      <4> QED  BY <4>2 DEF Among
    <3> QED  BY <1>1, <3>1, <3>2
  <2>10. derived' = d /\ vector' = vector /\ k' = n  BY <1>4, <2>2
  <2> HIDE DEF n
  <2> QED  BY <2>5, <2>6, <2>7, <2>8, <2>9, <2>10 DEF UsedAt, FirstCited, Among
<1>10. CASE ~(c \in vector.verified /\ ~Among(derived, c) /\ Len(derived) < DerivedCap)
  <2>1. derived' = derived  BY <1>4, <1>10
  <2>2. \A a \in DOMAIN derived : \E p \in 1..n : FirstCited(p, derived[a])
    <3>1. \A p \in 1..k : p \in 1..n  BY <1>1
    <3> QED  BY <1>7, <3>1
  <2>3. ASSUME NEW a \in DOMAIN derived, NEW b \in 1..(a - 1), NEW p \in 1..n,
               NEW q \in 1..n, FirstCited(p, derived[b]), FirstCited(q, derived[a])
        PROVE  p < q
    <3>1. b \in DOMAIN derived  BY <1>5
    <3>2. PICK r \in 1..k : FirstCited(r, derived[b])  BY <1>7, <3>1
    <3>3. PICK t \in 1..k : FirstCited(t, derived[a])  BY <1>7
    <3>4. p = r /\ q = t  BY <1>8, <2>3, <3>2, <3>3
    <3> QED  BY <1>1, <2>3, <3>2, <3>3, <3>4 DEF UsedAt
  <2>4. ASSUME Len(derived) < DerivedCap, NEW m \in 1..n,
               vector.cited[m] \in vector.verified
        PROVE  Among(derived, vector.cited[m])
    <3>1. m \in 1..k \/ m = n  BY <1>1
    <3>2. CASE m \in 1..k  BY <1>1, <2>4, <3>2 DEF UsedAt
    <3>3. CASE m = n  BY <1>10, <2>4, <3>3
    <3> QED  BY <3>1, <3>2, <3>3
  <2>5. /\ Len(derived) <= DerivedCap
        /\ \A a \in DOMAIN derived : derived[a] \in vector.verified
    BY <1>1 DEF UsedAt
  <2>6. vector' = vector /\ k' = n  BY <1>4
  <2> HIDE DEF n
  <2> QED  BY <2>1, <2>2, <2>3, <2>4, <2>5, <2>6 DEF UsedAt, FirstCited, Among
<1> QED  BY <1>9, <1>10

(***************************************************************************)
(* The invariant holds initially, and every step keeps it.                 *)
(***************************************************************************)

LEMMA StartIInv ==
  Init => IInv
<1> SUFFICES ASSUME Init PROVE IInv  OBVIOUS
<1> USE DEF Init
<1>1. Len(vector.holders) \in Nat  BY Shape
<1>2. /\ << >> \in Seq(Part) /\ << >> \in Seq(Inputs) /\ << >> \in Seq(Verdict)
      /\ Len(<< >>) = 0 /\ DOMAIN << >> = {}
  OBVIOUS
<1>3. TypeOK
  <2>1. labels \in [Labels -> Label]
    <3>1. NoLabel \in Label
      <4>1. "" \in Texts  BY A2AAssumption
      <4> QED  BY <4>1, Zenon DEF NoLabel, Label
    <3> QED  BY <3>1
  <2> QED  BY <1>1, <1>2, <2>1 DEF TypeOK
<1>4. Positions  BY DEF Positions
<1>5. Assembly  BY DEF Assembly, Assembled
<1>6. Used  BY DEF Used
<1>7. Recorded  BY DEF Recorded, Underway, Compared
<1>8. Judged  BY <1>2 DEF Judged
<1> QED  BY <1>3, <1>4, <1>5, <1>6, <1>7, <1>8 DEF IInv

\* What reads only the vector, and the parts and labels or the list of inputs.
LEMMA AssemblyFrame ==
  ASSUME vector' = vector, parts' = parts, labels' = labels, NEW n
  PROVE  AssembledAt(n) => AssembledAt(n)'
BY DEF AssembledAt, Restarts, Run, Carriers, Chunks

LEMMA WholeFrame ==
  ASSUME vector' = vector, parts' = parts, labels' = labels
  PROVE  AssembledAt(Len(Chunks)) => AssembledAt(Len(Chunks))'
<1> DEFINE n == Len(Chunks)
<1>1. SUFFICES ASSUME AssembledAt(n)  PROVE AssembledAt(n)'  OBVIOUS
<1>2. n' = n  BY DEF Chunks
<1>3. /\ IF n = 0 THEN parts = << >>
         ELSE \E a \in 1..n : Restarts(a, n) /\ Concatenates(parts, Run(a, n))
      /\ \A l \in Labels :
           IF Carriers(l, n) = {} THEN labels[l] = NoLabel
           ELSE \E j \in Carriers(l, n) :
                  /\ labels[l] = Chunks[j].labels[l]
                  /\ \A m \in Carriers(l, n) : m <= j
  BY <1>1 DEF AssembledAt
<1> HIDE DEF n
<1> QED  BY <1>2, <1>3, ZenonT(60) DEF AssembledAt, Restarts, Run, Carriers, Chunks

LEMMA RecordFrame ==
  ASSUME vector' = vector, parts' = parts, labels' = labels
  PROVE  RecordIsRight' <=> RecordIsRight
BY DEF RecordIsRight, ComputedHashes, Record, PartsSalt, Chunks

LEMMA UsedFrame ==
  ASSUME vector' = vector, derived' = derived
  PROVE  UsedAt(Len(vector.cited)) => UsedAt(Len(vector.cited))'
<1>1. Len(vector'.cited) = Len(vector.cited)  OBVIOUS
<1>2. \A p, x : FirstCited(p, x)' <=> FirstCited(p, x)  BY DEF FirstCited
<1> QED  BY <1>1, <1>2 DEF UsedAt, Among

LEMMA JudgedFrame ==
  ASSUME vector' = vector, verdicts' = verdicts
  PROVE  Judged => Judged'
BY DEF Judged, Record

\* A return gives no verdict and assembles nothing; only "True" promises more.
LEMMA ReturnKeeps ==
  ASSUME IInv, NEW value \in {"True", "False", "raised"}, Return(value), pc # "returned",
         value = "True" => ok /\ pc = "holders"
  PROVE  IInv'
<1> USE DEF Return
<1>1. TypeOK'  BY DEF IInv, TypeOK
<1>2. Positions'  BY DEF IInv, Positions
<1>3. Assembly'
  <2>1. ret' = "True" => AssembledAt(Len(Chunks)) /\ Chunks # << >>
    BY DEF IInv, Assembly, Assembled
  <2>2. Len(Chunks)' = Len(Chunks) /\ (Chunks # << >>)' = (Chunks # << >>)
    BY DEF Chunks
  <2>3. AssembledAt(Len(Chunks)) => AssembledAt(Len(Chunks))'
    BY WholeFrame
  <2> QED  BY <2>1, <2>2, <2>3 DEF Assembly, Assembled
<1>4. Used'  BY DEF Used
<1>5. Recorded'
  <2>1. ret' = "True" => ok /\ RecordIsRight /\ vector.salt # InvalidSalt
    BY DEF IInv, Recorded, Compared, Underway
  <2>2. RecordIsRight' <=> RecordIsRight  BY RecordFrame
  <2> QED  BY <2>1, <2>2 DEF Recorded, Compared, Underway
<1>6. Judged'  BY JudgedFrame DEF IInv
<1> QED  BY <1>1, <1>2, <1>3, <1>4, <1>5, <1>6 DEF IInv

LEMMA CheckSaltKeeps ==
  IInv /\ CheckSalt => IInv'
<1> SUFFICES ASSUME IInv, CheckSalt PROVE IInv'  OBVIOUS
<1>1. CASE ~vector.signed \/ vector.salt = InvalidSalt
  BY <1>1, ReturnKeeps DEF CheckSalt
<1>2. CASE ~(~vector.signed \/ vector.salt = InvalidSalt)
  <2>1. /\ pc = "salt" /\ pc' = "chunks" /\ k' = 0 /\ ok' = ok
        /\ UNCHANGED <<vector, parts, labels, derived, verdicts, ret>>
    BY <1>2 DEF CheckSalt, Note, IInv, TypeOK
  <2>2. TypeOK'  BY <2>1 DEF IInv, TypeOK
  <2>3. Positions'
    <3>1. Len(Chunks) \in Nat  BY Shape DEF IInv, Positions, Chunks
    <3> QED  BY <2>1, <3>1 DEF IInv, Positions, Chunks
  <2>4. Assembly'
    <3>1. parts = << >> /\ labels = [l \in Labels |-> NoLabel] /\ ret # "True"
      BY <2>1 DEF IInv, Assembly, Positions
    <3>2. \A l \in Labels : Carriers(l, 0) = {}  BY DEF Carriers
    <3>3. AssembledAt(0)  BY <3>1, <3>2 DEF AssembledAt
    <3>4. AssembledAt(0)'  BY <2>1, <3>3, AssemblyFrame
    <3> QED  BY <2>1, <3>1, <3>4 DEF Assembly, Assembled, AssembledAt, Chunks
  <2>5. Used'  BY <2>1 DEF Used
  <2>6. Recorded'  BY <1>2, <2>1 DEF IInv, Recorded, Compared, Underway, Positions
  <2>7. Judged'  BY <2>1, JudgedFrame DEF IInv
  <2> QED  BY <2>2, <2>3, <2>4, <2>5, <2>6, <2>7 DEF IInv
<1> QED  BY <1>1, <1>2

LEMMA AssembleChunkKeeps ==
  IInv /\ AssembleChunk => IInv'
<1> SUFFICES ASSUME IInv, AssembleChunk PROVE IInv'  OBVIOUS
<1> DEFINE ev == Chunks[k + 1]
<1>1. /\ pc = "chunks" /\ pc' = "chunks" /\ k < Len(Chunks) /\ k' = k + 1
      /\ parts' = (IF ev.append THEN parts ELSE << >>) \o ev.parts
      /\ labels' = [l \in Labels |->
                      IF ev.labels[l].kept # "" THEN ev.labels[l] ELSE labels[l]]
      /\ ok' = (ok /\ ev.ids)
      /\ UNCHANGED <<vector, derived, verdicts, ret>>
  BY DEF AssembleChunk
<1>2. /\ k \in Nat /\ vector \in Vectors /\ parts \in Seq(Part) /\ ok \in BOOLEAN
      /\ labels \in [Labels -> Label] /\ ret # "True"
  BY <1>1 DEF IInv, TypeOK, Positions
<1>3. Len(Chunks) \in Nat /\ Chunks \in Seq(Chunk)
  BY <1>2, Shape DEF Chunks, IsVector
<1>k. k \in Nat /\ k < Len(Chunks) /\ k' = k + 1
  BY DEF AssembleChunk, IInv, TypeOK
<1>4. ev \in Chunk
  <2>1. k + 1 \in 1..Len(Chunks)  BY <1>k, <1>3
  <2> QED  BY <1>3, <2>1, ElementOfSeq
<1>5. /\ ev.ids \in BOOLEAN /\ ev.append \in BOOLEAN /\ ev.parts \in Seq(Part)
      /\ ev.labels \in [Labels -> Label]
  BY <1>4, ChunkType
<1> HIDE DEF ev
<1>6. TypeOK'
  <2>1. parts' \in Seq(Part)
    <3>1. (IF ev.append THEN parts ELSE << >>) \in Seq(Part)  BY <1>2
    <3> QED  BY <1>1, <1>5, <3>1, ConcatProperties
  <2>2. labels' \in [Labels -> Label]  BY <1>1, <1>2, <1>5
  <2>3. ok' \in BOOLEAN  BY <1>1, <1>2, <1>5
  <2>4. k' \in Nat  BY <1>k
  <2> QED  BY <1>1, <2>1, <2>2, <2>3, <2>4 DEF IInv, TypeOK
<1>7. Positions'
  <2>1. k + 1 <= Len(Chunks)  BY <1>k, <1>3
  <2> QED  BY <1>1, <2>1 DEF IInv, Positions, Chunks
<1>8. Assembly'
  <2>1. \E a \in 1..(k + 1) :
          Restarts(a, k + 1) /\ Concatenates(parts', Run(a, k + 1))
    BY <1>1, PartsOfOneMore DEF ev
  <2>2. \A l \in Labels :
          IF Carriers(l, k + 1) = {} THEN labels'[l] = NoLabel
          ELSE \E j \in Carriers(l, k + 1) :
                 /\ labels'[l] = Chunks[j].labels[l]
                 /\ \A m \in Carriers(l, k + 1) : m <= j
    <3> SUFFICES ASSUME NEW l \in Labels
                 PROVE  IF Carriers(l, k + 1) = {} THEN labels'[l] = NoLabel
                        ELSE \E j \in Carriers(l, k + 1) :
                               /\ labels'[l] = Chunks[j].labels[l]
                               /\ \A m \in Carriers(l, k + 1) : m <= j
      OBVIOUS
    <3>1. labels'[l] = IF ev.labels[l].kept # "" THEN ev.labels[l] ELSE labels[l]
      BY <1>1
    <3> QED  BY <1>1, <3>1, LabelOfOneMore DEF ev
  <2>3. k + 1 # 0  BY <1>k
  <2>4. AssembledAt(k)'
    BY <1>1, <2>1, <2>2, <2>3 DEF AssembledAt, Restarts, Run, Carriers, Chunks
  <2> QED  BY <1>1, <1>2, <2>4 DEF Assembly, Assembled
<1>9. Used'  BY <1>1 DEF Used
<1>10. Recorded'  BY <1>1, <1>2 DEF IInv, Recorded, Compared, Underway
<1>11. Judged'  BY <1>1, JudgedFrame DEF IInv
<1> QED  BY <1>6, <1>7, <1>8, <1>9, <1>10, <1>11 DEF IInv

LEMMA EndChunksKeeps ==
  IInv /\ EndChunks => IInv'
<1> SUFFICES ASSUME IInv, EndChunks PROVE IInv'  OBVIOUS
<1>1. CASE Undecodable(parts) \/ Chunks = << >>
  BY <1>1, ReturnKeeps DEF EndChunks
<1>2. CASE ~(Undecodable(parts) \/ Chunks = << >>)
  <2>1. /\ pc = "chunks" /\ k = Len(Chunks) /\ pc' = "record" /\ k' = 0
        /\ ok' = (ok /\ Chunks[k].lastChunk /\ Normalize(parts) = vector.assembled_parts)
        /\ UNCHANGED <<vector, parts, labels, derived, verdicts, ret>>
    BY <1>2 DEF EndChunks, Note
  <2>2. TypeOK'
    <3>1. ok' \in BOOLEAN
      BY <2>1, Zenon DEF IInv, TypeOK
    <3> QED  BY <2>1, <3>1 DEF IInv, TypeOK
  <2>3. Positions'  BY <2>1 DEF IInv, Positions
  <2>4. Assembly'
    <3>1. AssembledAt(Len(Chunks))  BY <2>1 DEF IInv, Assembly
    <3>2. AssembledAt(Len(Chunks))'  BY <2>1, <3>1, WholeFrame
    <3>3. (Chunks # << >>)'  BY <1>2, <2>1 DEF Chunks
    <3> QED  BY <2>1, <3>2, <3>3 DEF Assembly, Assembled
  <2>5. Used'  BY <2>1 DEF Used
  <2>6. Recorded'  BY <2>1 DEF IInv, Recorded, Compared, Underway, Positions
  <2>7. Judged'  BY <2>1, JudgedFrame DEF IInv
  <2> QED  BY <2>2, <2>3, <2>4, <2>5, <2>6, <2>7 DEF IInv
<1> QED  BY <1>1, <1>2

\* A stage that leaves the vector and the assembly alone.
LEMMA AssemblyStays ==
  ASSUME IInv, UNCHANGED <<vector, parts, labels>>, Assembled,
         pc' # "salt", pc' # "chunks"
  PROVE  Assembly'
<1>1. AssembledAt(Len(Chunks)) /\ Chunks # << >>  BY DEF IInv, Assembly
<1>2. AssembledAt(Len(Chunks))'  BY <1>1, WholeFrame
<1>3. (Chunks # << >>)'  BY <1>1 DEF Chunks
<1> QED  BY <1>2, <1>3 DEF Assembly

LEMMA CompareRecordKeeps ==
  IInv /\ CompareRecord => IInv'
<1> SUFFICES ASSUME IInv, CompareRecord PROVE IInv'  OBVIOUS
<1> DEFINE holds ==
      /\ \A h \in DOMAIN ComputedHashes : Record[h] = ComputedHashes[h]
      /\ Record.wellformed
      /\ Record.embedded = vector.embed
      /\ Record.salted \/ Record.embedded
      /\ \A l \in Labels : Record.labels[l] = labels[l].kept
<1>1. /\ pc = "record" /\ pc' = "derived" /\ k' = 0 /\ ok' = (ok /\ holds)
      /\ UNCHANGED <<vector, parts, labels, derived, verdicts, ret>>
  BY DEF CompareRecord, Note
<1>2. holds => RecordIsRight  BY DEF RecordIsRight
<1> HIDE DEF holds
<1>3. TypeOK'
  <2>1. ok' \in BOOLEAN  BY <1>1, Zenon DEF IInv, TypeOK
  <2> QED  BY <1>1, <2>1 DEF IInv, TypeOK
<1>4. Positions'
  <2>1. Len(vector.cited) \in Nat  BY Shape DEF IInv, Positions
  <2> QED  BY <1>1, <2>1 DEF IInv, Positions
<1>5. Assembly'  BY <1>1, AssemblyStays DEF Assembled
<1>6. Used'
  <2>1. derived = << >> /\ DerivedCap \in Nat
    BY <1>1, A2AAssumption DEF IInv, Positions
  <2>2. derived' = << >> /\ Len(<< >>) = 0 /\ DOMAIN << >> = {}  BY <1>1, <2>1
  <2>3. \A m \in 1..0 : FALSE  OBVIOUS
  <2>4. UsedAt(k)'  BY <1>1, <2>1, <2>2, <2>3 DEF UsedAt
  <2> QED  BY <1>1, <2>4 DEF Used
<1>7. Recorded'
  <2>1. RecordIsRight' <=> RecordIsRight  BY <1>1, RecordFrame
  <2>2. ok' => RecordIsRight'  BY <1>1, <1>2, <2>1, Zenon
  <2>3. vector'.salt # InvalidSalt /\ ret' # "True"
    BY <1>1 DEF IInv, Recorded, Underway, Positions
  <2> QED  BY <2>2, <2>3 DEF Recorded
<1>8. Judged'  BY <1>1, JudgedFrame DEF IInv
<1> QED  BY <1>3, <1>4, <1>5, <1>6, <1>7, <1>8 DEF IInv

LEMMA CiteInputKeeps ==
  IInv /\ CiteInput => IInv'
<1> SUFFICES ASSUME IInv, CiteInput PROVE IInv'  OBVIOUS
<1> DEFINE c == vector.cited[k + 1]
<1>1. /\ pc = "derived" /\ k < Len(vector.cited) /\ k' = k + 1
      /\ derived' = IF c \in vector.verified /\ ~Among(derived, c)
                         /\ Len(derived) < DerivedCap
                      THEN Append(derived, c) ELSE derived
      /\ UNCHANGED <<vector, pc, parts, labels, verdicts, ok, ret>>
  BY DEF CiteInput
<1>2. /\ k \in Nat /\ derived \in Seq(Inputs) /\ Len(vector.cited) \in Nat
      /\ vector.cited \in Seq(Inputs)
  BY Shape DEF IInv, TypeOK, Positions, IsVector
<1>k. k + 1 <= Len(vector.cited) /\ k + 1 \in 1..Len(vector.cited) /\ k + 1 # 0
      /\ k + 1 \in Nat
  BY <1>1, <1>2
<1>3. c \in Inputs  BY <1>2, <1>k, ElementOfSeq
<1>4. derived' \in Seq(Inputs)  BY <1>1, <1>2, <1>3, AppendProperties
<1>5. TypeOK'
  <2>1. k' \in Nat  BY <1>1, <1>k
  <2> QED  BY <1>1, <1>4, <2>1 DEF IInv, TypeOK
<1>6. Positions'  BY <1>1, <1>k DEF IInv, Positions
<1>7. Assembly'  BY <1>1, AssemblyStays DEF Assembled
<1>8. Used'  BY <1>1, UsedOneMore DEF Used
<1>9. Recorded'
  <2>1. RecordIsRight' <=> RecordIsRight  BY <1>1, RecordFrame
  <2> QED  BY <1>1, <2>1 DEF IInv, Recorded, Compared, Underway
<1>10. Judged'  BY <1>1, JudgedFrame DEF IInv
<1> QED  BY <1>5, <1>6, <1>7, <1>8, <1>9, <1>10 DEF IInv

LEMMA EndCitedKeeps ==
  IInv /\ EndCited => IInv'
<1> SUFFICES ASSUME IInv, EndCited PROVE IInv'  OBVIOUS
<1> DEFINE holds == derived = vector.derived_from /\ ~vector.wrong
<1>1. /\ pc = "derived" /\ k = Len(vector.cited) /\ pc' = "holders" /\ k' = 0
      /\ ok' = (ok /\ holds)
      /\ UNCHANGED <<vector, parts, labels, derived, verdicts, ret>>
  BY DEF EndCited, Note
<1> HIDE DEF holds
<1>2. TypeOK'
  <2>1. ok' \in BOOLEAN  BY <1>1, Zenon DEF IInv, TypeOK
  <2> QED  BY <1>1, <2>1 DEF IInv, TypeOK
<1>3. Positions'  BY <1>1 DEF IInv, Positions
<1>4. Assembly'  BY <1>1, AssemblyStays DEF Assembled
<1>5. Used'
  <2>1. UsedAt(k)  BY <1>1 DEF IInv, Used
  <2>2. UsedAt(Len(vector.cited))'
    BY <1>1, <2>1 DEF UsedAt, FirstCited, Among
  <2> QED  BY <1>1, <2>2 DEF Used
<1>6. Recorded'
  <2>1. RecordIsRight' <=> RecordIsRight  BY <1>1, RecordFrame
  <2>2. ok' => ok  BY <1>1, Zenon
  <2>3. ok => RecordIsRight  BY <1>1 DEF IInv, Recorded, Compared
  <2>4. ok' => RecordIsRight'  BY <2>1, <2>2, <2>3, Zenon
  <2>5. vector'.salt # InvalidSalt /\ ret' # "True"
    BY <1>1 DEF IInv, Recorded, Underway, Positions
  <2> QED  BY <2>4, <2>5 DEF Recorded
<1>7. Judged'  BY <1>1, JudgedFrame DEF IInv
<1> QED  BY <1>2, <1>3, <1>4, <1>5, <1>6, <1>7 DEF IInv

LEMMA VerdictType ==
  \A rec, h : HolderVerify(rec, h) \in Verdict
<1> SUFFICES ASSUME NEW rec, NEW h  PROVE HolderVerify(rec, h) \in Verdict
  OBVIOUS
<1> DEFINE verdict == HolderVerify(rec, h)
<1>1. \/ verdict = "link_mismatch" \/ verdict = "card_mismatch"
      \/ verdict = "record_invalid" \/ verdict = "salt_invalid"
      \/ verdict = "raised" \/ verdict = "parts_mismatch"
      \/ verdict = "artifact_id_mismatch" \/ verdict = "label_mismatch"
      \/ verdict = "role_mismatch" \/ verdict = "task_mismatch"
      \/ verdict = "context_mismatch" \/ verdict = "ok"
  BY ZenonT(60) DEF HolderVerify
<1> HIDE DEF verdict
<1>2. verdict \in Verdict  BY <1>1 DEF Verdict
<1> QED  BY <1>2 DEF verdict

LEMMA JudgeHolderKeeps ==
  IInv /\ JudgeHolder => IInv'
<1> SUFFICES ASSUME IInv, JudgeHolder PROVE IInv'  OBVIOUS
<1> DEFINE verdict == HolderVerify(Record, vector.holders[k + 1])
<1> HIDE DEF verdict
<1>1. CASE verdict = "raised"
  BY <1>1, ReturnKeeps DEF JudgeHolder, verdict
<1>2. CASE verdict # "raised"
  <2>1. /\ pc = "holders" /\ k < Len(vector.holders) /\ k' = k + 1
        /\ verdicts' = Append(verdicts, verdict)
        /\ UNCHANGED <<vector, pc, parts, labels, derived, ret>>
    BY <1>2 DEF JudgeHolder, verdict
  <2>2. ok' = (ok /\ verdict = vector.holders[k + 1].expected)
    BY <1>2 DEF JudgeHolder, verdict
  <2>3. /\ k \in Nat /\ k = Len(verdicts) /\ verdicts \in Seq(Verdict)
        /\ Len(vector.holders) \in Nat /\ ret # "True"
    BY <2>1, Shape DEF IInv, TypeOK, Positions
  <2>4. verdict \in Verdict  BY VerdictType DEF verdict
  <2>5. /\ verdicts' \in Seq(Verdict) /\ Len(verdicts') = k + 1
        /\ \A j \in 1..k : verdicts'[j] = verdicts[j]
        /\ verdicts'[k + 1] = verdict
    BY <2>1, <2>3, <2>4, AppendProperties
  <2>6. DOMAIN verdicts' = 1..(k + 1) /\ DOMAIN verdicts = 1..k
    BY <2>3, <2>5, LenProperties
  <2>7. TypeOK'
    <3>1. ok' \in BOOLEAN  BY <2>2, Zenon DEF IInv, TypeOK
    <3>2. Len(verdicts') \in 0..Len(vector.holders) /\ k' \in Nat
      BY <2>1, <2>3, <2>5
    <3> QED  BY <2>1, <2>5, <3>1, <3>2 DEF IInv, TypeOK
  <2>8. Positions'  BY <2>1, <2>5 DEF IInv, Positions
  <2>9. Assembly'  BY <2>1, AssemblyStays DEF Assembled
  <2>10. Used'
    <3>1. UsedAt(Len(vector.cited))  BY <2>1 DEF IInv, Used
    <3>2. UsedAt(Len(vector.cited))'  BY <2>1, <3>1, UsedFrame
    <3> QED  BY <2>1, <3>2 DEF Used
  <2>11. Recorded'
    <3>1. RecordIsRight' <=> RecordIsRight  BY <2>1, RecordFrame
    <3>2. ok' => ok  BY <2>2, Zenon
    <3> QED  BY <2>1, <2>3, <3>1, <3>2 DEF IInv, Recorded, Compared, Underway
  <2>12. Judged'
    <3>1. \A j \in 1..(k + 1) : j \in 1..k \/ j = k + 1  BY <2>3
    <3>2. Record' = Record /\ vector' = vector  BY <2>1 DEF Record
    <3>3. \A j \in 1..k : /\ verdicts'[j] = HolderVerify(Record, vector.holders[j])
                          /\ verdicts'[j] # "raised"
      BY <2>5, <2>6 DEF IInv, Judged
    <3>4. verdicts'[k + 1] = HolderVerify(Record, vector.holders[k + 1])
          /\ verdicts'[k + 1] # "raised"
      BY <1>2, <2>5 DEF verdict
    <3> QED  BY <2>6, <3>1, <3>2, <3>3, <3>4 DEF Judged
  <2> QED  BY <2>7, <2>8, <2>9, <2>10, <2>11, <2>12 DEF IInv
<1> QED  BY <1>1, <1>2

LEMMA EndHoldersKeeps ==
  IInv /\ EndHolders => IInv'
<1> SUFFICES ASSUME IInv, EndHolders PROVE IInv'  OBVIOUS
<1>1. CASE ok  BY <1>1, ReturnKeeps DEF EndHolders
<1>2. CASE ~ok  BY <1>2, ReturnKeeps DEF EndHolders
<1> QED  BY <1>1, <1>2

LEMMA StepIInv ==
  IInv /\ [Next]_vars => IInv'
<1> SUFFICES ASSUME IInv, [Next]_vars PROVE IInv'  OBVIOUS
<1>1. CASE UNCHANGED vars
  <2> USE <1>1 DEF vars
  <2>1. TypeOK' /\ Positions'  BY DEF IInv, TypeOK, Positions, Chunks
  <2>2. Assembly'
    <3>1. AssembledAt(k) => AssembledAt(k)'
      BY ZenonT(60) DEF AssembledAt, Restarts, Run, Carriers, Chunks
    <3>2. AssembledAt(Len(Chunks)) => AssembledAt(Len(Chunks))'  BY WholeFrame
    <3> QED  BY <3>1, <3>2 DEF IInv, Assembly, Assembled, Chunks
  <2>3. Used'
    <3>1. UsedAt(k) => UsedAt(k)'  BY DEF UsedAt, FirstCited, Among
    <3>2. UsedAt(Len(vector.cited)) => UsedAt(Len(vector.cited))'
      BY DEF UsedAt, FirstCited, Among
    <3> QED  BY <3>1, <3>2 DEF IInv, Used
  <2>4. Recorded'
    <3>1. RecordIsRight' <=> RecordIsRight  BY RecordFrame
    <3> QED  BY <3>1 DEF IInv, Recorded, Underway, Compared
  <2>5. Judged'  BY JudgedFrame DEF IInv
  <2> QED  BY <2>1, <2>2, <2>3, <2>4, <2>5 DEF IInv
<1>2. CASE CheckSalt  BY <1>2, CheckSaltKeeps
<1>3. CASE AssembleChunk  BY <1>3, AssembleChunkKeeps
<1>4. CASE EndChunks  BY <1>4, EndChunksKeeps
<1>5. CASE CompareRecord  BY <1>5, CompareRecordKeeps
<1>6. CASE CiteInput  BY <1>6, CiteInputKeeps
<1>7. CASE EndCited  BY <1>7, EndCitedKeeps
<1>8. CASE JudgeHolder  BY <1>8, JudgeHolderKeeps
<1>9. CASE EndHolders  BY <1>9, EndHoldersKeeps
<1> QED
  BY <1>1, <1>2, <1>3, <1>4, <1>5, <1>6, <1>7, <1>8, <1>9 DEF Next

(***************************************************************************)
(* What the invariant says of a call that has returned.                    *)
(***************************************************************************)

\* The hash of a record determines what was hashed.
LEMMA HashInjective ==
  \A s, t, x, y : Hash(s, x) = Hash(t, y) => s = t /\ x = y
BY DEF Hash

\* The parts assembled, as the holder of the artifact sees them.
LEMMA ContentsOfTheRun ==
  ASSUME IInv, Assembled
  PROVE  \E a \in DOMAIN Chunks :
           /\ Restarts(a, Len(Chunks))
           /\ Concatenates(Normalize(parts), Contained(a, Len(Chunks)))
<1> DEFINE n == Len(Chunks)
<1>1. /\ vector \in Vectors /\ parts \in Seq(Part)
      /\ AssembledAt(n) /\ Chunks # << >>
  BY DEF IInv, TypeOK, Positions, Assembly
<1>2. /\ Chunks \in Seq(Chunk) /\ n \in Nat /\ DOMAIN Chunks = 1..n
  BY <1>1, Shape DEF Chunks, IsVector
<1>3. n # 0  BY <1>1, <1>2, EmptySeq
<1>4. PICK a \in 1..n : Restarts(a, n) /\ Concatenates(parts, Run(a, n))
  BY <1>1, <1>3 DEF AssembledAt
<1>5. n \in 1..n  BY <1>2, <1>3
<1>6. /\ Run(a, n) \in Seq(Seq(Part)) /\ DOMAIN Run(a, n) = 1..(n - a + 1)
      /\ \A j \in DOMAIN Run(a, n) : Run(a, n)[j] = Chunks[a + j - 1].parts
  BY <1>1, <1>5, Runs
<1>7. Concatenates(Normalize(parts),
                   [j \in DOMAIN Run(a, n) |-> Normalize(Run(a, n)[j])])
  BY <1>1, <1>4, <1>6, NormalizedConcatenation
<1>8. Contained(a, n) = [j \in DOMAIN Run(a, n) |-> Normalize(Run(a, n)[j])]
  BY <1>6 DEF Contained
<1> QED  BY <1>2, <1>4, <1>7, <1>8

LEMMA OneRestart ==
  ASSUME NEW n \in Nat, NEW a, NEW b, Restarts(a, n), Restarts(b, n)
  PROVE  a = b
<1>1. a \in 1..n /\ b \in 1..n  BY DEF Restarts
<1>2. ~(a < b)
  <2> SUFFICES ASSUME a < b PROVE FALSE  OBVIOUS
  <2>1. b \in (a + 1)..n /\ b # 1  BY <1>1
  <2> QED  BY <2>1 DEF Restarts
<1>3. ~(b < a)
  <2> SUFFICES ASSUME b < a PROVE FALSE  OBVIOUS
  <2>1. a \in (b + 1)..n /\ a # 1  BY <1>1
  <2> QED  BY <2>1 DEF Restarts
<1> QED  BY <1>1, <1>2, <1>3

\* Whoever holds the same artifact holds the same contents in the same order.
LEMMA SameContents ==
  ASSUME IInv, Assembled, NEW held, held.parts \in Seq(Part), Same(held)
  PROVE  Normalize(held.parts) = Normalize(parts)
<1> DEFINE n == Len(Chunks)
<1>1. vector \in Vectors /\ parts \in Seq(Part)  BY DEF IInv, TypeOK, Positions
<1>2. n \in Nat /\ DOMAIN Chunks = 1..n  BY <1>1, Shape DEF Chunks
<1>3. PICK a \in DOMAIN Chunks :
        /\ Restarts(a, n)
        /\ Concatenates(Normalize(parts), Contained(a, n))
  BY ContentsOfTheRun
<1>4. PICK b \in DOMAIN Chunks :
        /\ Restarts(b, n)
        /\ Concatenates(Normalize(held.parts), Contained(b, n))
  BY DEF Same
<1>5. a = b  BY <1>2, <1>3, <1>4, OneRestart
<1>6. Contained(a, n) \in Seq(Seq(Contents))
  <2>1. a \in 1..n /\ n \in 1..n  BY <1>2, <1>3
  <2>2. /\ Run(a, n) \in Seq(Seq(Part)) /\ DOMAIN Run(a, n) = 1..(n - a + 1)
        /\ \A j \in DOMAIN Run(a, n) : Run(a, n)[j] = Chunks[a + j - 1].parts
    BY <1>1, <2>1, Runs
  <2>3. \A j \in 1..(n - a + 1) : Chunks[a + j - 1].parts \in Seq(Part)
    BY <2>2, LenProperties, ElementOfSeq
  <2>4. Contained(a, n) \in [1..(n - a + 1) -> Seq(Contents)]
    BY <2>3, NormalizeType DEF Contained
  <2>5. n - a + 1 \in Nat  BY <2>1, <1>2
  <2> QED  BY <2>4, <2>5
<1>7. /\ Normalize(parts) \in Seq(Contents)
      /\ Normalize(held.parts) \in Seq(Contents)
  BY <1>1, NormalizeType
<1> QED  BY <1>3, <1>4, <1>5, <1>6, <1>7, OneConcatenation

LEMMA PositionIsFirst ==
  ASSUME vector \in Vectors, NEW p, NEW x, FirstCited(p, x)
  PROVE  Position(x) = p
<1>1. DOMAIN vector.cited = 1..Len(vector.cited) /\ Len(vector.cited) \in Nat
  BY Shape
<1>2. ASSUME NEW q \in DOMAIN vector.cited, vector.cited[q] = x,
             \A m \in 1..(q - 1) : vector.cited[m] # x
      PROVE  q = p
  <2>1. p \in Nat /\ q \in Nat /\ p >= 1 /\ q >= 1  BY <1>1 DEF FirstCited
  <2>2. ~(p < q)  BY <1>2, <2>1 DEF FirstCited
  <2>3. ~(q < p)  BY <1>2, <2>1 DEF FirstCited
  <2> QED  BY <2>1, <2>2, <2>3
<1>3. /\ p \in DOMAIN vector.cited /\ vector.cited[p] = x
      /\ \A m \in 1..(p - 1) : vector.cited[m] # x
  BY DEF FirstCited
<1> QED  BY <1>2, <1>3 DEF Position

LEMMA IInvAssembly ==
  IInv => AssemblyIsLastRun
<1> SUFFICES ASSUME IInv PROVE AssemblyIsLastRun  OBVIOUS
<1>1. TypeOK  BY DEF IInv
<1>2. Assembling => AssembledAt(Dealt)
  BY DEF IInv, Assembly, Assembled, Assembling, Dealt
<1> QED  BY <1>1, <1>2 DEF AssemblyIsLastRun, AssembledAt

LEMMA IInvDerived ==
  IInv => DerivedIsWhatWasUsed
<1> SUFFICES ASSUME IInv, pc = "holders"
             PROVE  /\ Len(derived) <= DerivedCap
                    /\ \A a \in DOMAIN derived :
                         /\ derived[a] \in vector.verified
                         /\ Among(vector.cited, derived[a])
                         /\ \A b \in 1..(a - 1) :
                              Position(derived[b]) < Position(derived[a])
                    /\ Len(derived) < DerivedCap =>
                         \A x \in vector.verified :
                           Among(vector.cited, x) => Among(derived, x)
  BY DEF DerivedIsWhatWasUsed
<1> DEFINE n == Len(vector.cited)
<1>1. vector \in Vectors /\ derived \in Seq(Inputs) /\ UsedAt(n)
  BY DEF IInv, TypeOK, Positions, Used
<1>2. n \in Nat /\ DOMAIN vector.cited = 1..n  BY <1>1, Shape
<1>3. Len(derived) \in Nat /\ DOMAIN derived = 1..Len(derived)
  BY <1>1, LenProperties
<1>4. \A a \in DOMAIN derived : \E p \in 1..n : FirstCited(p, derived[a])
  BY <1>1 DEF UsedAt
<1>5. ASSUME NEW a \in DOMAIN derived  PROVE Among(vector.cited, derived[a])
  BY <1>2, <1>4 DEF FirstCited, Among
<1>6. ASSUME NEW a \in DOMAIN derived, NEW b \in 1..(a - 1)
      PROVE  Position(derived[b]) < Position(derived[a])
  <2>1. b \in DOMAIN derived  BY <1>3
  <2>2. PICK p \in 1..n : FirstCited(p, derived[b])  BY <1>4, <2>1
  <2>3. PICK q \in 1..n : FirstCited(q, derived[a])  BY <1>4
  <2>4. p < q  BY <1>1, <2>2, <2>3 DEF UsedAt
  <2>5. Position(derived[b]) = p /\ Position(derived[a]) = q
    BY <1>1, <2>2, <2>3, PositionIsFirst
  <2> QED  BY <2>4, <2>5
<1>7. ASSUME Len(derived) < DerivedCap, NEW x \in vector.verified,
             Among(vector.cited, x)
      PROVE  Among(derived, x)
  <2>1. PICK m \in 1..n : vector.cited[m] = x  BY <1>2, <1>7 DEF Among
  <2> QED  BY <1>1, <1>7, <2>1 DEF UsedAt
<1>8. /\ Len(derived) <= DerivedCap
      /\ \A a \in DOMAIN derived : derived[a] \in vector.verified
  BY <1>1 DEF UsedAt
<1> QED  BY <1>5, <1>6, <1>7, <1>8

\* What the record says when the call returned "True".
LEMMA RecordOfTrue ==
  ASSUME IInv, ret = "True"
  PROVE  /\ RecordIsRight /\ Assembled /\ vector \in Vectors
         /\ vector.salt # InvalidSalt
         /\ Record.parts_hash = Hash(PartsSalt, Normalize(parts))
         /\ Record.artifact_id_hash = Hash(vector.salt, Chunks[1].artifactId)
         /\ Record.task_id_hash = Hash(vector.salt, vector.task_id)
         /\ Record.context_id_hash = Hash(vector.salt, vector.context_id)
<1>1. RecordIsRight /\ Assembled /\ vector \in Vectors /\ vector.salt # InvalidSalt
  BY DEF IInv, Positions, Recorded, Underway, Compared, Assembled
<1>2. DOMAIN ComputedHashes
        = {"parts_hash", "artifact_id_hash", "task_id_hash", "context_id_hash"}
  BY DEF ComputedHashes
<1>3. /\ Record["parts_hash"] = ComputedHashes["parts_hash"]
      /\ Record["artifact_id_hash"] = ComputedHashes["artifact_id_hash"]
      /\ Record["task_id_hash"] = ComputedHashes["task_id_hash"]
      /\ Record["context_id_hash"] = ComputedHashes["context_id_hash"]
  BY <1>1, <1>2, Zenon DEF RecordIsRight
<1> QED  BY <1>1, <1>3 DEF ComputedHashes

LEMMA IInvOnlyTheArtifact ==
  IInv => HolderAcceptsOnlyTheArtifact
<1> SUFFICES ASSUME IInv, ret = "True", NEW j \in DOMAIN verdicts, verdicts[j] = "ok"
             PROVE  LET h == vector.holders[j]
                    IN  /\ h.held.linked /\ h.card # "wrong"
                        /\ h.held.salt = vector.salt
                        /\ Same(h.held)
                        /\ \A l \in Labels : labels[l].kept # "" =>
                             h.held.labels[l].kept = labels[l].kept
                        /\ h.task \in {"", vector.task_id}
                        /\ h.context \in {"", vector.context_id}
  BY DEF HolderAcceptsOnlyTheArtifact
<1> DEFINE h == vector.holders[j]
<1>1. HolderVerify(Record, h) = "ok"  BY DEF IInv, Judged
<1> HIDE DEF h
<1>2. /\ h.held.linked /\ h.card # "wrong"
      /\ Hash(IF Record.salted THEN h.held.salt ELSE Unsalted, Normalize(h.held.parts))
           = Record.parts_hash
      /\ Hash(h.held.salt, h.held.artifactId) = Record.artifact_id_hash
      /\ ~LabelMismatch(Record, h.held)
      /\ h.task = "" \/ Hash(h.held.salt, h.task) = Record.task_id_hash
      /\ h.context = "" \/ Hash(h.held.salt, h.context) = Record.context_id_hash
  BY <1>1, ZenonT(60) DEF HolderVerify
<1>3. /\ RecordIsRight /\ Assembled
      /\ Record.parts_hash = Hash(PartsSalt, Normalize(parts))
      /\ Record.artifact_id_hash = Hash(vector.salt, Chunks[1].artifactId)
      /\ Record.task_id_hash = Hash(vector.salt, vector.task_id)
      /\ Record.context_id_hash = Hash(vector.salt, vector.context_id)
  BY RecordOfTrue
<1>4. h.held.salt = vector.salt /\ h.held.artifactId = Chunks[1].artifactId
  <2>1. Hash(h.held.salt, h.held.artifactId) = Hash(vector.salt, Chunks[1].artifactId)
    BY <1>2, <1>3, Zenon
  <2> QED  BY <2>1, HashInjective
<1>5. Normalize(h.held.parts) = Normalize(parts)
  <2>1. Hash(IF Record.salted THEN h.held.salt ELSE Unsalted, Normalize(h.held.parts))
          = Hash(PartsSalt, Normalize(parts))
    BY <1>2, <1>3, Zenon
  <2> QED  BY <2>1, HashInjective
<1>6. Same(h.held)
  <2>1. PICK a \in DOMAIN Chunks :
          /\ Restarts(a, Len(Chunks))
          /\ Concatenates(Normalize(parts), Contained(a, Len(Chunks)))
    BY <1>3, ContentsOfTheRun
  <2> QED  BY <1>4, <1>5, <2>1, Zenon DEF Same
<1>7. ASSUME NEW l \in Labels, labels[l].kept # ""
      PROVE  h.held.labels[l].kept = labels[l].kept
  <2>1. Record.labels[l] = labels[l].kept  BY <1>3 DEF RecordIsRight
  <2> QED  BY <1>2, <1>7, <2>1, Zenon DEF LabelMismatch
<1>8. h.task \in {"", vector.task_id}
  <2>1. CASE h.task = ""  BY <2>1, Zenon
  <2>2. CASE h.task # ""
    <3>1. Hash(h.held.salt, h.task) = Hash(vector.salt, vector.task_id)
      BY <1>2, <1>3, <2>2, Zenon
    <3>2. h.task = vector.task_id  BY <3>1, HashInjective
    <3> QED  BY <3>2, Zenon
  <2> QED  BY <2>1, <2>2
<1>9. h.context \in {"", vector.context_id}
  <2>1. CASE h.context = ""  BY <2>1, Zenon
  <2>2. CASE h.context # ""
    <3>1. Hash(h.held.salt, h.context) = Hash(vector.salt, vector.context_id)
      BY <1>2, <1>3, <2>2, Zenon
    <3>2. h.context = vector.context_id  BY <3>1, HashInjective
    <3> QED  BY <3>2, Zenon
  <2> QED  BY <2>1, <2>2
<1> QED  BY <1>2, <1>4, <1>6, <1>7, <1>8, <1>9, Zenon DEF h

LEMMA JudgedHolder ==
  ASSUME IInv, NEW j \in DOMAIN verdicts
  PROVE  vector.holders[j].held.parts \in Seq(Part)
<1>1. /\ vector.holders \in Seq(Holder) /\ Len(vector.holders) \in Nat
      /\ verdicts \in Seq(Verdict) /\ Len(verdicts) \in 0..Len(vector.holders)
  BY Shape DEF IInv, TypeOK, Positions, IsVector
<1>2. j \in 1..Len(verdicts)  BY <1>1, LenProperties
<1>3. j \in 1..Len(vector.holders)  BY <1>1, <1>2
<1> QED  BY <1>1, <1>3, ElementOfSeq, HolderType

LEMMA IInvTheArtifact ==
  IInv => HolderAcceptsTheArtifact
<1> SUFFICES ASSUME IInv, ret = "True", NEW j \in DOMAIN verdicts,
                    vector.holders[j].held.linked, vector.holders[j].card # "wrong",
                    vector.holders[j].held.salt = vector.salt,
                    Same(vector.holders[j].held),
                    \A l \in Labels :
                      vector.holders[j].held.labels[l].kept = labels[l].kept,
                    \/ Record.role = ""
                    \/ Record.role = Role(vector.holders[j].held.role),
                    vector.holders[j].task \in {"", vector.task_id},
                    vector.holders[j].context \in {"", vector.context_id}
             PROVE  verdicts[j] = "ok"
  BY Zenon DEF HolderAcceptsTheArtifact
<1> DEFINE h == vector.holders[j]
<1>1. /\ verdicts[j] = HolderVerify(Record, h)
      /\ HolderVerify(Record, h) # "raised"
  BY DEF IInv, Judged
<1>2. /\ RecordIsRight /\ Assembled /\ vector \in Vectors
      /\ vector.salt # InvalidSalt
      /\ Record.parts_hash = Hash(PartsSalt, Normalize(parts))
      /\ Record.artifact_id_hash = Hash(vector.salt, Chunks[1].artifactId)
      /\ Record.task_id_hash = Hash(vector.salt, vector.task_id)
      /\ Record.context_id_hash = Hash(vector.salt, vector.context_id)
  BY RecordOfTrue
<1>3. h.held.parts \in Seq(Part)  BY JudgedHolder
<1>4. Normalize(h.held.parts) = Normalize(parts)
  BY <1>2, <1>3, SameContents
<1>5. h.held.artifactId = Chunks[1].artifactId  BY DEF Same
<1>6. /\ Record.wellformed /\ (Record.salted \/ Record.embedded)
      /\ ~LabelMismatch(Record, h.held)
  BY <1>2, Zenon DEF RecordIsRight, LabelMismatch
<1>7. Hash(IF Record.salted THEN h.held.salt ELSE Unsalted, Normalize(h.held.parts))
        = Record.parts_hash
  BY <1>2, <1>4, Zenon DEF PartsSalt
<1>8. Hash(h.held.salt, h.held.artifactId) = Record.artifact_id_hash
  BY <1>2, <1>5
<1>9. /\ h.task = "" \/ Hash(h.held.salt, h.task) = Record.task_id_hash
      /\ h.context = "" \/ Hash(h.held.salt, h.context) = Record.context_id_hash
  BY <1>2, Zenon
<1>10. /\ h.held.linked /\ h.card # "wrong" /\ h.held.salt # InvalidSalt
       /\ Record.role = "" \/ Record.role = Role(h.held.role)
  BY <1>2, Zenon
<1> HIDE DEF h
<1>11. HolderVerify(Record, h) = "ok" \/ HolderVerify(Record, h) = "raised"
  BY <1>6, <1>7, <1>8, <1>9, <1>10, ZenonT(60) DEF HolderVerify
<1> QED  BY <1>1, <1>11, Zenon

(***************************************************************************)
(* The theorems.                                                           *)
(***************************************************************************)

LEMMA AlwaysIInv ==
  Spec => []IInv
BY StartIInv, StepIInv, PTL DEF Spec

\* Chunks, labels, inputs and verdicts keep their types, and there are never
\* more verdicts than holders.
THEOREM TypeCorrect ==
  Spec => []TypeOK
<1>1. IInv => TypeOK  BY DEF IInv
<1> QED  BY <1>1, AlwaysIInv, PTL

\* At every moment of the loop of chunks and after it (1504-1518), the parts
\* are the concatenation of the chunks dealt with since the last restart, and
\* each label is that of the last chunk that carries one.
THEOREM AssemblyCorrect ==
  Spec => []AssemblyIsLastRun
BY AlwaysIInv, IInvAssembly, PTL

\* derived_from (1570-1577) lists what was cited and verified, once, in the
\* order of first citation, and leaves something out at the cap only.
THEOREM DerivedCorrect ==
  Spec => []DerivedIsWhatWasUsed
BY AlwaysIInv, IInvDerived, PTL

\* No holder of anything but the published artifact is told "ok" (1452-1486)
\* by a vector that passes.
THEOREM OnlyTheArtifact ==
  Spec => []HolderAcceptsOnlyTheArtifact
BY AlwaysIInv, IInvOnlyTheArtifact, PTL

\* Every holder of the published artifact is told "ok" by a vector that
\* passes, in whatever form it received the parts.
THEOREM TheArtifact ==
  Spec => []HolderAcceptsTheArtifact
BY AlwaysIInv, IInvTheArtifact, PTL
=============================================================================
