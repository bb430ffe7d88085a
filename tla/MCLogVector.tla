---------------------------- MODULE MCLogVector ----------------------------
(***************************************************************************)
(* LogVector on vectors over trees of at most MaxSize leaves that are      *)
(* golden but for at most one pin, on every proof of those trees, and on   *)
(* vectors with up to two members that are wrong or cannot be read: which  *)
(* of the two is met first decides between False and an exception.         *)
(***************************************************************************)
EXTENDS LogVector

CONSTANT MaxSize

\* The members of log-001 and log-003 the check reads, by their names there.
LeafPins == {"root_hash", "empty_tree_root_hash", "checkpoint_canonical_form",
             "checkpoint_hash", "signature_value_hex",
             "signature_value_base64", "log_checkpoint"}
ConsistencyPins == {"first_root_hash", "second_root_hash",
  "first_checkpoint_canonical_form", "first_checkpoint_hash",
  "first_signature_value_base64", "second_checkpoint_canonical_form",
  "second_checkpoint_hash", "second_signature_value_base64"}

\* All pins right, one of them wrong, or no pins.
PinMaps(names) ==
  {[name \in names |-> IF name = odd THEN "wrong" ELSE "right"] :
     odd \in names \cup {"-"}} \cup {[name \in {} |-> "right"]}

RightPins(names) == [name \in names |-> "right"]
AllGood(n) == [k \in 1..n |-> TRUE]
Hashes(n) == [k \in 1..n |-> <<k>>]

Base(branch, n, pins, proof) ==
  [branch |-> branch, leaves |-> AllGood(n), key |-> "right", version |-> TRUE,
   rooted |-> {"first", "second"}, pins |-> pins, proof |-> proof,
   unreadable |-> {}]

NoProof == [present |-> FALSE, m |-> 0, n |-> 0, path |-> << >>]
LeafProof == [present |-> TRUE, m |-> 1, n |-> 3, path |-> PATH(1, Hashes(3))]
SmallProof ==
  [present |-> TRUE, m |-> 2, n |-> 3, path |-> ConsistencyProof(2, Hashes(3))]

InclusionProofs(n) ==
  LET paths == {PATH(m, Hashes(n)) : m \in 0..(n - 1)} \cup {<< >>, <<<<0>>>>}
  IN  [present : {TRUE}, m : 0..n, n : 0..(n + 1), path : paths]

ConsistencyProofs(n) ==
  LET paths == {ConsistencyProof(m, Hashes(k)) :
                  <<m, k>> \in {p \in (1..n) \X (1..n) : p[1] <= p[2]}}
               \cup {<<<<0>>>>}
  IN  [present : {TRUE}, m : 0..n, n : 0..(n + 1), path : paths]

LeafVectors ==
  UNION {{Base("leaves", n, RightPins(LeafPins), proof) :
            proof \in InclusionProofs(n)} : n \in 1..MaxSize}
  \cup {Base("leaves", n, pins, NoProof) :
          n \in 0..MaxSize, pins \in PinMaps(LeafPins)}

ConsistencyVectors ==
  UNION {{Base("consistency", n, RightPins(ConsistencyPins), proof) :
            proof \in ConsistencyProofs(n)} : n \in 1..MaxSize}
  \cup {Base("consistency", 3, pins, SmallProof) :
          pins \in PinMaps(ConsistencyPins)}

Members == {"producer_key", "log_inclusion", "leaf_hashes", "tree_sizes",
            "first_root", "second_root", "consistency_path"}

\* One of the members is wrong or cannot be read.
Defective(v) ==
  {[v EXCEPT !.key = value] : value \in {"absent", "wrong", "malformed"}}
  \cup {[v EXCEPT !.version = FALSE], [v EXCEPT !.branch = "neither"]}
  \cup {[v EXCEPT !.rooted = v.rooted \ {which}] : which \in {"first", "second"}}
  \cup {[v EXCEPT !.unreadable = v.unreadable \cup {name}] : name \in Members}
  \cup {[v EXCEPT !.pins[name] = "wrong"] : name \in DOMAIN v.pins}
  \cup {[v EXCEPT !.leaves[k] = FALSE] : k \in DOMAIN v.leaves}

Cases ==
  LeafVectors \cup ConsistencyVectors
  \cup UNION {Defective(v) \cup UNION {Defective(w) : w \in Defective(v)} :
         v \in {Base("leaves", MaxSize, RightPins(LeafPins), NoProof),
                Base("leaves", 3, RightPins(LeafPins), LeafProof),
                Base("consistency", 3, RightPins(ConsistencyPins), SmallProof)}}
=============================================================================
