--------------------------- MODULE ToolArguments ----------------------------
(***************************************************************************)
(* The walk of scripts/conformance-runner.py through the arguments of a    *)
(* tool call (_mcp_derived_from), and what it should find.                 *)
(***************************************************************************)
EXTENDS Naturals, SequencesExt

CONSTANT MaxDerived    \* the cap on derived_from: 1000 in the code

\* The value of a call's argument: [kind, text, items, keys], kind "string",
\* "list" or "object" (keys the rank of each member in the order of JCS).
Node(kind, text, items, keys) ==
  [kind |-> kind, text |-> text, items |-> items, keys |-> keys]

\* Members in the order of their names.
Members(value) ==
  LET order == SetToSortSeq(DOMAIN value.items,
                            LAMBDA i, j : value.keys[i] < value.keys[j])
  IN  [i \in DOMAIN order |-> value.items[order[i]]]

\* _mcp_derived_from: every string other than "text" is a context identifier.
RECURSIVE DerivedFrom(_, _)
DerivedFrom(value, out) ==
  IF value.kind = "string"
    THEN IF value.text # "text" /\ ~Contains(out, value.text) /\ Len(out) < MaxDerived
           THEN Append(out, value.text) ELSE out
    ELSE FoldLeft(LAMBDA found, item : DerivedFrom(item, found), out,
                  IF value.kind = "object" THEN Members(value) ELSE value.items)

Derive(tree) == DerivedFrom(tree, << >>)

\* The identifiers that occur in the arguments of a call, each where it
\* occurs first when the members of an object are visited by name.
RECURSIVE Places(_, _)
Places(value, path) ==
  IF value.kind = "string" THEN {<<path, value.text>>}
  ELSE UNION {Places(value.items[i],
                     Append(path, IF value.kind = "object" THEN value.keys[i] ELSE i)) :
              i \in DOMAIN value.items}

Before(p, q) ==
  \E n \in DOMAIN p \cap DOMAIN q :
    p[n] < q[n] /\ \A m \in 1..(n - 1) : p[m] = q[m]

FirstSeen(tree) ==
  LET places == {p \in Places(tree, << >>) : p[2] # "text"}
      first == {p \in places : \A q \in places :
                  q[2] = p[2] => q = p \/ Before(p[1], q[1])}
      order == SetToSortSeq(first, LAMBDA p, q : Before(p[1], q[1]))
  IN  [i \in 1..(IF Len(order) < MaxDerived THEN Len(order) ELSE MaxDerived) |->
         order[i][2]]
=============================================================================
