--------------------------- MODULE MCPublishing ---------------------------
(* Small instances of Publishing for TLC. *)
EXTENDS Publishing, TLC

CONSTANTS q1, root, ed, op, r1, r2, a, b

\* An admin, an editor and the operator's token.
MCRoles    == root :> "admin" @@ ed :> "editor" @@ op :> "ops"
MCUploads  == {a, b, None}
MCSymmetry == Permutations({r1, r2})

Row(status) == [author |-> ed, status |-> status, text |-> a, inline |-> TRUE, stamp |-> 0]
Version1(s) == [x \in {q1} \X {1, 2} |-> IF x[2] = 1 THEN s ELSE None]
Full        == Version1([text |-> a, inline |-> TRUE])
Empty       == Version1([text |-> None, inline |-> FALSE])
World(row, listing, stored) ==
  [rows |-> q1 :> row, listings |-> q1 :> listing, snaps |-> stored]

\* A draft never published; a quest on sale; one that was published without a row; and
\* one published without content.
MCWorlds ==
  {World(Row("draft"), None, Version1(None)),
   World(Row("published"), [ver |-> 1, inline |-> TRUE], Full),
   World(None, [ver |-> 1, inline |-> TRUE], Full),
   World(Row("published"), [ver |-> 1, inline |-> FALSE], Empty)}
=============================================================================
