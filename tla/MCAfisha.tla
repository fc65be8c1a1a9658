------------------------------ MODULE MCAfisha ------------------------------
(* Small instances of Afisha for TLC. *)
EXTENDS Afisha, TLC

CONSTANTS full, vague, soon, over, walk, a1

MCWhen  == full :> soon @@ vague :> None
MCKinds == full :> walk @@ vague :> walk

Post(text, own) == [text |-> text, own |-> own, photo |-> FALSE]
Pictured        == [text |-> full, own |-> TRUE, photo |-> TRUE]

\* An own event, with or without a picture, one without a date, a post of no walk.
MCPosts == {Post(full, TRUE), Pictured, Post(vague, TRUE), Post(full, FALSE)}
FewPosts == {Post(full, TRUE), Post(full, FALSE)}
\* The last one clears the kind.
MCForms == {[kind |-> walk, when |-> soon], [kind |-> walk, when |-> over],
            [kind |-> None, when |-> soon]}

FewForms == {[kind |-> walk, when |-> soon]}

Event(status, kind, when) ==
  [status |-> status, kind |-> kind, when |-> when, edited |-> {}, image |-> FALSE,
   own |-> TRUE, text |-> full]

World(posts, stored) ==
  [channel |-> [p \in Posts |-> IF p <= posts THEN Post(full, TRUE) ELSE None],
   events  |-> [p \in Posts |-> IF p = 1 THEN stored ELSE None]]

\* Nothing read yet; the first post on the site; one of before, not filed.
MCWorlds == {World(1, None), World(1, Event("published", walk, soon)),
             World(2, Event("published", walk, soon)), World(1, Event("untagged", None, soon))}
=============================================================================
