---------------------------- MODULE MCPlayLoop ----------------------------
(* A small quest for PlayLoop: a question with a gift and a hint, and a      *)
(* finale with a gift, or with a place to confirm in between.                *)
EXTENDS PlayLoop

CONSTANTS right, wrong, magic, thanks, broken

Step(template, accept, gift, hint, nav) ==
  [template |-> template, accept |-> accept, gift |-> gift, hint |-> hint, nav |-> nav]

Question == Step("answer", {right}, 3, 4, FALSE)
Place    == Step("physical", {}, 2, None, TRUE)
Finale   == Step("finale", {}, 7, None, FALSE)

LongQuest  == (0 :> Step("next", {}, None, None, FALSE)) @@ (1 :> Question)
                @@ (2 :> Place) @@ (3 :> Finale)

\* The platform serves no universal answer, or one.
Served == {{magic}}
=============================================================================
