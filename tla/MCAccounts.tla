---------------------------- MODULE MCAccounts ----------------------------
(* Small instances of Accounts for TLC. *)
EXTENDS Accounts, TLC

CONSTANTS u1, u2, e1, e2, gg, tg, r1, r2, k1, k2

MCMethodOf == gg :> "google" @@ tg :> "telegram"
MCSymmetry == Permutations({r1, r2}) \cup Permutations({k1, k2})

World(account, keyed, linked) ==
  [users |-> u1 :> account @@ u2 :> None,
   secrets |-> IF keyed THEN {u1} ELSE {},
   links |-> [s \in {gg, tg} |-> IF linked THEN u1 ELSE None]]

\* Two devices; an account with a password, confirmed or not; one that two providers
\* open and that has no address.
MCWorlds ==
  {World(None, FALSE, FALSE),
   World([email |-> e1, confirmed |-> TRUE], TRUE, FALSE),
   World([email |-> e1, confirmed |-> FALSE], TRUE, FALSE),
   World([email |-> None, confirmed |-> FALSE], FALSE, TRUE)}
=============================================================================
