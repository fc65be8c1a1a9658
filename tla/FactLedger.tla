----------------------------- MODULE FactLedger -----------------------------
(***************************************************************************)
(* What offline play promises, without tabs, requests or retries: an       *)
(* attempt is of one player for good; what is recorded in it stays         *)
(* recorded; the server files nothing else, keeps what it files, and       *)
(* awards a player a once-ever kind with one fact; and a record is         *)
(* confirmed, for good, when it is filed or its bonus is already held.     *)
(* PlaySync implements this module.                                        *)
(***************************************************************************)
CONSTANTS Users, Attempts, Facts, Once, None

VARIABLES
  owner,    \* attempt -> its player, None before it begins
  record,   \* attempt -> fact -> "none", "pending" or "sent"
  filed,    \* attempt -> the facts of it that the server keeps
  awards    \* <<player, once-ever kind>> pairs

vars == <<owner, record, filed, awards>>

Awarded(k, x) == x.kind \in Once /\ <<owner[k], x.kind>> \in awards

Init ==
  /\ owner = [k \in Attempts |-> None]
  /\ record = [k \in Attempts |-> [x \in Facts |-> "none"]]
  /\ filed = [k \in Attempts |-> {}]
  /\ awards = {}

Begin(k, u) ==
  /\ owner[k] = None
  /\ owner' = [owner EXCEPT ![k] = u]
  /\ UNCHANGED <<record, filed, awards>>

Note(k, x) ==
  /\ owner[k] # None /\ record[k][x] = "none"
  /\ record' = [record EXCEPT ![k][x] = "pending"]
  /\ UNCHANGED <<owner, filed, awards>>

\* Facts of the attempt are filed together with the bonuses they award.
File(k, new) ==
  /\ owner[k] # None
  /\ \A x \in new : record[k][x] # "none" /\ ~Awarded(k, x)
  /\ \A x, y \in new : x.kind = y.kind /\ x.kind \in Once => x = y
  /\ filed' = [filed EXCEPT ![k] = @ \cup new]
  /\ awards' = awards \cup {<<owner[k], x.kind>> : x \in {y \in new : y.kind \in Once}}
  /\ UNCHANGED <<owner, record>>

Confirm(k, done) ==
  /\ \A x \in done : record[k][x] = "pending" /\ (x \in filed[k] \/ Awarded(k, x))
  /\ record' = [record EXCEPT ![k] = [x \in Facts |-> IF x \in done THEN "sent" ELSE @[x]]]
  /\ UNCHANGED <<owner, filed, awards>>

Next ==
  \E k \in Attempts :
    \/ \E u \in Users : Begin(k, u)
    \/ \E x \in Facts : Note(k, x)
    \/ \E facts \in SUBSET Facts : File(k, facts) \/ Confirm(k, facts)

Spec == Init /\ [][Next]_vars
=============================================================================
