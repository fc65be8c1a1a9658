---------------------------- MODULE AccountsProofs ----------------------------
(***************************************************************************)
(* Proofs about module Accounts, for every number of ids, addresses,       *)
(* subjects, keys and concurrent requests.                                 *)
(*                                                                         *)
(* That an address opens one account and that nothing outlives an account  *)
(* follows from the tables alone.  That what is confirmed was proved does  *)
(* not: a key is mailed, followed and acted on in steps far apart, and the *)
(* address may move in between.  Sure says what a handler at a call still  *)
(* knows, KeyOK what a mailed key stands for.  That the latest mail wins   *)
(* rests on Snapshots: what a transaction does not delete it was told of.  *)
(***************************************************************************)
EXTENDS Accounts, FiniteSetTheorems, TLAPS

Lived(u) == users[u] # None \/ u \in gone
Alive(u) == users[u] # None /\ u \notin gone

\* What a handler holds at call l.
Knows(l, j) ==
  /\ l \notin {"idle", "match", "find", "consume", "whose"} => j.who \in Ids
  /\ l \in {"insert", "match", "byemail", "attach", "find", "mail", "issue",
            "whose", "replace", "free"} => j.mail \in Emails
  /\ l \in {"identity", "byemail", "claim", "again", "create", "bare", "link", "owner", "attach",
            "unlink"} => j.subject \in Subjects
  /\ l \in {"mail", "issue"} => j.key \in TokenKinds
  /\ l = "insert" => j.kind = "register"
  /\ l \notin {"idle", "insert", "session", "mail", "issue"} => j.kind # "register"
  /\ l = "session" /\ j.kind = "register" => j.mail \in Emails /\ j.key = "confirm"
  /\ l = "record" => j.kind \in {"email", "password"}
  /\ l = "record" /\ j.kind = "email" => j.mail \in Emails
  /\ l = "consume" => j.kind \in {"reset", "confirm"}

\* It is about to mail a key.
Mailing(r) == pc[r] \in {"mail", "issue"} \/ (pc[r] = "session" /\ job[r].kind = "register")
\* A mailed key brought it here.
Proving(r) == pc[r] = "confirm" \/ (pc[r] = "secret" /\ job[r].kind # "password")

\* The calls at which a handler holds an account it once found.
Held == {"code", "secret", "confirm", "replace", "record", "free"}

\* What the handler of request r may still rely on.
Sure(r) ==
  LET u == job[r].who
  IN /\ pc[r] \in Held \/ Mailing(r) => Lived(u)
     /\ Mailing(r) /\ job[r].key # "email_change" /\ Alive(u)
          => <<"email", u>> \in moved[r] \/ job[r].mail = users[u].email
     /\ Proving(r) /\ Alive(u) => <<u, users[u].email>> \in proofs
     /\ pc[r] = "replace" => <<u, job[r].mail>> \in proofs

\* What a mailed key stands for, while its account lives.
KeyOK(t) ==
  LET k == tokens[t]
  IN k # None =>
       /\ Lived(k.user)
       /\ k.kind = "email_change" => k.payload = k.to
       /\ k.kind # "email_change" /\ Alive(k.user)
            => /\ k.to = users[k.user].email \/ users[k.user].confirmed
               /\ ~k.used => k.late \/ k.to = users[k.user].email

Keys == \A t \in Tokens : KeyOK(t)

\* An address that moved was proved by its move.
MovedOK ==
  \A r \in Requests, u \in Ids :
    <<"email", u>> \in moved[r] => Lived(u) /\ (Alive(u) => users[u].confirmed)

IInv ==
  /\ TypeOK /\ IndexAgrees /\ NoOrphans /\ ConfirmedIsProved /\ MovedOK /\ Keys
  /\ \A r \in Requests : Knows(pc[r], job[r]) /\ Sure(r)

-----------------------------------------------------------------------------
(* Frames.                                                                  *)

\* Accounts that live keep what was proved; their address changes only to a proved one.
Lasting ==
  /\ proofs \subseteq proofs'
  /\ \A u \in Ids : Lived(u) => Lived(u)'
  /\ \A u \in Ids : Lived(u) /\ Alive(u)' =>
       /\ Alive(u)
       /\ users[u].confirmed => users'[u].confirmed
       /\ \/ users'[u].email = users[u].email
          \/ users'[u].confirmed /\ <<u, users'[u].email>> \in proofs'

\* Who looked is told of an address that moved.
Noted(s) ==
  /\ moved[s] \subseteq moved'[s]
  /\ \A u \in Ids : Alive(u) /\ Alive(u)'
       => \/ users'[u].email = users[u].email \/ users[u].email = None
          \/ <<"email", u>> \in moved'[s]

LEMMA SureFrame ==
  ASSUME NEW s \in Requests, Knows(pc[s], job[s]), Sure(s), Lasting, Noted(s),
         pc'[s] = pc[s], job'[s] = job[s]
  PROVE  Sure(s)'
<1>1. CASE ~Mailing(s) /\ pc[s] \notin Held
  BY <1>1 DEF Sure, Mailing, Proving, Held
<1>2. CASE Mailing(s) \/ pc[s] \in Held
  <2>1. PICK u \in Ids : u = job[s].who
    BY <1>2 DEF Knows, Mailing, Held
  <2>2. Lived(u) /\ Lived(u)'
    BY <1>2, <2>1 DEF Sure, Lasting
  <2>3. Mailing(s) => job[s].mail \in Emails
    BY DEF Knows, Mailing
  <2>4. Mailing(s) /\ job[s].key # "email_change" /\ Alive(u)'
          => <<"email", u>> \in moved'[s] \/ job[s].mail = users'[u].email
    <3> SUFFICES ASSUME Mailing(s), job[s].key # "email_change", Alive(u)'
                 PROVE  <<"email", u>> \in moved'[s] \/ job[s].mail = users'[u].email
      OBVIOUS
    <3>1. Alive(u)
      BY <2>2 DEF Lasting
    <3>2. <<"email", u>> \in moved[s] \/ job[s].mail = users[u].email
      BY <2>1, <3>1 DEF Sure
    <3> QED BY <2>3, <3>1, <3>2, NoneAssumption DEF Noted
  <2>5. Proving(s) /\ Alive(u)' => <<u, users'[u].email>> \in proofs'
    <3> SUFFICES ASSUME Proving(s), Alive(u)' PROVE <<u, users'[u].email>> \in proofs'
      OBVIOUS
    <3>1. Alive(u)
      BY <2>2 DEF Lasting
    <3>2. <<u, users[u].email>> \in proofs
      BY <2>1, <3>1 DEF Sure
    <3> QED BY <2>2, <3>2 DEF Lasting
  <2>6. pc[s] = "replace" => <<u, job[s].mail>> \in proofs'
    BY <2>1 DEF Sure, Lasting
  <2>7. Mailing(s)' = Mailing(s) /\ Proving(s)' = Proving(s)
    BY DEF Mailing, Proving
  <2> QED BY <2>1, <2>2, <2>4, <2>5, <2>6, <2>7 DEF Sure, Alive, Lived
<1> QED BY <1>1, <1>2

\* A key goes, or is used, spent or expired; it is never about something else.
KeptKey(t) ==
  tokens'[t] # None =>
    /\ tokens[t] # None
    /\ tokens'[t].user = tokens[t].user /\ tokens'[t].kind = tokens[t].kind
    /\ tokens'[t].payload = tokens[t].payload /\ tokens'[t].to = tokens[t].to
    /\ tokens'[t].late = tokens[t].late
    /\ ~tokens'[t].used => /\ ~tokens[t].used
                           /\ \/ ~Alive(tokens[t].user)
                              \/ users'[tokens[t].user] = users[tokens[t].user]
                              \/ users[tokens[t].user].email = None
                              \/ users'[tokens[t].user].email = users[tokens[t].user].email

LEMMA KeyFrame ==
  ASSUME IInv, NEW t \in Tokens, Lasting, KeptKey(t)
  PROVE  KeyOK(t)'
<1> SUFFICES ASSUME tokens'[t] # None PROVE KeyOK(t)'
  BY DEF KeyOK
<1>1. tokens[t] # None /\ tokens[t] \in TokenType
  BY DEF IInv, TypeOK, KeptKey
<1>2. PICK u \in Ids, e \in Emails : u = tokens[t].user /\ e = tokens[t].to
  BY <1>1 DEF TokenType
<1>3. KeyOK(t) /\ u = tokens'[t].user /\ e = tokens'[t].to
  BY <1>2 DEF IInv, Keys, KeptKey
<1>4. Lived(u) /\ Lived(u)'
  BY <1>1, <1>2, <1>3 DEF KeyOK, Lasting
<1>5. e # None
  BY NoneAssumption
<1>6. ASSUME Alive(u)', tokens'[t].kind # "email_change"
      PROVE  /\ e = users'[u].email \/ users'[u].confirmed
             /\ ~tokens'[t].used => tokens'[t].late \/ e = users'[u].email
  <2>1. Alive(u)
    BY <1>4, <1>6 DEF Lasting
  <2>2. /\ e = users[u].email \/ users[u].confirmed
        /\ ~tokens[t].used => tokens[t].late \/ e = users[u].email
    BY <1>1, <1>2, <1>3, <1>6, <2>1 DEF KeyOK, KeptKey
  <2>3. e = users'[u].email \/ users'[u].confirmed
    BY <1>4, <1>6, <2>1, <2>2 DEF Lasting
  <2>4. ~tokens'[t].used => tokens'[t].late \/ e = users'[u].email
    BY <1>2, <1>5, <2>1, <2>2 DEF KeptKey
  <2> QED BY <2>3, <2>4
<1>7. tokens'[t].kind = "email_change" => tokens'[t].payload = e
  BY <1>1, <1>2, <1>3 DEF KeyOK, KeptKey
<1> QED BY <1>3, <1>4, <1>6, <1>7 DEF KeyOK, Alive, Lived

LEMMA KeysFrame ==
  ASSUME IInv, Lasting, \A t \in Tokens : KeptKey(t)
  PROVE  Keys'
BY KeyFrame DEF Keys

\* Where the handler of r stands after its step, and that no other moved.
LEMMA Moves ==
  ASSUME TypeOK, NEW r \in Requests, NEW label, NEW j, GoWith(r, label, j)
  PROVE  /\ pc'[r] = label /\ job'[r] = j
         /\ \A s \in Requests \ {r} : pc'[s] = pc[s] /\ job'[s] = job[s]
BY DEF TypeOK, GoWith

\* What a step of r has to show.
LEMMA StepKeeps ==
  ASSUME IInv, NEW r \in Requests, NEW label, NEW j, GoWith(r, label, j),
         TypeOK', IndexAgrees', NoOrphans', ConfirmedIsProved', MovedOK', Keys', Lasting,
         \A s \in Requests \ {r} : Noted(s), Knows(label, j), Sure(r)'
  PROVE  IInv'
<1>1. pc'[r] = label /\ job'[r] = j
  BY Moves DEF IInv
<1>2. ASSUME NEW s \in Requests \ {r} PROVE Knows(pc'[s], job'[s]) /\ Sure(s)'
  <2>1. pc'[s] = pc[s] /\ job'[s] = job[s] /\ Knows(pc[s], job[s])
    BY Moves DEF IInv
  <2>2. Sure(s)'
    BY <2>1, SureFrame DEF IInv
  <2> QED BY <2>1, <2>2
<1> QED BY <1>1, <1>2 DEF IInv

-----------------------------------------------------------------------------
(* Steps that leave the accounts' rows alone.                               *)

\* Handlers are told of links at most; who looks anew forgets.
QuietMoved(r) ==
  /\ moved' \in [Requests -> SUBSET Notes]
  /\ \A s \in Requests \ {r} : moved[s] \subseteq moved'[s]
  /\ \A s \in Requests, u \in Ids : <<"email", u>> \in moved'[s] => <<"email", u>> \in moved[s]

LEMMA RowsStand ==
  ASSUME IInv, NEW r, QuietMoved(r), UNCHANGED <<users, index, gone>>, proofs \subseteq proofs'
  PROVE  /\ IndexAgrees' /\ ConfirmedIsProved' /\ MovedOK' /\ Lasting
         /\ \A s \in Requests \ {r} : Noted(s)
<1>1. \A u \in Ids : Lived(u)' = Lived(u) /\ Alive(u)' = Alive(u)
  BY DEF Lived, Alive
<1>2. IndexAgrees'
  BY DEF IInv, IndexAgrees
<1>3. ConfirmedIsProved'
  BY DEF IInv, ConfirmedIsProved
<1>4. MovedOK'
  BY <1>1 DEF IInv, MovedOK, QuietMoved
<1>5. Lasting
  BY <1>1 DEF Lasting
<1>6. \A s \in Requests \ {r} : Noted(s)
  BY DEF Noted, QuietMoved
<1> QED BY <1>2, <1>3, <1>4, <1>5, <1>6

LEMMA QuietStep ==
  ASSUME IInv, NEW r \in Requests, NEW label \in Calls, NEW j \in JobType, GoWith(r, label, j),
         UNCHANGED <<users, index, gone>>, QuietMoved(r),
         secrets' \subseteq Ids, sessions' \subseteq Ids, links' \in [Subjects -> Ids \cup {None}],
         tokens' \in [Tokens -> TokenType \cup {None}],
         proofs \subseteq proofs', proofs' \subseteq Ids \X Emails,
         started' \in Nat, aborts' \in Nat,
         NoOrphans', Keys', Knows(label, j), Sure(r)'
  PROVE  IInv'
<1>1. TypeOK'
  BY DEF IInv, TypeOK, GoWith, QuietMoved
<1> QED BY <1>1, RowsStand, StepKeeps

\* The handler moves, and nothing else of note.
LEMMA LookStep ==
  ASSUME IInv, NEW r \in Requests, NEW label \in Calls, NEW j \in JobType, GoWith(r, label, j),
         UNCHANGED store, moved' = moved \/ Looking(r), started' \in Nat, aborts' \in Nat,
         Knows(label, j), Sure(r)'
  PROVE  IInv'
<1>1. UNCHANGED <<users, index, secrets, links, sessions, tokens, proofs, gone>>
  BY DEF store
<1>2. QuietMoved(r)
  BY DEF QuietMoved, Looking, IInv, TypeOK
<1>3. NoOrphans'
  BY <1>1 DEF IInv, NoOrphans
<1>4. Keys'
  <2>1. \A t \in Tokens : KeptKey(t)
    BY <1>1 DEF KeptKey
  <2> QED BY <1>1, <1>2, <2>1, RowsStand, KeysFrame
<1> QED BY <1>1, <1>2, <1>3, <1>4, QuietStep DEF IInv, TypeOK

LEMMA Idle == NoJob \in JobType /\ "idle" \in Calls /\ \A j : Knows("idle", j)
BY DEF NoJob, JobType, Calls, Knows

LEMMA IdleSure ==
  ASSUME IInv, NEW r \in Requests, Done(r)
  PROVE  Sure(r)'
<1>1. pc'[r] = "idle"
  BY Moves DEF Done, IInv
<1> QED BY <1>1 DEF Sure, Mailing, Proving, Held

\* A handler that ends, or dies.
LEMMA EndStep ==
  ASSUME IInv, NEW r \in Requests, Done(r), UNCHANGED store, moved' = moved \/ Looking(r),
         started' \in Nat, aborts' \in Nat
  PROVE  IInv'
BY Idle, IdleSure, LookStep DEF Done

\* The calls at which a handler relies on nothing that can change.
Free == {"insert", "match", "identity", "byemail", "claim", "again", "create", "bare", "link",
         "owner", "attach", "ways", "unlink", "find", "consume", "whose", "delete"}

LEMMA FreeSure ==
  ASSUME IInv, NEW r \in Requests, NEW label, NEW j, GoWith(r, label, j),
         label \in Free \/ (label = "session" /\ j.kind # "register")
  PROVE  Sure(r)'
<1>1. pc'[r] = label /\ job'[r] = j
  BY Moves DEF IInv
<1> QED BY <1>1 DEF Sure, Mailing, Proving, Free, Held

-----------------------------------------------------------------------------
(* Steps that only look.                                                    *)

LEMMA LookFree ==
  ASSUME IInv, NEW r \in Requests, NEW label \in Free, NEW j \in JobType, GoWith(r, label, j),
         UNCHANGED store, moved' = moved \/ Looking(r), started' \in Nat, aborts' \in Nat,
         Knows(label, j)
  PROVE  IInv'
<1>1. label \in Calls
  BY DEF Free, Calls
<1> QED BY <1>1, FreeSure, LookStep

LEMMA ToSession ==
  ASSUME IInv, NEW r \in Requests, NEW j \in JobType, GoWith(r, "session", j),
         UNCHANGED store, moved' = moved, started' \in Nat, aborts' \in Nat,
         j.who \in Ids, j.kind # "register"
  PROVE  IInv'
<1>1. "session" \in Calls /\ Knows("session", j)
  BY DEF Calls, Knows
<1> QED BY <1>1, FreeSure, LookStep

LEMMA MatchKeeps ==
  ASSUME IInv, NEW r \in Requests, Match(r)
  PROVE  IInv'
<1>1. job[r] \in JobType /\ job[r].kind # "register" /\ started \in Nat /\ aborts \in Nat
  BY DEF IInv, TypeOK, Match, Knows
<1>2. UNCHANGED store /\ UNCHANGED <<moved, started, aborts>>
  BY DEF Match, store
<1>3. CASE Done(r)
  BY <1>1, <1>2, <1>3, EndStep
<1>4. ASSUME NEW u \in Ids, GoWith(r, "session", [job[r] EXCEPT !.who = u])
      PROVE  IInv'
  <2>1. [job[r] EXCEPT !.who = u] \in JobType /\ [job[r] EXCEPT !.who = u].who = u
        /\ [job[r] EXCEPT !.who = u].kind # "register"
    BY <1>1 DEF JobType
  <2> QED BY <1>1, <1>2, <1>4, <2>1, ToSession
<1> QED BY <1>3, <1>4 DEF Match, IInv, TypeOK

LEMMA FindIdentityKeeps ==
  ASSUME IInv, NEW r \in Requests, FindIdentity(r)
  PROVE  IInv'
<1>1. /\ job[r] \in JobType /\ started \in Nat /\ aborts \in Nat
      /\ Knows("identity", job[r])
  BY DEF IInv, TypeOK, FindIdentity
<1>2. UNCHANGED store /\ UNCHANGED <<moved, started, aborts>>
  BY DEF FindIdentity, store
<1>3. CASE Done(r)
  BY <1>1, <1>2, <1>3, EndStep
<1>4. ASSUME NEW u \in Ids, GoWith(r, "session", [job[r] EXCEPT !.who = u])
      PROVE  IInv'
  <2>1. [job[r] EXCEPT !.who = u] \in JobType /\ [job[r] EXCEPT !.who = u].who = u
        /\ [job[r] EXCEPT !.who = u].kind # "register"
    BY <1>1 DEF JobType, Knows
  <2> QED BY <1>1, <1>2, <1>4, <2>1, ToSession
<1>5. ASSUME NEW label \in {"link", "claim"}, Go(r, label)
      PROVE  IInv'
  <2>1. Knows(label, job[r]) /\ label \in Free
    BY <1>1 DEF Knows, Free
  <2> QED BY <1>1, <1>2, <1>5, <2>1, LookFree DEF Go
<1>6. CASE job[r].mail # None /\ Go(r, "byemail")
  <2>1. Knows("byemail", job[r]) /\ "byemail" \in Free
    BY <1>1, <1>6 DEF Knows, Free, JobType
  <2> QED BY <1>1, <1>2, <1>6, <2>1, LookFree DEF Go
<1>7. links[job[r].subject] \in Ids \cup {None}
  BY <1>1 DEF Knows, IInv, TypeOK
<1> QED BY <1>3, <1>4, <1>5, <1>6, <1>7 DEF FindIdentity

LEMMA FindByEmailKeeps ==
  ASSUME IInv, NEW r \in Requests, FindByEmail(r)
  PROVE  IInv'
<1>1. /\ job[r] \in JobType /\ started \in Nat /\ aborts \in Nat
      /\ Knows("byemail", job[r])
  BY DEF IInv, TypeOK, FindByEmail
<1>2. UNCHANGED store /\ UNCHANGED <<moved, started, aborts>>
  BY DEF FindByEmail, store
<1>3. ASSUME NEW u \in Ids, GoWith(r, "link", [job[r] EXCEPT !.who = u])
      PROVE  IInv'
  <2>1. [job[r] EXCEPT !.who = u] \in JobType /\ Knows("link", [job[r] EXCEPT !.who = u])
        /\ "link" \in Free
    BY <1>1 DEF JobType, Knows, Free
  <2> QED BY <1>1, <1>2, <1>3, <2>1, LookFree
<1>4. CASE Go(r, "claim")
  <2>1. Knows("claim", job[r]) /\ "claim" \in Free
    BY <1>1 DEF Knows, Free
  <2> QED BY <1>1, <1>2, <1>4, <2>1, LookFree DEF Go
<1>5. find_by_email(job[r].mail) \in Ids \cup {None}
  BY <1>1 DEF find_by_email, Knows, IInv, TypeOK
<1> QED BY <1>3, <1>4, <1>5 DEF FindByEmail

LEMMA ClaimKeeps ==
  ASSUME IInv, NEW r \in Requests, Claim(r) \/ Again(r) \/ LinkOwner(r)
  PROVE  IInv'
<1>1. /\ job[r] \in JobType /\ started \in Nat /\ aborts \in Nat
      /\ Knows(pc[r], job[r]) /\ pc[r] \in {"claim", "again", "owner"}
  BY DEF IInv, TypeOK, Claim, Again, LinkOwner
<1>2. UNCHANGED store /\ UNCHANGED <<moved, started, aborts>>
  BY DEF Claim, Again, LinkOwner, store
<1>3. CASE Done(r)
  BY <1>1, <1>2, <1>3, EndStep
<1>4. ASSUME NEW label \in {"again", "create", "link"}, Go(r, label)
      PROVE  IInv'
  <2>1. Knows(label, job[r]) /\ label \in Free
    BY <1>1 DEF Knows, Free
  <2> QED BY <1>1, <1>2, <1>4, <2>1, LookFree DEF Go
<1>5. CASE job[r].mail # None /\ Go(r, "attach")
  <2>1. Knows("attach", job[r]) /\ "attach" \in Free
    BY <1>1, <1>5 DEF Knows, Free, JobType
  <2> QED BY <1>1, <1>2, <1>5, <2>1, LookFree DEF Go
<1>6. CASE Go(r, "session")
  BY <1>1, <1>2, <1>6, ToSession DEF Go, Knows
<1> QED BY <1>3, <1>4, <1>5, <1>6 DEF Claim, Again, LinkOwner, AfterLink

LEMMA CountWaysKeeps ==
  ASSUME IInv, NEW r \in Requests, CountWays(r)
  PROVE  IInv'
<1>1. /\ job[r] \in JobType /\ started \in Nat /\ aborts \in Nat
      /\ Knows("ways", job[r])
  BY DEF IInv, TypeOK, CountWays
<1>2. UNCHANGED store /\ Looking(r) /\ UNCHANGED <<started, aborts>>
  BY DEF CountWays
<1>3. CASE Done(r)
  BY <1>1, <1>2, <1>3, EndStep
<1>4. ASSUME NEW s \in Subjects, GoWith(r, "unlink", [job[r] EXCEPT !.subject = s])
      PROVE  IInv'
  <2>1. [job[r] EXCEPT !.subject = s] \in JobType /\ Knows("unlink", [job[r] EXCEPT !.subject = s])
        /\ "unlink" \in Free
    BY <1>1 DEF JobType, Knows, Free
  <2> QED BY <1>1, <1>2, <1>4, <2>1, LookFree
<1> QED BY <1>3, <1>4 DEF CountWays

LEMMA FindForRecoveryKeeps ==
  ASSUME IInv, NEW r \in Requests, FindForRecovery(r)
  PROVE  IInv'
<1>1. /\ job[r] \in JobType /\ started \in Nat /\ aborts \in Nat
      /\ Knows("find", job[r])
  BY DEF IInv, TypeOK, FindForRecovery
<1>2. UNCHANGED store /\ Looking(r) /\ UNCHANGED <<started, aborts>>
  BY DEF FindForRecovery
<1>3. CASE Done(r)
  BY <1>1, <1>2, <1>3, EndStep
<1>4. ASSUME NEW u \in Ids, NEW key \in {"reset", "confirm"}, u = index[job[r].mail],
             GoWith(r, "mail", [job[r] EXCEPT !.who = u, !.key = key])
      PROVE  IInv'
  <2> DEFINE j == [job[r] EXCEPT !.who = u, !.key = key]
  <2>1. j \in JobType /\ "mail" \in Calls /\ Knows("mail", j) /\ j.who = u /\ j.mail = job[r].mail
    BY <1>1 DEF JobType, Calls, Knows, TokenKinds
  <2>2. users[u] # None /\ users[u].email = j.mail
    BY <1>1, <1>4, <2>1 DEF IInv, IndexAgrees, Knows
  <2>3. pc'[r] = "mail" /\ job'[r] = j
    BY <1>4, Moves DEF IInv
  <2> HIDE DEF j
  <2>4. Sure(r)'
    BY <1>2, <2>1, <2>2, <2>3 DEF Sure, Mailing, Proving, Lived, Alive, Held, store
  <2> QED BY <1>1, <1>2, <1>4, <2>1, <2>4, LookStep DEF j
<1>5. find_by_email(job[r].mail) \in Ids \cup {None}
  BY <1>1 DEF find_by_email, Knows, IInv, TypeOK
<1> QED BY <1>3, <1>4, <1>5 DEF FindForRecovery, find_by_email

LEMMA FindForCodeKeeps ==
  ASSUME IInv, NEW r \in Requests, FindForCode(r)
  PROVE  IInv'
<1>1. /\ job[r] \in JobType /\ started \in Nat /\ aborts \in Nat
      /\ Knows("whose", job[r])
  BY DEF IInv, TypeOK, FindForCode
<1>2. UNCHANGED store /\ UNCHANGED <<moved, started, aborts>>
  BY DEF FindForCode
<1>3. CASE Done(r)
  BY <1>1, <1>2, <1>3, EndStep
<1>4. ASSUME NEW u \in Ids, u = index[job[r].mail],
             GoWith(r, "code", [job[r] EXCEPT !.who = u])
      PROVE  IInv'
  <2> DEFINE j == [job[r] EXCEPT !.who = u]
  <2>1. j \in JobType /\ "code" \in Calls /\ Knows("code", j) /\ j.who = u
    BY <1>1 DEF JobType, Calls, Knows
  <2>2. users[u] # None
    BY <1>1, <1>4 DEF IInv, IndexAgrees, Knows
  <2>3. pc'[r] = "code" /\ job'[r] = j
    BY <1>4, Moves DEF IInv
  <2> HIDE DEF j
  <2>4. Sure(r)'
    BY <1>2, <2>1, <2>2, <2>3 DEF Sure, Mailing, Proving, Lived, Held, store
  <2> QED BY <1>1, <1>2, <1>4, <2>1, <2>4, LookStep DEF j
<1>5. find_by_email(job[r].mail) \in Ids \cup {None}
  BY <1>1 DEF find_by_email, Knows, IInv, TypeOK
<1> QED BY <1>3, <1>4, <1>5 DEF FindForCode, find_by_email

LEMMA CheckSecretKeeps ==
  ASSUME IInv, NEW r \in Requests, CheckSecret(r)
  PROVE  IInv'
<1>1. /\ job[r] \in JobType /\ started \in Nat /\ aborts \in Nat
      /\ Knows("record", job[r]) /\ pc[r] = "record" /\ Sure(r)
  BY DEF IInv, TypeOK, CheckSecret
<1>2. UNCHANGED store /\ UNCHANGED <<moved, started, aborts>>
  BY DEF CheckSecret
<1>3. CASE Done(r)
  BY <1>1, <1>2, <1>3, EndStep
<1>4. Lived(job[r].who)
  BY <1>1 DEF Sure, Held
<1>5. ASSUME job[r].kind = "email", Go(r, "free")
      PROVE  IInv'
  <2>1. Knows("free", job[r]) /\ "free" \in Calls
    BY <1>1, <1>5 DEF Knows, Calls
  <2>2. pc'[r] = "free" /\ job'[r] = job[r]
    BY <1>5, Moves DEF Go, IInv
  <2>3. Sure(r)'
    BY <1>2, <1>4, <2>2 DEF Sure, Mailing, Proving, Lived, Held, store
  <2> QED BY <1>1, <1>2, <1>5, <2>1, <2>3, LookStep DEF Go
<1>6. ASSUME job[r].kind = "password", Go(r, "secret")
      PROVE  IInv'
  <2>1. Knows("secret", job[r]) /\ "secret" \in Calls
    BY <1>1, <1>6 DEF Knows, Calls
  <2>2. pc'[r] = "secret" /\ job'[r] = job[r]
    BY <1>6, Moves DEF Go, IInv
  <2>3. Sure(r)'
    BY <1>2, <1>4, <1>6, <2>2 DEF Sure, Mailing, Proving, Lived, Held, store
  <2> QED BY <1>1, <1>2, <1>6, <2>1, <2>3, LookStep DEF Go
<1>7. job[r].kind \in {"email", "password"}
  BY <1>1 DEF Knows
<1> QED BY <1>3, <1>5, <1>6, <1>7 DEF CheckSecret

LEMMA AddressFreeKeeps ==
  ASSUME IInv, NEW r \in Requests, AddressFree(r)
  PROVE  IInv'
<1>1. /\ job[r] \in JobType /\ started \in Nat /\ aborts \in Nat
      /\ Knows("free", job[r]) /\ pc[r] = "free" /\ Sure(r)
  BY DEF IInv, TypeOK, AddressFree
<1>2. UNCHANGED store /\ UNCHANGED <<moved, started, aborts>>
  BY DEF AddressFree
<1>3. CASE Done(r)
  BY <1>1, <1>2, <1>3, EndStep
<1>4. CASE GoWith(r, "mail", [job[r] EXCEPT !.key = "email_change"])
  <2> DEFINE j == [job[r] EXCEPT !.key = "email_change"]
  <2>1. /\ j \in JobType /\ "mail" \in Calls /\ Knows("mail", j)
        /\ j.who = job[r].who /\ j.key = "email_change"
    BY <1>1 DEF JobType, Calls, Knows, TokenKinds
  <2>2. Lived(j.who)
    BY <1>1, <2>1 DEF Sure, Held
  <2>3. pc'[r] = "mail" /\ job'[r] = j
    BY <1>4, Moves DEF IInv
  <2> HIDE DEF j
  <2>4. Sure(r)'
    BY <1>2, <2>1, <2>2, <2>3 DEF Sure, Mailing, Proving, Lived, Held, store
  <2> QED BY <1>1, <1>2, <1>4, <2>1, <2>4, LookStep DEF j
<1> QED BY <1>3, <1>4 DEF AddressFree

LEMMA AbortKeeps ==
  ASSUME IInv, NEW r \in Requests, Abort(r)
  PROVE  IInv'
BY EndStep DEF Abort, IInv, TypeOK

-----------------------------------------------------------------------------
(* The start of a request.                                                  *)

LEMMA BeginStep ==
  ASSUME IInv, NEW r \in Requests, NEW j \in JobType, NEW label \in Calls,
         label = FirstCall[j.kind], Begin(r, j), Knows(label, j),
         label \notin Free => Sure(r)'
  PROVE  IInv'
<1>1. GoWith(r, label, j) /\ UNCHANGED store /\ Looking(r)
  BY DEF Begin, store
<1>2. started' \in Nat /\ aborts' \in Nat
  BY DEF Begin, IInv, TypeOK
<1>3. Sure(r)'
  BY <1>1, FreeSure
<1> QED BY <1>1, <1>2, <1>3, LookStep

\* Where a request starts.
LEMMA FirstCalls ==
  /\ FirstCall["register"] = "insert" /\ FirstCall["login"] = "match"
  /\ FirstCall["social"] = "identity" /\ FirstCall["unlink"] = "ways"
  /\ FirstCall["recover"] = "find" /\ FirstCall["reset"] = "consume"
  /\ FirstCall["code"] = "whose" /\ FirstCall["confirm"] = "consume"
  /\ FirstCall["email"] = "record" /\ FirstCall["resend"] = "mail"
  /\ FirstCall["password"] = "record" /\ FirstCall["delete"] = "delete"
BY DEF FirstCall

\* A live session is of an account.
LEMMA SessionLives ==
  ASSUME IInv, NEW u \in sessions
  PROVE  u \in Ids /\ users[u] # None /\ users[u] \in UserType
BY DEF IInv, TypeOK, NoOrphans

LEMMA StartKeeps ==
  ASSUME IInv, NEW r \in Requests, Start(r)
  PROVE  IInv'
<1>1. ASSUME NEW d \in Ids, NEW e \in Emails, BeginAt(r, d, [For("register") EXCEPT !.mail = e])
      PROVE  IInv'
  <2> DEFINE j == [[For("register") EXCEPT !.mail = e] EXCEPT !.who = d]
  <2>1. j \in JobType /\ j.kind = "register" /\ j.who = d /\ j.mail = e
    BY DEF For, NoJob, JobType, Kinds
  <2>2. Begin(r, j)
    BY <1>1 DEF BeginAt
  <2> HIDE DEF j
  <2>3. Knows("insert", j) /\ "insert" \in Calls /\ "insert" \in Free
    BY <2>1 DEF Knows, Calls, Free
  <2> QED BY <2>1, <2>2, <2>3, FirstCalls, BeginStep
<1>2. ASSUME NEW e \in Emails, NEW kind \in {"login", "recover", "code"},
             Begin(r, [For(kind) EXCEPT !.mail = e])
      PROVE  IInv'
  <2> DEFINE j == [For(kind) EXCEPT !.mail = e]
  <2>1. j \in JobType /\ j.kind = kind /\ j.mail = e
    BY DEF For, NoJob, JobType, Kinds
  <2>2. Begin(r, j)
    BY <1>2
  <2> HIDE DEF j
  <2>3. \A l \in {"match", "find", "whose"} : Knows(l, j) /\ l \in Calls /\ l \in Free
    BY <2>1 DEF Knows, Calls, Free
  <2>4. FirstCall[j.kind] \in {"match", "find", "whose"}
    BY <2>1, FirstCalls
  <2> QED BY <2>1, <2>2, <2>3, <2>4, BeginStep
<1>3. ASSUME NEW kind \in {"reset", "confirm"}, Begin(r, For(kind))
      PROVE  IInv'
  <2> DEFINE j == For(kind)
  <2>1. j \in JobType /\ j.kind = kind
    BY DEF For, NoJob, JobType, Kinds
  <2>2. Begin(r, j)
    BY <1>3
  <2> HIDE DEF j
  <2>3. Knows("consume", j) /\ "consume" \in Calls /\ "consume" \in Free
    BY <2>1 DEF Knows, Calls, Free
  <2>4. FirstCall[j.kind] = "consume"
    BY <2>1, FirstCalls
  <2> QED BY <2>1, <2>2, <2>3, <2>4, BeginStep
<1>4. ASSUME NEW j \in JobType, j.kind = "social", j.subject \in Subjects, j.who \in Ids,
             Begin(r, j)
      PROVE  IInv'
  <2>1. Knows("identity", j) /\ "identity" \in Calls /\ "identity" \in Free
    BY <1>4 DEF Knows, Calls, Free
  <2> QED BY <1>4, <2>1, FirstCalls, BeginStep
<1>5. ASSUME NEW d \in Ids, NEW x \in Subjects, NEW e \in Emails \cup {None},
             BeginAt(r, d, [For("social") EXCEPT !.subject = x, !.mail = e])
      PROVE  IInv'
  <2> DEFINE j == [[For("social") EXCEPT !.subject = x, !.mail = e] EXCEPT !.who = d]
  <2>1. j \in JobType /\ j.kind = "social" /\ j.subject = x /\ j.who = d
    BY DEF For, NoJob, JobType, Kinds
  <2>2. Begin(r, j)
    BY <1>5 DEF BeginAt
  <2> HIDE DEF j
  <2> QED BY <1>4, <2>1, <2>2
<1>6. ASSUME NEW u \in sessions, NEW x \in Subjects, NEW e \in Emails \cup {None},
             BeginAs(r, u, [For("social") EXCEPT !.subject = x, !.mail = e])
      PROVE  IInv'
  <2> DEFINE j == [[For("social") EXCEPT !.subject = x, !.mail = e]
                     EXCEPT !.who = u, !.session = u]
  <2>1. u \in Ids
    BY SessionLives
  <2>2. j \in JobType /\ j.kind = "social" /\ j.subject = x /\ j.who = u
    BY <2>1 DEF For, NoJob, JobType, Kinds
  <2>3. Begin(r, j)
    BY <1>6 DEF BeginAs
  <2> HIDE DEF j
  <2> QED BY <1>4, <2>1, <2>2, <2>3
<1>7. ASSUME NEW u \in sessions, BeginAs(r, u, [For("unlink") EXCEPT !.mail = users[u].email])
      PROVE  IInv'
  <2> DEFINE j == [[For("unlink") EXCEPT !.mail = users[u].email] EXCEPT !.who = u, !.session = u]
  <2>1. u \in Ids /\ users[u].email \in Emails \cup {None}
    BY SessionLives DEF UserType
  <2>2. j \in JobType /\ j.kind = "unlink" /\ j.who = u
    BY <2>1 DEF For, NoJob, JobType, Kinds
  <2>3. Begin(r, j)
    BY <1>7 DEF BeginAs
  <2> HIDE DEF j
  <2>4. Knows("ways", j) /\ "ways" \in Calls /\ "ways" \in Free
    BY <2>1, <2>2 DEF Knows, Calls, Free
  <2> QED BY <2>2, <2>3, <2>4, FirstCalls, BeginStep
<1>8. ASSUME NEW u \in sessions, BeginAs(r, u, For("delete"))
      PROVE  IInv'
  <2> DEFINE j == [For("delete") EXCEPT !.who = u, !.session = u]
  <2>1. u \in Ids
    BY SessionLives
  <2>2. j \in JobType /\ j.kind = "delete" /\ j.who = u
    BY <2>1 DEF For, NoJob, JobType, Kinds
  <2>3. Begin(r, j)
    BY <1>8 DEF BeginAs
  <2> HIDE DEF j
  <2>4. Knows("delete", j) /\ "delete" \in Calls /\ "delete" \in Free
    BY <2>1, <2>2 DEF Knows, Calls, Free
  <2> QED BY <2>2, <2>3, <2>4, FirstCalls, BeginStep
<1>9. ASSUME NEW u \in sessions, NEW j \in JobType, j.who = u,
             \/ j.kind = "password"
             \/ j.kind = "email" /\ j.mail \in Emails,
             Begin(r, j)
      PROVE  IInv'
  <2>1. u \in Ids /\ users[u] # None
    BY SessionLives
  <2>2. Knows("record", j) /\ "record" \in Calls /\ FirstCall[j.kind] = "record"
    BY <1>9, <2>1, FirstCalls DEF Knows, Calls
  <2>3. pc'[r] = "record" /\ job'[r] = j /\ UNCHANGED users
    BY <1>9, <2>2, Moves DEF Begin, IInv
  <2>4. Sure(r)'
    BY <1>9, <2>1, <2>3 DEF Sure, Mailing, Proving, Lived, Held
  <2> QED BY <1>9, <2>2, <2>4, BeginStep
<1>10. ASSUME NEW u \in sessions, BeginAs(r, u, For("password"))
       PROVE  IInv'
  <2>1. u \in Ids
    BY SessionLives
  <2>2. [For("password") EXCEPT !.who = u, !.session = u] \in JobType
        /\ [For("password") EXCEPT !.who = u, !.session = u].kind = "password"
        /\ [For("password") EXCEPT !.who = u, !.session = u].who = u
    BY <2>1 DEF For, NoJob, JobType, Kinds
  <2> QED BY <1>9, <1>10, <2>2 DEF BeginAs
<1>11. ASSUME NEW u \in sessions, NEW e \in Emails, BeginAs(r, u, [For("email") EXCEPT !.mail = e])
       PROVE  IInv'
  <2> DEFINE j == [[For("email") EXCEPT !.mail = e] EXCEPT !.who = u, !.session = u]
  <2>1. u \in Ids
    BY SessionLives
  <2>2. j \in JobType /\ j.kind = "email" /\ j.who = u /\ j.mail = e
    BY <2>1 DEF For, NoJob, JobType, Kinds
  <2> QED BY <1>9, <1>11, <2>2 DEF BeginAs
<1>12. ASSUME NEW u \in sessions, users[u].email # None,
              BeginAs(r, u, [For("resend") EXCEPT !.mail = users[u].email, !.key = "confirm"])
       PROVE  IInv'
  <2> DEFINE j == [[For("resend") EXCEPT !.mail = users[u].email, !.key = "confirm"]
                     EXCEPT !.who = u, !.session = u]
  <2>1. u \in Ids /\ users[u] # None /\ users[u].email \in Emails
    BY <1>12, SessionLives DEF UserType
  <2>2. /\ j \in JobType /\ j.kind = "resend" /\ j.who = u /\ j.mail = users[u].email
        /\ j.key = "confirm"
    BY <2>1 DEF For, NoJob, JobType, Kinds, TokenKinds
  <2>3. Begin(r, j)
    BY <1>12 DEF BeginAs
  <2> HIDE DEF j
  <2>4. Knows("mail", j) /\ "mail" \in Calls /\ FirstCall[j.kind] = "mail"
    BY <2>1, <2>2, FirstCalls DEF Knows, Calls, TokenKinds
  <2>5. pc'[r] = "mail" /\ job'[r] = j /\ UNCHANGED users
    BY <2>3, <2>4, Moves DEF Begin, IInv
  <2>6. Sure(r)'
    BY <2>1, <2>2, <2>5 DEF Sure, Mailing, Proving, Lived, Held
  <2> QED BY <2>2, <2>3, <2>4, <2>6, BeginStep
<1> QED BY <1>1, <1>2, <1>3, <1>5, <1>6, <1>7, <1>8, <1>10, <1>11, <1>12 DEF Start

-----------------------------------------------------------------------------
(* Steps that leave the accounts' rows alone.                               *)

\* Keys that do not change still stand.
LEMMA SameKeys ==
  ASSUME IInv, NEW r, QuietMoved(r), UNCHANGED <<users, index, gone, tokens>>,
         proofs \subseteq proofs'
  PROVE  Keys'
<1>1. \A t \in Tokens : KeptKey(t)
  BY DEF KeptKey
<1> QED BY <1>1, RowsStand, KeysFrame

LEMMA SessionKeeps ==
  ASSUME IInv, NEW r \in Requests, Session(r)
  PROVE  IInv'
<1>1. /\ job[r] \in JobType /\ started \in Nat /\ aborts \in Nat
      /\ Knows("session", job[r]) /\ pc[r] = "session" /\ Sure(r)
  BY DEF IInv, TypeOK, Session
<1>2. UNCHANGED <<users, index, secrets, links, tokens, proofs, gone, moved, started, aborts>>
  BY DEF Session
<1>3. CASE Done(r) /\ UNCHANGED sessions
  BY <1>1, <1>2, <1>3, EndStep DEF store
<1>4. ASSUME users[job[r].who] # None, sessions' = sessions \cup {job[r].who},
             NEW label, NEW j, GoWith(r, label, j),
             \/ label = "idle" /\ j = NoJob
             \/ label = "mail" /\ j = job[r] /\ job[r].kind = "register"
      PROVE  IInv'
  <2>1. label \in Calls /\ j \in JobType /\ Knows(label, j)
    BY <1>1, <1>4, Idle DEF Knows, Calls, TokenKinds
  <2>2. pc'[r] = label /\ job'[r] = j
    BY <1>4, Moves DEF IInv
  <2>3. Sure(r)'
    BY <1>1, <1>2, <1>4, <2>2 DEF Sure, Mailing, Proving, Lived, Alive, Held, Knows
  <2>4. QuietMoved(r)
    BY <1>2 DEF QuietMoved, IInv, TypeOK
  <2>5. NoOrphans' /\ sessions' \subseteq Ids
    BY <1>1, <1>2, <1>4 DEF NoOrphans, Knows, IInv, TypeOK
  <2> QED BY <1>1, <1>2, <1>4, <2>1, <2>3, <2>4, <2>5, SameKeys, QuietStep DEF IInv, TypeOK
<1> QED BY <1>3, <1>4 DEF Session, create_session, Go, Done

LEMMA CreateIdentityKeeps ==
  ASSUME IInv, NEW r \in Requests, CreateIdentity(r)
  PROVE  IInv'
<1>1. /\ job[r] \in JobType /\ started \in Nat /\ aborts \in Nat
      /\ Knows("link", job[r]) /\ pc[r] = "link" /\ Sure(r)
  BY DEF IInv, TypeOK, CreateIdentity
<1>2. UNCHANGED <<users, index, secrets, sessions, tokens, proofs, gone, moved, started, aborts>>
  BY DEF CreateIdentity
<1>3. CASE Done(r) /\ UNCHANGED links
  BY <1>1, <1>2, <1>3, EndStep DEF store
<1>4. CASE Go(r, "owner") /\ UNCHANGED links
  <2>1. Knows("owner", job[r]) /\ "owner" \in Free
    BY <1>1 DEF Knows, Free
  <2> QED BY <1>1, <1>2, <1>4, <2>1, LookFree DEF Go, store
<1>5. ASSUME users[job[r].who] # None, links' = [links EXCEPT ![job[r].subject] = job[r].who],
             NEW label, GoWith(r, label, job[r]),
             \/ label = "session"
             \/ label = "attach" /\ job[r].mail # None
      PROVE  IInv'
  <2>1. label \in Calls /\ Knows(label, job[r])
    BY <1>1, <1>5 DEF Knows, Calls, JobType
  <2>2. Sure(r)'
    BY <1>1, <1>5, FreeSure DEF Free, Knows
  <2>3. QuietMoved(r)
    BY <1>2 DEF QuietMoved, IInv, TypeOK
  <2>4. NoOrphans' /\ links' \in [Subjects -> Ids \cup {None}]
    BY <1>1, <1>2, <1>5 DEF NoOrphans, Knows, IInv, TypeOK
  <2> QED BY <1>1, <1>2, <1>5, <2>1, <2>2, <2>3, <2>4, SameKeys, QuietStep DEF IInv, TypeOK
<1> QED BY <1>3, <1>4, <1>5 DEF CreateIdentity, AfterLink, Go

LEMMA DeleteIdentityKeeps ==
  ASSUME IInv, NEW r \in Requests, DeleteIdentity(r)
  PROVE  IInv'
<1>1. /\ started \in Nat /\ aborts \in Nat /\ Knows("unlink", job[r])
      /\ Done(r) /\ Moving("link", job[r].who)
      /\ UNCHANGED <<users, index, secrets, sessions, tokens, proofs, gone, started, aborts>>
  BY DEF IInv, TypeOK, DeleteIdentity
<1>2. \A s \in Subjects : links'[s] \in {None, links[s]}
  BY DEF DeleteIdentity
<1>3. links' \in [Subjects -> Ids \cup {None}]
  <2>1. \A s \in Subjects : links[s] \in Ids \cup {None}
    BY DEF IInv, TypeOK
  <2> QED BY <2>1 DEF DeleteIdentity
<1>4. NoOrphans'
  BY <1>1, <1>2 DEF NoOrphans, IInv
<1>5. QuietMoved(r)
  BY <1>1 DEF QuietMoved, Moving, Notes, Knows, IInv, TypeOK
<1>6. Sure(r)'
  BY <1>1, IdleSure
<1> QED BY <1>1, <1>3, <1>4, <1>5, <1>6, Idle, SameKeys, QuietStep DEF Done, IInv, TypeOK

LEMMA SetPasswordKeeps ==
  ASSUME IInv, NEW r \in Requests, SetPassword(r)
  PROVE  IInv'
<1>1. /\ job[r] \in JobType /\ started \in Nat /\ aborts \in Nat
      /\ Knows("secret", job[r]) /\ pc[r] = "secret" /\ Sure(r)
  BY DEF IInv, TypeOK, SetPassword
<1>2. UNCHANGED <<users, index, links, sessions, tokens, proofs, gone, moved, started, aborts>>
  BY DEF SetPassword
<1>3. CASE Done(r) /\ UNCHANGED secrets
  BY <1>1, <1>2, <1>3, EndStep DEF store
<1>4. ASSUME users[job[r].who] # None, secrets' = secrets \cup {job[r].who},
             NEW label, NEW j, GoWith(r, label, j),
             \/ label = "idle" /\ j = NoJob
             \/ label = "confirm" /\ j = job[r] /\ job[r].kind # "password"
      PROVE  IInv'
  <2>1. label \in Calls /\ j \in JobType /\ Knows(label, j)
    BY <1>1, <1>4, Idle DEF Knows, Calls
  <2>2. pc'[r] = label /\ job'[r] = j
    BY <1>4, Moves DEF IInv
  <2>3. Sure(r)'
    BY <1>1, <1>2, <1>4, <2>2 DEF Sure, Mailing, Proving, Lived, Alive, Held
  <2>4. QuietMoved(r)
    BY <1>2 DEF QuietMoved, IInv, TypeOK
  <2>5. NoOrphans' /\ secrets' \subseteq Ids
    BY <1>1, <1>2, <1>4 DEF NoOrphans, Knows, IInv, TypeOK
  <2> QED BY <1>1, <1>2, <1>4, <2>1, <2>3, <2>4, <2>5, SameKeys, QuietStep DEF IInv, TypeOK
<1> QED BY <1>3, <1>4 DEF SetPassword, set_password, Go, Done

-----------------------------------------------------------------------------
(* Mailed keys.                                                             *)

LEMMA DeleteUnusedKeeps ==
  ASSUME IInv, NEW r \in Requests, DeleteUnused(r)
  PROVE  IInv'
<1>1. /\ job[r] \in JobType /\ started \in Nat /\ aborts \in Nat
      /\ Knows("mail", job[r]) /\ pc[r] = "mail" /\ Sure(r)
  BY DEF IInv, TypeOK, DeleteUnused
<1> DEFINE doomed == Unused(job[r].who, job[r].key)
           j == [job[r] EXCEPT !.doomed = doomed]
<1>2. UNCHANGED store /\ UNCHANGED <<moved, started, aborts>> /\ GoWith(r, "issue", j)
  BY DEF DeleteUnused
<1>3. doomed \subseteq Tokens
  BY DEF Unused
<1> HIDE DEF doomed
<1>4. /\ j \in JobType /\ j.who = job[r].who /\ j.mail = job[r].mail /\ j.key = job[r].key
  BY <1>1, <1>3 DEF JobType
<1>5. "issue" \in Calls /\ Knows("issue", j)
  BY <1>1, <1>4 DEF Calls, Knows
<1> HIDE DEF j
<1>6. pc'[r] = "issue" /\ job'[r] = j
  BY <1>2, Moves DEF IInv
<1>7. Sure(r)'
  BY <1>1, <1>2, <1>4, <1>6 DEF Sure, Mailing, Proving, Lived, Alive, Held, store
<1> QED BY <1>1, <1>2, <1>4, <1>5, <1>7, LookStep

LEMMA IssueTokenKeeps ==
  ASSUME IInv, NEW r \in Requests, IssueToken(r)
  PROVE  IInv'
<1>1. /\ job[r] \in JobType /\ started \in Nat /\ aborts \in Nat
      /\ Knows("issue", job[r]) /\ pc[r] = "issue" /\ Sure(r)
  BY DEF IInv, TypeOK, IssueToken
<1>2. /\ Done(r)
      /\ UNCHANGED <<users, index, secrets, links, sessions, proofs, gone, started, aborts>>
  BY DEF IssueToken
<1>3. PICK u \in Ids, e \in Emails, kind \in TokenKinds :
        u = job[r].who /\ e = job[r].mail /\ kind = job[r].key
  BY <1>1 DEF Knows
<1>4. PICK late \in BOOLEAN : late <=> <<"email", u>> \in moved[r]
  OBVIOUS
<1>5. Stale(r, "email") = late
  BY <1>3, <1>4 DEF Stale
<1>6. PICK paid \in Emails \cup {None} : paid = IF kind = "email_change" THEN e ELSE None
  OBVIOUS
<1>7. PICK rivals \in SUBSET Tokens : rivals = {y \in Tokens : <<"key", y>> \in moved[r]}
  OBVIOUS
<1> DEFINE rec == [user |-> u, kind |-> kind, used |-> FALSE, expired |-> FALSE, attempts |-> 0,
                   payload |-> paid, to |-> e, late |-> late, rivals |-> rivals]
<1>8. PICK t \in Tokens :
        /\ tokens' = [x \in Tokens |-> IF x = t THEN rec
                                       ELSE IF x \in job[r].doomed THEN None ELSE tokens[x]]
        /\ moved' = [x \in Requests |-> IF x # r /\ pc[x] = "issue"
                                         THEN moved[x] \cup {<<"key", t>>} ELSE moved[x]]
  BY <1>3, <1>5, <1>6, <1>7 DEF IssueToken
<1>9. /\ rec \in TokenType /\ rec.user = u /\ rec.kind = kind /\ ~rec.used /\ rec.to = e
      /\ rec.payload = paid /\ rec.late = late
  BY DEF TokenType
<1> HIDE DEF rec
<1>10. /\ tokens'[t] = rec /\ tokens' \in [Tokens -> TokenType \cup {None}]
       /\ \A x \in Tokens \ {t} : tokens'[x] \in {None, tokens[x]}
  BY <1>8, <1>9 DEF IInv, TypeOK
<1>11. QuietMoved(r) /\ NoOrphans'
  <2>1. NoOrphans'
    BY <1>2 DEF NoOrphans, IInv
  <2>2. <<"key", t>> \in Notes /\ \A v \in Ids : <<"email", v>> # <<"key", t>>
    BY DEF Notes
  <2>3. moved' \in [Requests -> SUBSET Notes]
    BY <1>8, <2>2 DEF IInv, TypeOK
  <2> QED BY <1>8, <2>1, <2>2, <2>3 DEF QuietMoved
<1>12. Lasting
  BY <1>2, <1>11, RowsStand
<1>13. KeyOK(t)'
  <2>1. Lived(u) /\ Lived(u)'
    BY <1>1, <1>2, <1>3 DEF Sure, Mailing, Lived
  <2>2. kind = "email_change" => paid = e
    BY <1>6
  <2>3. ASSUME kind # "email_change", Alive(u)'
        PROVE  (e = users'[u].email \/ users'[u].confirmed) /\ (late \/ e = users'[u].email)
    <3>1. Alive(u)
      BY <1>2, <2>3 DEF Alive
    <3>2. late \/ e = users[u].email
      BY <1>1, <1>3, <1>4, <2>3, <3>1 DEF Sure, Mailing
    <3>3. late => users[u].confirmed
      BY <1>4, <3>1 DEF IInv, MovedOK
    <3> QED BY <1>2, <3>2, <3>3
  <2> QED BY <1>9, <1>10, <2>1, <2>2, <2>3 DEF KeyOK, Alive, Lived
<1>14. Keys'
  <2>1. ASSUME NEW x \in Tokens \ {t} PROVE KeyOK(x)'
    <3>1. KeptKey(x)
      BY <1>2, <1>10 DEF KeptKey
    <3> QED BY <1>12, <3>1, KeyFrame
  <2> QED BY <1>13, <2>1 DEF Keys
<1>15. Sure(r)'
  BY <1>2, IdleSure
<1> QED BY <1>1, <1>2, <1>10, <1>11, <1>14, <1>15, Idle, QuietStep DEF Done, IInv, TypeOK

\* A key that is spent or expires is a key still.
LEMMA TouchedKey ==
  ASSUME IInv, UNCHANGED users, NEW t \in Tokens, tokens[t] # None,
         NEW used \in BOOLEAN, NEW expired \in BOOLEAN, NEW attempts \in Nat,
         tokens[t].used => used,
         tokens' = [tokens EXCEPT ![t].used = used, ![t].expired = expired,
                                  ![t].attempts = attempts]
  PROVE  /\ tokens' \in [Tokens -> TokenType \cup {None}]
         /\ \A x \in Tokens : KeptKey(x)
<1>1. tokens[t] \in TokenType /\ tokens \in [Tokens -> TokenType \cup {None}]
  BY DEF IInv, TypeOK
<1>2. PICK k \in TokenType : k = [tokens[t] EXCEPT !.used = used, !.expired = expired,
                                                   !.attempts = attempts]
  BY <1>1 DEF TokenType
<1>3. /\ k.user = tokens[t].user /\ k.kind = tokens[t].kind /\ k.payload = tokens[t].payload
      /\ k.to = tokens[t].to /\ k.late = tokens[t].late /\ k.used = used
  BY <1>1, <1>2 DEF TokenType
<1>4. tokens' = [tokens EXCEPT ![t] = k]
  BY <1>1, <1>2
<1>5. tokens'[t] = k /\ \A x \in Tokens \ {t} : tokens'[x] = tokens[x]
  BY <1>1, <1>4
<1>6. \A x \in Tokens : KeptKey(x)
  BY <1>3, <1>5 DEF KeptKey
<1> QED BY <1>1, <1>4, <1>6

LEMMA ExpireKeeps ==
  ASSUME IInv, NEW t \in Tokens, Expire(t)
  PROVE  IInv'
<1>1. /\ tokens[t] # None /\ ~tokens[t].used
      /\ UNCHANGED <<users, index, secrets, links, sessions, proofs, gone, pc, job, moved,
                     started, aborts>>
  BY DEF Expire
<1>2. tokens[t] \in TokenType
  BY <1>1 DEF IInv, TypeOK
<1>3. tokens' = [tokens EXCEPT ![t].used = tokens[t].used, ![t].expired = TRUE,
                               ![t].attempts = tokens[t].attempts]
  <2>1. [tokens[t] EXCEPT !.expired = TRUE]
          = [tokens[t] EXCEPT !.used = tokens[t].used, !.expired = TRUE,
                              !.attempts = tokens[t].attempts]
    BY <1>2 DEF TokenType
  <2>2. tokens' = [tokens EXCEPT ![t] = [tokens[t] EXCEPT !.expired = TRUE]]
    BY DEF Expire
  <2> QED BY <2>1, <2>2
<1>4. /\ tokens' \in [Tokens -> TokenType \cup {None}]
      /\ \A x \in Tokens : KeptKey(x)
  BY <1>1, <1>2, <1>3, TouchedKey DEF TokenType
<1>5. TypeOK'
  BY <1>1, <1>4 DEF IInv, TypeOK
<1>6. QuietMoved(t)
  BY <1>1 DEF QuietMoved, IInv, TypeOK
<1>7. IndexAgrees' /\ ConfirmedIsProved' /\ MovedOK' /\ Lasting
  BY <1>1, <1>6, RowsStand
<1>8. NoOrphans'
  BY <1>1 DEF IInv, NoOrphans
<1>9. Keys'
  BY <1>4, <1>7, KeysFrame
<1>10. ASSUME NEW s \in Requests PROVE Knows(pc'[s], job'[s]) /\ Sure(s)'
  <2>1. Noted(s)
    BY <1>1 DEF Noted
  <2> QED BY <1>1, <1>7, <2>1, SureFrame DEF IInv
<1> QED BY <1>5, <1>7, <1>8, <1>9, <1>10 DEF IInv

\* What a step that spends a key of account u has to show.
LEMMA SpendStep ==
  ASSUME IInv, NEW r \in Requests, NEW label \in Calls, NEW j \in JobType, GoWith(r, label, j),
         UNCHANGED <<users, index, secrets, links, sessions, gone, moved, started, aborts>>,
         tokens' \in [Tokens -> TokenType \cup {None}],
         \A x \in Tokens : KeptKey(x),
         proofs \subseteq proofs', proofs' \subseteq Ids \X Emails,
         Knows(label, j), Sure(r)'
  PROVE  IInv'
<1>1. QuietMoved(r) /\ NoOrphans'
  BY DEF QuietMoved, NoOrphans, IInv, TypeOK
<1>2. Keys'
  BY <1>1, RowsStand, KeysFrame
<1> QED BY <1>1, <1>2, QuietStep DEF IInv, TypeOK

\* An address with a key to it, or a confirmed one, is proved once the key is used.
LEMMA KeyProves ==
  ASSUME IInv, NEW t \in Tokens, tokens[t] # None, tokens[t].kind # "email_change",
         UNCHANGED <<users, gone>>, NEW u, u = tokens[t].user,
         proofs' = proofs \cup {<<u, tokens[t].to>>}, Alive(u)'
  PROVE  <<u, users'[u].email>> \in proofs'
<1>1. tokens[t] \in TokenType
  BY DEF IInv, TypeOK
<1>2. PICK e \in Emails : u \in Ids /\ e = tokens[t].to
  BY <1>1 DEF TokenType
<1>3. Alive(u)
  BY <1>2 DEF Alive
<1>4. e = users[u].email \/ users[u].confirmed
  BY <1>2, <1>3 DEF IInv, Keys, KeyOK
<1>5. users[u].confirmed => <<u, users[u].email>> \in proofs
  BY <1>2, <1>3 DEF IInv, ConfirmedIsProved, Alive
<1> QED BY <1>2, <1>4, <1>5

LEMMA ConsumeTokenKeeps ==
  ASSUME IInv, NEW r \in Requests, ConsumeToken(r)
  PROVE  IInv'
<1>1. /\ job[r] \in JobType /\ started \in Nat /\ aborts \in Nat
      /\ Knows("consume", job[r])
  BY DEF IInv, TypeOK, ConsumeToken
<1>2. UNCHANGED <<users, index, secrets, links, sessions, gone, moved, started, aborts>>
  BY DEF ConsumeToken
<1>3. CASE Done(r) /\ UNCHANGED <<tokens, proofs>>
  BY <1>1, <1>2, <1>3, EndStep DEF store
<1>4. ASSUME NEW t \in Tokens, tokens[t] # None, ~tokens[t].used,
             \/ job[r].kind = "reset" /\ tokens[t].kind = "reset"
             \/ tokens[t].kind \in {"confirm", "email_change"},
             tokens' = [tokens EXCEPT ![t].used = TRUE],
             proofs' = proofs \cup {<<tokens[t].user, tokens[t].to>>},
             NEW label,
             label = CASE tokens[t].kind = "reset" -> "secret"
                       [] tokens[t].kind = "confirm" -> "confirm"
                       [] OTHER -> "replace",
             GoWith(r, label, [job[r] EXCEPT !.who = tokens[t].user, !.mail = tokens[t].payload])
      PROVE  IInv'
  <2>1. tokens[t] \in TokenType
    BY <1>4 DEF IInv, TypeOK
  <2>2. PICK u \in Ids, e \in Emails, paid \in Emails \cup {None} :
          u = tokens[t].user /\ e = tokens[t].to /\ paid = tokens[t].payload
    BY <2>1 DEF TokenType
  <2> DEFINE j == [job[r] EXCEPT !.who = u, !.mail = paid]
  <2>3. j \in JobType /\ j.who = u /\ j.mail = paid /\ j.kind = job[r].kind
    BY <1>1 DEF JobType
  <2>4. GoWith(r, label, j)
    BY <1>4, <2>2
  <2> HIDE DEF j
  <2>5. Lived(u) /\ (label = "replace" => paid = e)
    BY <1>4, <2>1, <2>2 DEF IInv, Keys, KeyOK, TokenType, TokenKinds
  <2>6. label \in {"secret", "confirm", "replace"} /\ j.kind \in {"reset", "confirm"}
    BY <1>1, <1>4, <2>3 DEF Knows
  <2>7. label \in Calls /\ Knows(label, j)
    BY <2>3, <2>5, <2>6 DEF Calls, Knows
  <2>8. tokens' = [tokens EXCEPT ![t].used = TRUE, ![t].expired = tokens[t].expired,
                                 ![t].attempts = tokens[t].attempts]
    <3>1. [tokens[t] EXCEPT !.used = TRUE]
            = [tokens[t] EXCEPT !.used = TRUE, !.expired = tokens[t].expired,
                                !.attempts = tokens[t].attempts]
      BY <2>1 DEF TokenType
    <3>2. tokens' = [tokens EXCEPT ![t] = [tokens[t] EXCEPT !.used = TRUE]]
      BY <1>4
    <3> QED BY <3>1, <3>2
  <2>9. /\ tokens' \in [Tokens -> TokenType \cup {None}]
        /\ \A x \in Tokens : KeptKey(x)
    BY <1>2, <1>4, <2>1, <2>8, TouchedKey DEF TokenType
  <2>10. pc'[r] = label /\ job'[r] = j
    BY <2>4, Moves DEF IInv
  <2>11. label # "replace" /\ Alive(u)' => <<u, users'[u].email>> \in proofs'
    <3>1. label # "replace" => tokens[t].kind # "email_change"
      BY <1>4
    <3> QED BY <1>2, <1>4, <2>2, <3>1, KeyProves
  <2>12. Sure(r)'
    <3>1. Lived(u)' /\ ~Mailing(r)' /\ (Proving(r)' => label # "replace")
      BY <1>2, <2>5, <2>6, <2>10 DEF Lived, Mailing, Proving
    <3>2. label = "replace" => <<u, paid>> \in proofs'
      BY <1>4, <2>2, <2>5
    <3> QED BY <2>3, <2>10, <2>11, <3>1, <3>2 DEF Sure, Lived, Alive, Held
  <2>13. proofs \subseteq proofs' /\ proofs' \subseteq Ids \X Emails
    BY <1>4, <2>2 DEF IInv, TypeOK
  <2> QED BY <1>2, <2>3, <2>4, <2>7, <2>9, <2>12, <2>13, SpendStep
<1>5. PICK t \in Tokens :
        LET kinds == IF job[r].kind = "reset" THEN {"reset"} ELSE {"confirm", "email_change"} IN
        IF Consumable(t, kinds)
          THEN /\ tokens' = [tokens EXCEPT ![t].used = TRUE]
               /\ proofs' = proofs \cup {<<tokens[t].user, tokens[t].to>>}
               /\ GoWith(r, CASE tokens[t].kind = "reset" -> "secret"
                              [] tokens[t].kind = "confirm" -> "confirm"
                              [] OTHER -> "replace",
                         [job[r] EXCEPT !.who = tokens[t].user, !.mail = tokens[t].payload])
          ELSE Done(r) /\ UNCHANGED <<tokens, proofs>>
  BY DEF ConsumeToken
<1> QED BY <1>3, <1>4, <1>5 DEF Consumable

LEMMA ConsumeByCodeKeeps ==
  ASSUME IInv, NEW r \in Requests, ConsumeByCode(r)
  PROVE  IInv'
<1>1. /\ job[r] \in JobType /\ started \in Nat /\ aborts \in Nat
      /\ Knows("code", job[r]) /\ pc[r] = "code" /\ Sure(r)
  BY DEF IInv, TypeOK, ConsumeByCode
<1>2. UNCHANGED <<users, index, secrets, links, sessions, gone, moved, started, aborts>>
  BY DEF ConsumeByCode
<1>3. CASE Done(r) /\ UNCHANGED <<tokens, proofs>>
  BY <1>1, <1>2, <1>3, EndStep DEF store
<1> DEFINE active == Active(job[r].who, "reset")
<1>4. ASSUME NEW t \in active, NEW right \in BOOLEAN, tokens' = Tried(active, t, right)
      PROVE  /\ tokens' \in [Tokens -> TokenType \cup {None}]
             /\ \A x \in Tokens : KeptKey(x)
  <2>1. \A x \in active : x \in Tokens /\ tokens[x] # None /\ ~tokens[x].used
    BY DEF Active, Unused
  <2> HIDE DEF active
  <2>2. ASSUME NEW x \in Tokens
        PROVE  tokens'[x] \in TokenType \cup {None} /\ KeptKey(x)
    <3>1. CASE x \notin active
      BY <1>2, <1>4, <3>1 DEF Tried, KeptKey, IInv, TypeOK
    <3>2. CASE x \in active
      <4>1. tokens[x] # None /\ ~tokens[x].used /\ tokens[x] \in TokenType
        BY <2>1, <3>2 DEF IInv, TypeOK
      <4>2. PICK n \in Nat, used \in BOOLEAN :
              n = tokens[x].attempts + 1 /\ used = (right /\ x = t)
        BY <4>1 DEF TokenType
      <4>3. PICK k \in TokenType : k = [tokens[x] EXCEPT !.attempts = n, !.used = used]
        BY <4>1 DEF TokenType
      <4>4. /\ k.user = tokens[x].user /\ k.kind = tokens[x].kind
            /\ k.payload = tokens[x].payload /\ k.to = tokens[x].to /\ k.late = tokens[x].late
        BY <4>1, <4>3 DEF TokenType
      <4>5. tokens'[x] = k
        BY <1>4, <3>2, <4>2, <4>3 DEF Tried
      <4> QED BY <1>2, <4>1, <4>4, <4>5 DEF KeptKey
    <3> QED BY <3>1, <3>2
  <2> QED BY <1>4, <2>2 DEF Tried
<1>5. ASSUME NEW t \in active, tokens' = Tried(active, t, FALSE),
             Done(r), UNCHANGED proofs
      PROVE  IInv'
  <2>1. Sure(r)'
    BY <1>5, IdleSure
  <2> QED BY <1>2, <1>4, <1>5, <2>1, Idle, SpendStep DEF Done, IInv, TypeOK
<1>6. ASSUME NEW t \in active, tokens' = Tried(active, t, TRUE),
             Go(r, "secret"), proofs' = proofs \cup {<<job[r].who, tokens[t].to>>}
      PROVE  IInv'
  <2>1. t \in Tokens /\ tokens[t] # None /\ tokens[t].user = job[r].who
        /\ tokens[t].kind = "reset"
    BY DEF Active, Unused
  <2>2. tokens[t] \in TokenType
    BY <2>1 DEF IInv, TypeOK
  <2>3. proofs \subseteq proofs' /\ proofs' \subseteq Ids \X Emails
    BY <1>6, <2>1, <2>2 DEF IInv, TypeOK, TokenType
  <2>4. "secret" \in Calls /\ Knows("secret", job[r])
    BY <1>1 DEF Calls, Knows
  <2>5. pc'[r] = "secret" /\ job'[r] = job[r]
    BY <1>6, Moves DEF Go, IInv
  <2>6. Lived(job[r].who)
    BY <1>1 DEF Sure, Held
  <2>7. PICK u : u = job[r].who
    OBVIOUS
  <2>8. Alive(u)' => <<u, users'[u].email>> \in proofs'
    BY <1>2, <1>6, <2>1, <2>7, KeyProves
  <2>9. Sure(r)'
    BY <1>2, <2>5, <2>6, <2>7, <2>8 DEF Sure, Mailing, Proving, Lived, Alive, Held
  <2> QED BY <1>1, <1>2, <1>4, <1>6, <2>3, <2>4, <2>9, SpendStep DEF Go
<1> QED BY <1>3, <1>5, <1>6 DEF ConsumeByCode

-----------------------------------------------------------------------------
(* Steps that write an account's row.                                       *)

\* A written row is an account.
LEMMA Row ==
  ASSUME NEW e \in Emails \cup {None}, NEW b \in BOOLEAN,
         NEW row, row = [email |-> e, confirmed |-> b]
  PROVE  row \in UserType /\ row # None /\ row.email = e /\ row.confirmed = b
<1>1. row \in UserType
  BY DEF UserType
<1>2. None \notin UserType
  BY NoneAssumption
<1> QED BY <1>1, <1>2

LEMMA TrueRow ==
  ASSUME NEW e \in Emails \cup {None}, NEW row, row = [email |-> e, confirmed |-> TRUE]
  PROVE  row \in UserType /\ row # None /\ row.email = e /\ row.confirmed
<1>1. row \in UserType
  BY DEF UserType
<1>2. row.confirmed
  OBVIOUS
<1> QED BY <1>1, <1>2, NoneAssumption

LEMMA InsertStep ==
  ASSUME IInv, NEW r \in Requests, NEW label \in Calls, NEW j \in JobType, GoWith(r, label, j),
         NEW u \in Ids, NEW e \in Emails \cup {None}, NEW c \in BOOLEAN,
         Insertable(u, e), InsertUser(u, e, c), secrets' \subseteq secrets \cup {u},
         UNCHANGED <<links, sessions, tokens, gone, started, aborts>>,
         proofs \subseteq proofs', proofs' \subseteq Ids \X Emails,
         c => <<u, e>> \in proofs', QuietMoved(r), Knows(label, j), Sure(r)'
  PROVE  IInv'
<1>1. /\ users[u] = None /\ (e # None => index[e] = None)
      /\ users'[u] = [email |-> e, confirmed |-> c]
      /\ \A v \in Ids \ {u} : users'[v] = users[v]
      /\ index' = IF e = None THEN index ELSE [index EXCEPT ![e] = u]
      /\ users' = [users EXCEPT ![u] = [email |-> e, confirmed |-> c]]
  BY DEF Insertable, InsertUser, IInv, TypeOK
<1>2. /\ users'[u] \in UserType /\ users'[u] # None /\ users'[u].email = e
      /\ users'[u].confirmed = c
  BY <1>1, Row
<1>3. TypeOK'
  <2>1. users' \in [Ids -> UserType \cup {None}]
    BY <1>1, <1>2 DEF IInv, TypeOK
  <2>2. index' \in [Emails -> Ids \cup {None}]
    BY <1>1 DEF IInv, TypeOK
  <2> QED BY <2>1, <2>2 DEF IInv, TypeOK, GoWith, QuietMoved
<1>4. IndexAgrees'
  <2> SUFFICES ASSUME NEW x \in Emails, NEW v \in Ids
               PROVE  index'[x] = v <=> users'[v] # None /\ users'[v].email = x
    BY DEF IndexAgrees
  <2>1. index[x] = v <=> users[v] # None /\ users[v].email = x
    BY DEF IInv, IndexAgrees
  <2>2. index \in [Emails -> Ids \cup {None}] /\ None \notin Ids \cup Emails
    BY NoneAssumption DEF IInv, TypeOK
  <2> QED BY <1>1, <1>2, <2>1, <2>2
<1>5. NoOrphans'
  BY <1>1, <1>2 DEF IInv, TypeOK, NoOrphans
<1>6. ConfirmedIsProved'
  BY <1>1, <1>2 DEF IInv, ConfirmedIsProved
<1>7. Lasting
  BY <1>1, <1>2 DEF Lasting, Lived, Alive
<1>8. MovedOK'
  <2> SUFFICES ASSUME NEW s \in Requests, NEW v \in Ids, <<"email", v>> \in moved'[s]
               PROVE  Lived(v)' /\ (Alive(v)' => users'[v].confirmed)
    BY DEF MovedOK
  <2>1. Lived(v) /\ (Alive(v) => users[v].confirmed)
    BY DEF QuietMoved, IInv, MovedOK
  <2> QED BY <1>1, <2>1 DEF Lived, Alive
<1>9. Keys'
  <2>1. \A t \in Tokens : KeptKey(t)
    <3> SUFFICES ASSUME NEW t \in Tokens, tokens[t] # None PROVE KeptKey(t)
      BY DEF KeptKey
    <3>1. tokens[t].user \in Ids
      BY DEF IInv, TypeOK, TokenType
    <3>2. tokens[t].user = u => ~Alive(u)
      BY <1>1 DEF Alive
    <3> QED BY <1>1, <3>1, <3>2 DEF KeptKey
  <2> QED BY <1>7, <2>1, KeysFrame
<1>10. \A s \in Requests \ {r} : Noted(s)
  BY <1>1 DEF Noted, QuietMoved, Alive
<1> QED BY <1>3, <1>4, <1>5, <1>6, <1>7, <1>8, <1>9, <1>10, StepKeeps

LEMMA InsertKeeps ==
  ASSUME IInv, NEW r \in Requests, Insert(r)
  PROVE  IInv'
<1>1. /\ job[r] \in JobType /\ started \in Nat /\ aborts \in Nat
      /\ Knows("insert", job[r])
  BY DEF IInv, TypeOK, Insert
<1>2. UNCHANGED <<links, sessions, tokens, proofs, gone, started, aborts>>
  BY DEF Insert
<1>3. PICK u \in Ids, e \in Emails : u = job[r].who /\ e = job[r].mail /\ e # None
  BY <1>1, NoneAssumption DEF Knows
<1>4. CASE Done(r) /\ UNCHANGED <<users, index, secrets, moved>>
  BY <1>1, <1>2, <1>4, EndStep DEF store
<1>5. ASSUME Insertable(u, e), InsertUser(u, e, FALSE), secrets' = secrets \cup {u},
             GoWith(r, "session", [job[r] EXCEPT !.key = "confirm"]), Looking(r)
      PROVE  IInv'
  <2> DEFINE j == [job[r] EXCEPT !.key = "confirm"]
  <2>1. /\ j \in JobType /\ j.who = u /\ j.mail = e /\ j.kind = "register" /\ j.key = "confirm"
    BY <1>1, <1>3 DEF JobType, TokenKinds, Knows
  <2>2. GoWith(r, "session", j)
    BY <1>5
  <2> HIDE DEF j
  <2>3. "session" \in Calls /\ Knows("session", j)
    BY <1>3, <2>1 DEF Calls, Knows
  <2>4. users'[u] = [email |-> e, confirmed |-> FALSE]
    BY <1>3, <1>5 DEF InsertUser, IInv, TypeOK
  <2>5. users'[u] # None /\ users'[u].email = e
    <3>1. PICK c \in BOOLEAN : c = FALSE
      OBVIOUS
    <3>2. users'[u] = [email |-> e, confirmed |-> c]
      BY <2>4, <3>1
    <3> QED BY <1>3, <3>2, Row
  <2>6. pc'[r] = "session" /\ job'[r] = j
    BY <2>2, Moves DEF IInv
  <2>7. Sure(r)'
    BY <2>1, <2>5, <2>6 DEF Sure, Mailing, Proving, Lived, Held
  <2>8. QuietMoved(r)
    BY <1>5 DEF QuietMoved, Looking, IInv, TypeOK
  <2>9. proofs' = proofs /\ proofs \subseteq Ids \X Emails
    BY <1>2 DEF IInv, TypeOK
  <2> QED BY <1>2, <1>3, <1>5, <2>1, <2>2, <2>3, <2>7, <2>8, <2>9, InsertStep
<1> QED BY <1>3, <1>4, <1>5 DEF Insert

LEMMA CreateKeeps ==
  ASSUME IInv, NEW r \in Requests, Create(r)
  PROVE  IInv'
<1>1. /\ job[r] \in JobType /\ started \in Nat /\ aborts \in Nat
      /\ pc[r] \in {"create", "bare"} /\ Knows(pc[r], job[r])
  BY DEF IInv, TypeOK, Create
<1>2. UNCHANGED <<secrets, links, sessions, tokens, gone, moved, started, aborts>>
  BY DEF Create
<1>3. PICK u \in Ids, e \in Emails \cup {None} :
        u = job[r].who /\ e = IF pc[r] = "create" THEN job[r].mail ELSE None
  BY <1>1 DEF Knows, JobType
<1>4. CASE Done(r) /\ UNCHANGED <<users, index, proofs>>
  BY <1>1, <1>2, <1>4, EndStep DEF store
<1>5. CASE Go(r, "bare") /\ UNCHANGED <<users, index, proofs>>
  <2>1. Knows("bare", job[r]) /\ "bare" \in Free
    BY <1>1 DEF Knows, Free
  <2> QED BY <1>1, <1>2, <1>5, <2>1, LookFree DEF Go, store
<1>6. ASSUME Insertable(u, e), InsertUser(u, e, e # None),
             proofs' = IF e = None THEN proofs ELSE proofs \cup {<<u, e>>}, Go(r, "link")
      PROVE  IInv'
  <2>1. Knows("link", job[r]) /\ "link" \in Free /\ "link" \in Calls
    BY <1>1 DEF Knows, Free, Calls
  <2>2. Sure(r)'
    BY <1>6, <2>1, FreeSure DEF Go
  <2>3. QuietMoved(r)
    BY <1>2 DEF QuietMoved, IInv, TypeOK
  <2>4. proofs \subseteq proofs' /\ proofs' \subseteq Ids \X Emails
    BY <1>3, <1>6 DEF IInv, TypeOK
  <2>5. PICK c \in BOOLEAN : c <=> e # None
    OBVIOUS
  <2>6. (e # None) = c
    BY <2>5
  <2>7. InsertUser(u, e, c)
    BY <1>6, <2>6
  <2>8. c => <<u, e>> \in proofs'
    BY <1>6, <2>5
  <2> QED BY <1>1, <1>2, <1>3, <1>6, <2>1, <2>2, <2>3, <2>4, <2>7, <2>8, InsertStep DEF Go
<1> QED BY <1>3, <1>4, <1>5, <1>6 DEF Create

\* What a step that writes the row of a living account has to show.
LEMMA WriteStep ==
  ASSUME IInv, NEW r \in Requests, NEW label \in Calls, NEW j \in JobType, GoWith(r, label, j),
         NEW u \in Ids, NEW e \in Emails \cup {None}, users[u] # None,
         NEW row \in UserType, row.email = e, row.confirmed, users' = [users EXCEPT ![u] = row],
         index' \in [Emails -> Ids \cup {None}], IndexAgrees',
         UNCHANGED <<secrets, links, sessions, gone, started, aborts>>,
         tokens' \in [Tokens -> TokenType \cup {None}],
         \A t \in Tokens : KeptKey(t),
         proofs \subseteq proofs', proofs' \subseteq Ids \X Emails,
         Alive(u) => <<u, e>> \in proofs',
         moved' \in [Requests -> SUBSET Notes],
         \A s \in Requests, v \in Ids :
           <<"email", v>> \in moved'[s] => v = u \/ <<"email", v>> \in moved[s],
         \A s \in Requests \ {r} : /\ moved[s] \subseteq moved'[s]
                                   /\ \/ users[u].email \in {None, e}
                                      \/ <<"email", u>> \in moved'[s],
         Knows(label, j), Sure(r)'
  PROVE  IInv'
<1>1. users'[u] = row /\ \A v \in Ids \ {u} : users'[v] = users[v]
  BY DEF IInv, TypeOK
<1>2. /\ users'[u] \in UserType /\ users'[u] # None /\ users'[u].email = e
      /\ users'[u].confirmed
  BY <1>1, NoneAssumption
<1>3. TypeOK'
  <2>1. users' \in [Ids -> UserType \cup {None}]
    BY <1>1, <1>2 DEF IInv, TypeOK
  <2> QED BY <2>1 DEF IInv, TypeOK, GoWith
<1>4. NoOrphans'
  BY <1>1, <1>2 DEF IInv, TypeOK, NoOrphans
<1>5. ConfirmedIsProved'
  BY <1>1, <1>2 DEF IInv, ConfirmedIsProved, Alive
<1>6. Lasting
  BY <1>1, <1>2 DEF Lasting, Lived, Alive
<1>7. MovedOK'
  <2> SUFFICES ASSUME NEW s \in Requests, NEW v \in Ids, <<"email", v>> \in moved'[s]
               PROVE  Lived(v)' /\ (Alive(v)' => users'[v].confirmed)
    BY DEF MovedOK
  <2>1. v # u => Lived(v) /\ (Alive(v) => users[v].confirmed)
    BY DEF IInv, MovedOK
  <2> QED BY <1>1, <1>2, <2>1 DEF Lived, Alive
<1>8. Keys'
  BY <1>6, KeysFrame
<1>9. \A s \in Requests \ {r} : Noted(s)
  BY <1>1, <1>2 DEF Noted
<1> QED BY <1>3, <1>4, <1>5, <1>6, <1>7, <1>8, <1>9, StepKeeps

LEMMA AttachEmailKeeps ==
  ASSUME IInv, NEW r \in Requests, AttachEmail(r)
  PROVE  IInv'
<1>1. /\ job[r] \in JobType /\ started \in Nat /\ aborts \in Nat
      /\ Knows("attach", job[r])
  BY DEF IInv, TypeOK, AttachEmail
<1>2. /\ GoWith(r, "session", job[r])
      /\ UNCHANGED <<secrets, links, sessions, tokens, gone, moved, started, aborts>>
  BY DEF AttachEmail, Go
<1>3. PICK u \in Ids, e \in Emails : u = job[r].who /\ e = job[r].mail /\ e # None
  BY <1>1, NoneAssumption DEF Knows
<1>4. CASE UNCHANGED <<users, index, proofs>>
  BY <1>1, <1>2, <1>4, ToSession DEF store, Knows
<1>5. ASSUME Attachable(u, e), users' = [users EXCEPT ![u] = [email |-> e, confirmed |-> TRUE]],
             index' = [index EXCEPT ![e] = u], proofs' = proofs \cup {<<u, e>>}
      PROVE  IInv'
  <2>1. users[u] # None /\ users[u].email = None /\ index[e] \in {None, u}
    BY <1>5 DEF Attachable
  <2> DEFINE row == [email |-> e, confirmed |-> TRUE]
  <2>2. users' = [users EXCEPT ![u] = row] /\ row \in UserType /\ row.email = e /\ row.confirmed
    BY <1>3, <1>5, TrueRow
  <2> HIDE DEF row
  <2>3. /\ users'[u] = row /\ \A v \in Ids \ {u} : users'[v] = users[v]
        /\ users'[u] # None /\ users'[u].email = e
    BY <2>2, NoneAssumption DEF IInv, TypeOK
  <2>4. index' \in [Emails -> Ids \cup {None}] /\ None \notin Ids \cup Emails
    BY <1>5, NoneAssumption DEF IInv, TypeOK
  <2>5. IndexAgrees'
    <3> SUFFICES ASSUME NEW x \in Emails, NEW v \in Ids
                 PROVE  index'[x] = v <=> users'[v] # None /\ users'[v].email = x
      BY DEF IndexAgrees
    <3>1. index[x] = v <=> users[v] # None /\ users[v].email = x
      BY DEF IInv, IndexAgrees
    <3>2. index \in [Emails -> Ids \cup {None}]
      BY DEF IInv, TypeOK
    <3> QED BY <1>3, <1>5, <2>1, <2>3, <2>4, <3>1, <3>2
  <2>6. \A t \in Tokens : KeptKey(t)
    <3> SUFFICES ASSUME NEW t \in Tokens, tokens[t] # None PROVE KeptKey(t)
      BY <1>2 DEF KeptKey
    <3>1. tokens[t].user \in Ids
      BY DEF IInv, TypeOK, TokenType
    <3> QED BY <1>2, <2>1, <2>3, <3>1 DEF KeptKey
  <2>7. proofs \subseteq proofs' /\ proofs' \subseteq Ids \X Emails
    BY <1>3, <1>5 DEF IInv, TypeOK
  <2>8. "session" \in Calls /\ Knows("session", job[r])
    BY <1>1 DEF Calls, Knows
  <2>9. Sure(r)'
    BY <1>1, <1>2, FreeSure DEF Knows
  <2>10. /\ tokens' \in [Tokens -> TokenType \cup {None}]
         /\ moved' \in [Requests -> SUBSET Notes]
    BY <1>2 DEF IInv, TypeOK
  <2> QED BY <1>1, <1>2, <1>3, <1>5, <2>1, <2>2, <2>4, <2>5, <2>6, <2>7, <2>8, <2>9,
            <2>10, WriteStep
<1> QED BY <1>3, <1>4, <1>5 DEF AttachEmail

LEMMA ConfirmEmailKeeps ==
  ASSUME IInv, NEW r \in Requests, ConfirmEmail(r)
  PROVE  IInv'
<1>1. /\ job[r] \in JobType /\ started \in Nat /\ aborts \in Nat
      /\ pc[r] = "confirm" /\ Knows("confirm", job[r]) /\ Sure(r)
  BY DEF IInv, TypeOK, ConfirmEmail
<1>2. UNCHANGED <<index, secrets, links, sessions, tokens, proofs, gone, moved, started, aborts>>
  BY DEF ConfirmEmail
<1>3. PICK u \in Ids : u = job[r].who
  BY <1>1 DEF Knows
<1>4. CASE Done(r) /\ UNCHANGED users
  BY <1>1, <1>2, <1>4, EndStep DEF store
<1>5. ASSUME users[u] # None, users' = [users EXCEPT ![u].confirmed = TRUE],
             NEW label, NEW j, GoWith(r, label, j),
             \/ label = "idle" /\ j = NoJob
             \/ label = "session" /\ j = job[r]
      PROVE  IInv'
  <2>1. users[u] \in UserType
    BY <1>3, <1>5 DEF IInv, TypeOK
  <2>2. PICK e \in Emails \cup {None} : e = users[u].email
    BY <2>1 DEF UserType
  <2> DEFINE row == [users[u] EXCEPT !.confirmed = TRUE]
  <2>3. row \in UserType /\ row.email = e /\ row.confirmed
    BY <2>1, <2>2 DEF UserType
  <2>4. users' = [users EXCEPT ![u] = row]
    BY <1>5
  <2> HIDE DEF row
  <2>5. /\ users'[u] = row /\ \A v \in Ids \ {u} : users'[v] = users[v]
        /\ users'[u] # None /\ users'[u].email = e
    BY <1>3, <2>3, <2>4, NoneAssumption DEF IInv, TypeOK
  <2>6. IndexAgrees'
    BY <1>2, <1>5, <2>2, <2>5 DEF IInv, IndexAgrees
  <2>7. \A t \in Tokens : KeptKey(t)
    <3> SUFFICES ASSUME NEW t \in Tokens, tokens[t] # None PROVE KeptKey(t)
      BY <1>2 DEF KeptKey
    <3>1. tokens[t].user \in Ids
      BY DEF IInv, TypeOK, TokenType
    <3> QED BY <1>2, <2>2, <2>5, <3>1 DEF KeptKey
  <2>8. label \in Calls /\ j \in JobType /\ Knows(label, j)
    BY <1>1, <1>5, Idle DEF Knows, Calls
  <2>9. Sure(r)'
    BY <1>1, <1>5, FreeSure, IdleSure DEF Knows, Done
  <2>10. Alive(u) => <<u, e>> \in proofs
    BY <1>1, <1>3, <2>2 DEF Sure, Proving
  <2>11. /\ index' \in [Emails -> Ids \cup {None}]
         /\ tokens' \in [Tokens -> TokenType \cup {None}]
         /\ proofs' \subseteq Ids \X Emails
         /\ moved' \in [Requests -> SUBSET Notes]
    BY <1>2 DEF IInv, TypeOK
  <2> QED BY <1>2, <1>3, <1>5, <2>2, <2>3, <2>4, <2>6, <2>7, <2>8, <2>9, <2>10,
            <2>11, WriteStep
<1> QED BY <1>3, <1>4, <1>5 DEF ConfirmEmail, confirm_email, Go, Done

LEMMA ReplaceEmailKeeps ==
  ASSUME IInv, NEW r \in Requests, ReplaceEmail(r)
  PROVE  IInv'
<1>1. /\ job[r] \in JobType /\ started \in Nat /\ aborts \in Nat
      /\ pc[r] = "replace" /\ Knows("replace", job[r]) /\ Sure(r)
  BY DEF IInv, TypeOK, ReplaceEmail
<1>2. Done(r) /\ UNCHANGED <<secrets, links, sessions, proofs, gone, started, aborts>>
  BY DEF ReplaceEmail
<1>3. PICK u \in Ids, e \in Emails : u = job[r].who /\ e = job[r].mail /\ e # None
  BY <1>1, NoneAssumption DEF Knows
<1>4. CASE UNCHANGED <<users, index, tokens, moved>>
  BY <1>1, <1>2, <1>4, EndStep DEF store
<1>5. ASSUME Replaceable(u, e), users' = [users EXCEPT ![u] = [email |-> e, confirmed |-> TRUE]],
             index' = IndexMoved(u, e), tokens' = KeysRevoked(u), Moving("email", u)
      PROVE  IInv'
  <2>1. users[u] # None /\ index[e] \in {None, u}
    BY <1>5 DEF Replaceable
  <2> DEFINE row == [email |-> e, confirmed |-> TRUE]
  <2>2. users' = [users EXCEPT ![u] = row] /\ row \in UserType /\ row.email = e /\ row.confirmed
    BY <1>3, <1>5, TrueRow
  <2> HIDE DEF row
  <2>3. /\ users'[u] = row /\ \A v \in Ids \ {u} : users'[v] = users[v]
        /\ users'[u] # None /\ users'[u].email = e
    BY <2>2, NoneAssumption DEF IInv, TypeOK
  <2>4. index' \in [Emails -> Ids \cup {None}]
    BY <1>3, <1>5 DEF IndexMoved, IInv, TypeOK
  <2>5. IndexAgrees'
    <3> SUFFICES ASSUME NEW x \in Emails, NEW v \in Ids
                 PROVE  index'[x] = v <=> users'[v] # None /\ users'[v].email = x
      BY DEF IndexAgrees
    <3>1. /\ index[x] = v <=> users[v] # None /\ users[v].email = x
          /\ index[x] = u <=> users[u] # None /\ users[u].email = x
      BY DEF IInv, IndexAgrees
    <3>2. index' [x] = IF x = e THEN u ELSE IF x = users[u].email THEN None ELSE index[x]
      BY <1>5 DEF IndexMoved
    <3> QED BY <1>3, <2>1, <2>3, <3>1, <3>2, NoneAssumption
  <2>6. \A t \in Tokens : tokens'[t] = IF tokens[t] # None /\ tokens[t].user = u /\ ~tokens[t].used
                                       THEN None ELSE tokens[t]
    BY <1>5 DEF KeysRevoked
  <2>7. tokens' \in [Tokens -> TokenType \cup {None}]
    <3>1. \A t \in Tokens : tokens'[t] \in TokenType \cup {None}
      BY <2>6 DEF IInv, TypeOK
    <3>2. tokens' = [t \in Tokens |-> tokens'[t]]
      BY <1>5 DEF KeysRevoked
    <3> QED BY <3>1, <3>2
  <2>8. \A t \in Tokens : KeptKey(t)
    <3> SUFFICES ASSUME NEW t \in Tokens, tokens'[t] # None PROVE KeptKey(t)
      BY DEF KeptKey
    <3>1. tokens[t] # None /\ tokens'[t] = tokens[t] /\ (tokens[t].user = u => tokens[t].used)
      BY <2>6
    <3>2. tokens[t].user \in Ids
      BY <3>1 DEF IInv, TypeOK, TokenType
    <3> QED BY <2>3, <3>1, <3>2 DEF KeptKey
  <2>9. <<u, e>> \in proofs /\ proofs' = proofs /\ proofs \subseteq Ids \X Emails
    BY <1>1, <1>2, <1>3 DEF Sure, IInv, TypeOK
  <2>10. \A s \in Requests : moved'[s] = moved[s] \cup {<<"email", u>>}
    BY <1>5 DEF Moving
  <2>11. moved' \in [Requests -> SUBSET Notes]
    BY <1>5 DEF Moving, Notes, IInv, TypeOK
  <2>12. Sure(r)'
    BY <1>2, IdleSure
  <2>13. /\ \A s \in Requests, v \in Ids :
              <<"email", v>> \in moved'[s] => v = u \/ <<"email", v>> \in moved[s]
         /\ \A s \in Requests \ {r} : moved[s] \subseteq moved'[s] /\ <<"email", u>> \in moved'[s]
    BY <2>10
  <2> QED BY <1>2, <1>3, <2>1, <2>2, <2>4, <2>5, <2>7, <2>8, <2>9, <2>11, <2>12, <2>13, Idle,
            WriteStep DEF Done
<1> QED BY <1>3, <1>4, <1>5 DEF ReplaceEmail, replace_email

LEMMA DeleteUserKeeps ==
  ASSUME IInv, NEW r \in Requests, DeleteUser(r)
  PROVE  IInv'
<1>1. /\ started \in Nat /\ aborts \in Nat /\ Knows("delete", job[r])
      /\ Done(r) /\ UNCHANGED <<proofs, moved, started, aborts>>
  BY DEF IInv, TypeOK, DeleteUser
<1>2. PICK u \in Ids : u = job[r].who
  BY <1>1 DEF Knows
<1>3. /\ users' = [users EXCEPT ![u] = None] /\ gone' = gone \cup {u}
      /\ index' = [e \in Emails |-> IF index[e] = u THEN None ELSE index[e]]
      /\ sessions' = sessions \ {u} /\ secrets' = secrets \ {u}
      /\ tokens' = [t \in Tokens |-> IF tokens[t] # None /\ tokens[t].user = u THEN None
                                     ELSE tokens[t]]
      /\ links' = [s \in Subjects |-> IF links[s] = u THEN None ELSE links[s]]
  BY <1>2 DEF DeleteUser, delete_user, SessionsEnded
<1>4. users'[u] = None /\ u \in gone' /\ \A v \in Ids \ {u} : users'[v] = users[v]
  BY <1>3 DEF IInv, TypeOK
<1>5. TypeOK'
  <2>1. users' \in [Ids -> UserType \cup {None}] /\ index' \in [Emails -> Ids \cup {None}]
    BY <1>3 DEF IInv, TypeOK
  <2>2. tokens' \in [Tokens -> TokenType \cup {None}] /\ links' \in [Subjects -> Ids \cup {None}]
    BY <1>3 DEF IInv, TypeOK
  <2> QED BY <1>1, <1>2, <1>3, <2>1, <2>2, Idle DEF IInv, TypeOK, Done, GoWith
<1>6. IndexAgrees'
  <2> SUFFICES ASSUME NEW x \in Emails, NEW v \in Ids
               PROVE  index'[x] = v <=> users'[v] # None /\ users'[v].email = x
    BY DEF IndexAgrees
  <2>1. index[x] = v <=> users[v] # None /\ users[v].email = x
    BY DEF IInv, IndexAgrees
  <2> QED BY <1>3, <1>4, <2>1, NoneAssumption
<1>7. NoOrphans'
  BY <1>3, <1>4 DEF IInv, TypeOK, NoOrphans
<1>8. ConfirmedIsProved'
  BY <1>1, <1>3, <1>4 DEF IInv, ConfirmedIsProved
<1>9. Lasting
  BY <1>1, <1>3, <1>4 DEF Lasting, Lived, Alive
<1>10. MovedOK'
  <2> SUFFICES ASSUME NEW s \in Requests, NEW v \in Ids, <<"email", v>> \in moved'[s]
               PROVE  Lived(v)' /\ (Alive(v)' => users'[v].confirmed)
    BY DEF MovedOK
  <2>1. Lived(v) /\ (Alive(v) => users[v].confirmed)
    BY <1>1 DEF IInv, MovedOK
  <2> QED BY <1>3, <1>4, <2>1 DEF Lived, Alive
<1>11. Keys'
  <2>1. \A t \in Tokens : KeptKey(t)
    <3> SUFFICES ASSUME NEW t \in Tokens, tokens'[t] # None PROVE KeptKey(t)
      BY DEF KeptKey
    <3>1. tokens[t] # None /\ tokens'[t] = tokens[t] /\ tokens[t].user # u
      BY <1>3
    <3>2. tokens[t].user \in Ids
      BY <3>1 DEF IInv, TypeOK, TokenType
    <3> QED BY <1>4, <3>1, <3>2 DEF KeptKey
  <2> QED BY <1>9, <2>1, KeysFrame
<1>12. \A s \in Requests \ {r} : Noted(s)
  BY <1>1, <1>4 DEF Noted, Alive
<1>13. Sure(r)'
  BY <1>1, IdleSure
<1> QED BY <1>1, <1>5, <1>6, <1>7, <1>8, <1>9, <1>10, <1>11, <1>12, <1>13, Idle, StepKeeps DEF Done

-----------------------------------------------------------------------------
(* The invariant.                                                           *)

LEMMA InitIInv == Init => IInv
<1> SUFFICES ASSUME Init PROVE IInv
  OBVIOUS
<1>1. PICK w \in Worlds :
        /\ users = w.users /\ secrets = w.secrets /\ links = w.links
        /\ sessions = {u \in Ids : w.users[u] # None}
        /\ index = [e \in Emails |->
                      IF \E u \in Ids : w.users[u] # None /\ w.users[u].email = e
                      THEN CHOOSE u \in Ids : w.users[u] # None /\ w.users[u].email = e
                      ELSE None]
        /\ proofs = {x \in Ids \X Emails :
                       /\ w.users[x[1]] # None
                       /\ w.users[x[1]] = [email |-> x[2], confirmed |-> TRUE]}
  BY DEF Init
<1>2. /\ tokens = [t \in Tokens |-> None] /\ gone = {}
      /\ pc = [r \in Requests |-> "idle"] /\ job = [r \in Requests |-> NoJob]
      /\ moved = [r \in Requests |-> {}] /\ started = 0 /\ aborts = 0
  BY DEF Init
<1>3. /\ users \in [Ids -> UserType \cup {None}]
      /\ secrets \subseteq {u \in Ids : users[u] # None}
      /\ links \in [Subjects -> {u \in Ids : users[u] # None} \cup {None}]
      /\ \A u \in Ids : users[u] # None /\ users[u].confirmed => users[u].email # None
      /\ \A u1, u2 \in Ids :
           users[u1] # None /\ users[u2] # None /\ users[u1].email = users[u2].email
             => u1 = u2 \/ users[u1].email = None
  BY <1>1, WorldsAssumption
<1>4. ASSUME NEW e \in Emails
      PROVE  /\ index[e] \in Ids \cup {None}
             /\ \A u \in Ids : index[e] = u <=> users[u] # None /\ users[u].email = e
  <2>1. e # None /\ None \notin Ids
    BY NoneAssumption
  <2>2. CASE \E u \in Ids : users[u] # None /\ users[u].email = e
    <3>1. index[e] = CHOOSE u \in Ids : users[u] # None /\ users[u].email = e
      BY <1>1, <2>2
    <3>2. index[e] \in Ids /\ users[index[e]] # None /\ users[index[e]].email = e
      BY <2>2, <3>1
    <3> QED BY <1>3, <2>1, <3>2
  <2>3. CASE ~\E u \in Ids : users[u] # None /\ users[u].email = e
    BY <1>1, <2>1, <2>3
  <2> QED BY <2>2, <2>3
<1>5. TypeOK
  <2>1. index \in [Emails -> Ids \cup {None}]
    BY <1>1, <1>4
  <2>2. proofs \subseteq Ids \X Emails
    BY <1>1
  <2>3. links \in [Subjects -> Ids \cup {None}]
    BY <1>3
  <2> QED BY <1>1, <1>2, <1>3, <2>1, <2>2, <2>3, Idle DEF TypeOK
<1>6. IndexAgrees
  BY <1>4 DEF IndexAgrees
<1>7. NoOrphans
  BY <1>1, <1>3 DEF NoOrphans
<1>8. ConfirmedIsProved
  <2> SUFFICES ASSUME NEW u \in Ids, users[u] # None, users[u].confirmed
               PROVE  <<u, users[u].email>> \in proofs
    BY DEF ConfirmedIsProved
  <2>1. users[u] \in UserType /\ users[u].email \in Emails
    BY <1>3 DEF UserType
  <2>2. PICK e \in Emails : e = users[u].email
    BY <2>1
  <2>3. users[u] = [email |-> e, confirmed |-> TRUE]
    <3>1. PICK b \in BOOLEAN : users[u] = [email |-> e, confirmed |-> b]
      BY <2>1, <2>2 DEF UserType
    <3> QED BY <3>1
  <2> QED BY <1>1, <2>2, <2>3
<1>9. MovedOK
  BY <1>2 DEF MovedOK
<1>10. Keys
  BY <1>2 DEF Keys, KeyOK
<1>11. ASSUME NEW r \in Requests PROVE Knows(pc[r], job[r]) /\ Sure(r)
  BY <1>2, Idle DEF Sure, Mailing, Proving, Held
<1> QED BY <1>5, <1>6, <1>7, <1>8, <1>9, <1>10, <1>11 DEF IInv

LEMMA RequestKeeps ==
  ASSUME IInv, NEW r \in Requests, RequestNext(r)
  PROVE  IInv'
<1>1. CASE Start(r)
  BY <1>1, StartKeeps
<1>2. CASE Insert(r) \/ Match(r) \/ Session(r)
  BY <1>2, InsertKeeps, MatchKeeps, SessionKeeps
<1>3. CASE FindIdentity(r) \/ FindByEmail(r) \/ Claim(r) \/ Again(r) \/ LinkOwner(r)
  BY <1>3, FindIdentityKeeps, FindByEmailKeeps, ClaimKeeps
<1>4. CASE Create(r) \/ CreateIdentity(r) \/ AttachEmail(r)
  BY <1>4, CreateKeeps, CreateIdentityKeeps, AttachEmailKeeps
<1>5. CASE CountWays(r) \/ DeleteIdentity(r)
  BY <1>5, CountWaysKeeps, DeleteIdentityKeeps
<1>6. CASE \/ FindForRecovery(r) \/ DeleteUnused(r) \/ IssueToken(r) \/ ConsumeToken(r)
           \/ FindForCode(r) \/ ConsumeByCode(r)
  BY <1>6, FindForRecoveryKeeps, DeleteUnusedKeeps, IssueTokenKeeps, ConsumeTokenKeeps,
     FindForCodeKeeps, ConsumeByCodeKeeps
<1>7. CASE SetPassword(r) \/ ConfirmEmail(r) \/ ReplaceEmail(r)
  BY <1>7, SetPasswordKeeps, ConfirmEmailKeeps, ReplaceEmailKeeps
<1>8. CASE CheckSecret(r) \/ AddressFree(r) \/ DeleteUser(r) \/ Abort(r)
  BY <1>8, CheckSecretKeeps, AddressFreeKeeps, DeleteUserKeeps, AbortKeeps
<1> QED BY <1>1, <1>2, <1>3, <1>4, <1>5, <1>6, <1>7, <1>8 DEF RequestNext

LEMMA StutterKeeps ==
  ASSUME IInv, UNCHANGED vars
  PROVE  IInv'
BY DEF vars, IInv, TypeOK, IndexAgrees, NoOrphans, ConfirmedIsProved, MovedOK, Keys,
       KeyOK, Sure, Mailing, Proving, Lived, Alive

LEMMA Inductive == Spec => []IInv
<1>1. IInv /\ [Next]_vars => IInv'
  <2> SUFFICES ASSUME IInv, [Next]_vars PROVE IInv'
    OBVIOUS
  <2>1. CASE Next
    BY <2>1, RequestKeeps, ExpireKeeps DEF Next
  <2>2. CASE UNCHANGED vars
    BY <2>2, StutterKeeps
  <2> QED BY <2>1, <2>2
<1> QED BY InitIInv, <1>1, PTL DEF Spec

\* At most one of the keys of an account and kind still works.
-----------------------------------------------------------------------------
(* The latest mail wins.                                                    *)

Works(t)    == tokens[t] # None /\ ~tokens[t].used
Alike(x, y) == tokens[x].user = tokens[y].user /\ tokens[x].kind = tokens[y].kind

OneKey ==
  \A x, y \in Tokens : Works(x) /\ Works(y) /\ Alike(x, y)
    => x = y \/ x \in tokens[y].rivals \/ y \in tokens[x].rivals

\* A transaction that issues a key deletes every key like it that it has not been told of.
Snapshots ==
  \A r \in Requests : pc[r] = "issue" =>
    \A t \in Unused(job[r].who, job[r].key) : t \in job[r].doomed \/ <<"key", t>> \in moved[r]

LatestInv == OneKey /\ Snapshots

\* Keys only go, or stop working.
Dwindles ==
  \A t \in Tokens : Works(t)' =>
    /\ Works(t) /\ tokens'[t].user = tokens[t].user /\ tokens'[t].kind = tokens[t].kind
    /\ tokens'[t].rivals = tokens[t].rivals

LEMMA LatestStep ==
  ASSUME LatestInv, Dwindles,
         \A s \in Requests : \/ pc'[s] # "issue"
                             \/ /\ pc[s] = "issue" /\ job'[s] = job[s]
                                /\ moved[s] \subseteq moved'[s]
  PROVE  LatestInv'
<1>1. OneKey'
  BY DEF LatestInv, OneKey, Dwindles, Works, Alike
<1>2. Snapshots'
  <2> SUFFICES ASSUME NEW s \in Requests, pc'[s] = "issue",
                      NEW t \in Unused(job[s].who, job[s].key)'
               PROVE  t \in job'[s].doomed \/ <<"key", t>> \in moved'[s]
    BY DEF Snapshots
  <2>1. pc[s] = "issue" /\ job'[s] = job[s] /\ moved[s] \subseteq moved'[s]
    OBVIOUS
  <2>2. t \in Unused(job[s].who, job[s].key)
    BY <2>1 DEF Unused, Dwindles, Works
  <2> QED BY <2>1, <2>2 DEF LatestInv, Snapshots
<1> QED BY <1>1, <1>2 DEF LatestInv

\* A handler that issues no key steps.
LEMMA LatestGo ==
  ASSUME IInv, LatestInv, Dwindles, NEW r \in Requests, NEW label, NEW j, GoWith(r, label, j),
         label # "issue", \A s \in Requests \ {r} : moved[s] \subseteq moved'[s]
  PROVE  LatestInv'
<1>1. pc'[r] = label /\ \A s \in Requests \ {r} : pc'[s] = pc[s] /\ job'[s] = job[s]
  BY Moves DEF IInv
<1> QED BY <1>1, LatestStep

LEMMA LatestSame ==
  ASSUME IInv, LatestInv, UNCHANGED tokens, NEW r \in Requests, NEW label, NEW j,
         GoWith(r, label, j), label # "issue",
         moved' = moved \/ Looking(r) \/ \E u \in Ids : Moving("link", u)
  PROVE  LatestInv'
<1>1. Dwindles
  BY DEF Dwindles, Works
<1>2. \A s \in Requests \ {r} : moved[s] \subseteq moved'[s]
  BY DEF Looking, Moving, IInv, TypeOK
<1> QED BY <1>1, <1>2, LatestGo

LEMMA StartLatest ==
  ASSUME IInv, LatestInv, NEW r \in Requests, Start(r)
  PROVE  LatestInv'
<1>1. PICK kind \in Kinds : \E j : j.kind = kind /\ Begin(r, j)
  BY DEF Start, BeginAt, BeginAs, For, NoJob, Kinds
<1>2. PICK j : j.kind = kind /\ Begin(r, j)
  BY <1>1
<1>3. FirstCall[kind] # "issue"
  BY <1>1 DEF FirstCall, Kinds
<1> QED BY <1>2, <1>3, LatestSame DEF Begin

LEMMA SignInLatest ==
  ASSUME IInv, LatestInv, NEW r \in Requests,
         \/ Insert(r) \/ Match(r) \/ Session(r) \/ FindIdentity(r) \/ FindByEmail(r) \/ Claim(r)
         \/ Again(r) \/ Create(r) \/ CreateIdentity(r) \/ LinkOwner(r) \/ AttachEmail(r)
         \/ CountWays(r) \/ DeleteIdentity(r)
  PROVE  LatestInv'
<1>1. UNCHANGED tokens
  BY DEF Insert, Match, Session, FindIdentity, FindByEmail, Claim, Again, Create, CreateIdentity,
     LinkOwner, AttachEmail, CountWays, DeleteIdentity, store
<1>2. PICK label : label # "issue" /\ \E j : GoWith(r, label, j)
  BY DEF Insert, Match, Session, FindIdentity, FindByEmail, Claim, Again, Create, CreateIdentity,
     LinkOwner, AttachEmail, CountWays, DeleteIdentity, AfterLink, Go, Done
<1>3. moved' = moved \/ Looking(r) \/ \E u \in Ids : Moving("link", u)
  <2>1. CASE DeleteIdentity(r)
    BY <2>1 DEF DeleteIdentity, IInv, Knows
  <2>2. CASE Insert(r) \/ CountWays(r)
    BY <2>2 DEF Insert, CountWays
  <2> QED BY <2>1, <2>2 DEF Match, Session, FindIdentity, FindByEmail, Claim, Again, Create,
             CreateIdentity, LinkOwner, AttachEmail
<1> QED BY <1>1, <1>2, <1>3, LatestSame

LEMMA KeyLatest ==
  ASSUME IInv, LatestInv, NEW r \in Requests,
         \/ FindForRecovery(r) \/ FindForCode(r) \/ SetPassword(r) \/ ConfirmEmail(r)
         \/ CheckSecret(r) \/ AddressFree(r) \/ Abort(r)
  PROVE  LatestInv'
<1>1. UNCHANGED tokens
  BY DEF FindForRecovery, FindForCode, SetPassword, ConfirmEmail, CheckSecret, AddressFree, Abort,
     store
<1>2. PICK label : label # "issue" /\ \E j : GoWith(r, label, j)
  BY DEF FindForRecovery, FindForCode, SetPassword, ConfirmEmail, CheckSecret, AddressFree, Abort,
     Go, Done
<1>3. moved' = moved \/ Looking(r)
  BY DEF FindForRecovery, FindForCode, SetPassword, ConfirmEmail, CheckSecret, AddressFree, Abort
<1> QED BY <1>1, <1>2, <1>3, LatestSame

LEMMA SpendLatest ==
  ASSUME IInv, LatestInv, NEW r \in Requests,
         ConsumeToken(r) \/ ConsumeByCode(r) \/ ReplaceEmail(r) \/ DeleteUser(r)
  PROVE  LatestInv'
<1>1. Dwindles
  <2>1. CASE ConsumeToken(r)
    <3>1. PICK t \in Tokens : \/ tokens' = tokens
                              \/ tokens[t] # None /\ tokens' = [tokens EXCEPT ![t].used = TRUE]
      BY <2>1 DEF ConsumeToken, Consumable
    <3>2. ASSUME NEW x \in Tokens, tokens'[x] # tokens[x]
          PROVE  tokens'[x].used
      <4>1. x = t /\ tokens[t] \in TokenType /\ tokens'[t] = [tokens[t] EXCEPT !.used = TRUE]
        BY <3>1, <3>2 DEF IInv, TypeOK
      <4> QED BY <4>1 DEF TokenType
    <3> QED BY <3>2 DEF Dwindles, Works
  <2>2. CASE ConsumeByCode(r)
    <3> DEFINE active == Active(job[r].who, "reset")
    <3>1. tokens' = tokens \/ \E t, right : tokens' = Tried(active, t, right)
      BY <2>2 DEF ConsumeByCode
    <3>2. \A x \in active : Works(x)
      BY DEF Active, Unused, Works
    <3> HIDE DEF active
    <3>3. ASSUME NEW t, NEW right, tokens' = Tried(active, t, right) PROVE Dwindles
      <4> SUFFICES ASSUME NEW x \in Tokens, Works(x)'
                   PROVE  /\ Works(x) /\ tokens'[x].user = tokens[x].user
                          /\ tokens'[x].kind = tokens[x].kind
                          /\ tokens'[x].rivals = tokens[x].rivals
        BY DEF Dwindles
      <4>1. CASE x \notin active
        BY <3>3, <4>1 DEF Tried, Works
      <4>2. CASE x \in active
        <5>1. Works(x) /\ tokens[x] \in TokenType
          BY <3>2, <4>2 DEF Works, IInv, TypeOK
        <5>2. tokens'[x] = [tokens[x] EXCEPT !.attempts = @ + 1, !.used = right /\ x = t]
          BY <3>3, <4>2 DEF Tried
        <5> QED BY <5>1, <5>2 DEF TokenType
      <4> QED BY <4>1, <4>2
    <3> QED BY <3>1, <3>3 DEF Dwindles, Works
  <2>3. CASE ReplaceEmail(r)
    <3>1. \A t \in Tokens : tokens'[t] \in {None, tokens[t]}
      BY <2>3 DEF ReplaceEmail, replace_email, KeysRevoked
    <3> QED BY <3>1 DEF Dwindles, Works
  <2>4. CASE DeleteUser(r)
    <3>1. \A t \in Tokens : tokens'[t] \in {None, tokens[t]}
      BY <2>4 DEF DeleteUser, delete_user
    <3> QED BY <3>1 DEF Dwindles, Works
  <2> QED BY <2>1, <2>2, <2>3, <2>4
<1>2. PICK label : label # "issue" /\ \E j : GoWith(r, label, j)
  <2>1. CASE ConsumeToken(r)
    <3>1. Done(r) \/ \E label \in {"secret", "confirm", "replace"} : \E j : GoWith(r, label, j)
      BY <2>1 DEF ConsumeToken
    <3> QED BY <3>1 DEF Done
  <2> QED BY <2>1 DEF ConsumeByCode, ReplaceEmail, DeleteUser, Go, Done
<1>3. \A s \in Requests : moved[s] \subseteq moved'[s]
  BY DEF ConsumeToken, ConsumeByCode, ReplaceEmail, DeleteUser, Moving
<1> QED BY <1>1, <1>2, <1>3, LatestGo

LEMMA DeleteLatest ==
  ASSUME IInv, LatestInv, NEW r \in Requests, DeleteUnused(r)
  PROVE  LatestInv'
<1> DEFINE doomed == Unused(job[r].who, job[r].key)
           j == [job[r] EXCEPT !.doomed = doomed]
<1>1. UNCHANGED <<tokens, moved>> /\ GoWith(r, "issue", j)
  BY DEF DeleteUnused, store
<1>2. j.doomed = doomed /\ j.who = job[r].who /\ j.key = job[r].key
  BY DEF IInv, TypeOK, JobType
<1>3. doomed = Unused(j.who, j.key)
  BY <1>2
<1> HIDE DEF j, doomed
<1>4. job'[r] = j /\ \A s \in Requests \ {r} : pc'[s] = pc[s] /\ job'[s] = job[s]
  BY <1>1, Moves DEF IInv
<1>5. OneKey'
  BY <1>1 DEF LatestInv, OneKey, Works, Alike
<1>6. Snapshots'
  <2>1. \A u, kind : Unused(u, kind)' = Unused(u, kind)
    BY <1>1 DEF Unused
  <2>2. \A t \in Unused(job'[r].who, job'[r].key) : t \in job'[r].doomed
    BY <1>2, <1>3, <1>4
  <2> QED BY <1>1, <1>4, <2>1, <2>2 DEF LatestInv, Snapshots
<1> QED BY <1>5, <1>6 DEF LatestInv

\* The new key and those like it that the DELETE did not see are rivals.
LEMMA IssueLatest ==
  ASSUME IInv, LatestInv, NEW r \in Requests, IssueToken(r)
  PROVE  LatestInv'
<1> DEFINE u == job[r].who
           kind == job[r].key
           rivals == {y \in Tokens : <<"key", y>> \in moved[r]}
           late == Stale(r, "email")
           paid == IF kind = "email_change" THEN job[r].mail ELSE None
           rec == [user |-> u, kind |-> kind, used |-> FALSE, expired |-> FALSE, attempts |-> 0,
                   payload |-> paid, to |-> job[r].mail, late |-> late, rivals |-> rivals]
<1>1. PICK t \in Tokens :
        /\ tokens' = [x \in Tokens |-> IF x = t THEN rec
                                       ELSE IF x \in job[r].doomed THEN None ELSE tokens[x]]
        /\ moved' = [x \in Requests |-> IF x # r /\ pc[x] = "issue"
                                         THEN moved[x] \cup {<<"key", t>>} ELSE moved[x]]
  BY DEF IssueToken
<1>2. rec.user = u /\ rec.kind = kind /\ rec.rivals = rivals
  OBVIOUS
<1>3. pc[r] = "issue" /\ GoWith(r, "idle", NoJob)
  BY DEF IssueToken, Done
<1>4. rivals = {y \in Tokens : <<"key", y>> \in moved[r]}
  OBVIOUS
<1> HIDE DEF rec, rivals, late, paid
<1>5. tokens'[t] = rec
  BY <1>1
<1>6. ASSUME NEW x \in Tokens, x # t, Works(x)'
      PROVE  /\ Works(x) /\ tokens'[x] = tokens[x]
             /\ tokens[x].user = u /\ tokens[x].kind = kind => x \in rivals
  <2>1. x \notin job[r].doomed /\ tokens'[x] = tokens[x]
    BY <1>1, <1>6 DEF Works
  <2>2. Works(x)
    BY <1>6, <2>1 DEF Works
  <2>3. tokens[x].user = u /\ tokens[x].kind = kind => x \in Unused(u, kind)
    BY <2>2 DEF Unused, Works
  <2>4. tokens[x].user = u /\ tokens[x].kind = kind => x \in rivals
    BY <1>3, <1>4, <2>1, <2>3 DEF LatestInv, Snapshots
  <2> QED BY <2>1, <2>2, <2>4
<1>7. OneKey'
  <2> SUFFICES ASSUME NEW x \in Tokens, NEW y \in Tokens, Works(x)', Works(y)', Alike(x, y)', x # y
               PROVE  x \in tokens'[y].rivals \/ y \in tokens'[x].rivals
    BY DEF OneKey
  <2>1. CASE x # t /\ y # t
    BY <1>6, <2>1 DEF LatestInv, OneKey, Alike
  <2>2. CASE x = t
    BY <1>2, <1>5, <1>6, <2>2 DEF Alike
  <2>3. CASE y = t
    BY <1>2, <1>5, <1>6, <2>3 DEF Alike
  <2> QED BY <2>1, <2>2, <2>3
<1>8. pc'[r] = "idle" /\ \A s \in Requests \ {r} : pc'[s] = pc[s] /\ job'[s] = job[s]
  BY <1>3, Moves DEF IInv
<1>9. Snapshots'
  <2> SUFFICES ASSUME NEW s \in Requests, pc'[s] = "issue",
                      NEW x \in Unused(job[s].who, job[s].key)'
               PROVE  x \in job'[s].doomed \/ <<"key", x>> \in moved'[s]
    BY DEF Snapshots
  <2>1. s # r /\ pc[s] = "issue" /\ job'[s] = job[s]
    BY <1>8
  <2>2. moved'[s] = moved[s] \cup {<<"key", t>>}
    BY <1>1, <2>1
  <2>3. CASE x = t
    BY <2>2, <2>3
  <2>4. CASE x # t
    <3>1. x \in Tokens /\ Works(x)' /\ tokens'[x].user = job[s].who /\ tokens'[x].kind = job[s].key
      BY <2>1 DEF Unused, Works
    <3>2. x \in Unused(job[s].who, job[s].key)
      BY <1>6, <2>4, <3>1 DEF Unused, Works
    <3> QED BY <2>1, <2>2, <3>2 DEF LatestInv, Snapshots
  <2> QED BY <2>3, <2>4
<1> QED BY <1>7, <1>9 DEF LatestInv

LEMMA ExpireLatest ==
  ASSUME IInv, LatestInv, NEW t \in Tokens, Expire(t)
  PROVE  LatestInv'
<1>1. UNCHANGED <<pc, job, moved>> /\ tokens' = [tokens EXCEPT ![t].expired = TRUE]
      /\ tokens[t] # None
  BY DEF Expire
<1>2. Dwindles
  BY <1>1 DEF Dwindles, Works, IInv, TypeOK, TokenType
<1> QED BY <1>1, <1>2, LatestStep

LEMMA LatestInductive == Spec => []LatestInv
<1>1. Init => LatestInv
  BY DEF Init, LatestInv, OneKey, Works, Snapshots
<1>2. IInv /\ LatestInv /\ [Next]_vars => LatestInv'
  <2> SUFFICES ASSUME IInv, LatestInv, [Next]_vars PROVE LatestInv'
    OBVIOUS
  <2>1. CASE Next
    BY <2>1, StartLatest, SignInLatest, KeyLatest, SpendLatest, DeleteLatest, IssueLatest,
       ExpireLatest DEF Next, RequestNext
  <2>2. CASE UNCHANGED vars
    BY <2>2 DEF vars, LatestInv, OneKey, Works, Alike, Snapshots, Unused
  <2> QED BY <2>1, <2>2
<1> QED BY <1>1, <1>2, Inductive, PTL DEF Spec

-----------------------------------------------------------------------------
(* An account keeps a way in.                                               *)

\* The unique index of the links: one of a provider for each account.
OneLinkEach ==
  \A x, y \in Subjects :
    links[x] = links[y] /\ links[x] # None /\ MethodOf[x] = MethodOf[y] => x = y

\* What an unlink that has counted, or is about to, still relies on.
CountOK(r) ==
  LET u == job[r].who
  IN /\ pc[r] = "ways" /\ u \notin gone
          => users[u] # None /\ (job[r].mail # None => users[u].email # None)
     /\ pc[r] = "unlink" /\ u \notin gone /\ <<"link", u>> \notin moved[r] =>
          /\ users[u] # None
          /\ \/ users[u].email # None
             \/ \E x \in Subjects : links[x] = u /\ MethodOf[x] # MethodOf[job[r].subject]

WaysInv == OneLinkEach /\ \A r \in Requests : CountOK(r)

\* An account that is not deleted stays, and keeps having an address.
Stays ==
  /\ gone \subseteq gone'
  /\ \A u \in Ids : users[u] # None /\ u \notin gone'
       => users'[u] # None /\ (users[u].email # None => users'[u].email # None)

\* Who counted is told of a link that goes, but for those of a deleted account.
Told(s) ==
  /\ moved[s] \subseteq moved'[s]
  /\ \A x \in Subjects, u \in Ids :
       links[x] = u /\ u \notin gone' => links'[x] = u \/ <<"link", u>> \in moved'[s]

LEMMA CountFrame ==
  ASSUME IInv, NEW s \in Requests, CountOK(s), Stays, Told(s),
         pc'[s] = pc[s], job'[s] = job[s]
  PROVE  CountOK(s)'
<1>1. CASE pc[s] \notin {"ways", "unlink"}
  BY <1>1 DEF CountOK
<1>2. CASE pc[s] \in {"ways", "unlink"}
  <2>1. PICK u \in Ids : u = job[s].who
    BY <1>2 DEF IInv, Knows
  <2>2. ASSUME pc[s] = "ways", u \notin gone'
        PROVE  users'[u] # None /\ (job[s].mail # None => users'[u].email # None)
    <3>1. u \notin gone
      BY <2>2 DEF Stays
    <3>2. users[u] # None /\ (job[s].mail # None => users[u].email # None)
      BY <2>1, <2>2, <3>1 DEF CountOK
    <3> QED BY <2>2, <3>2 DEF Stays
  <2>3. ASSUME pc[s] = "unlink", u \notin gone', <<"link", u>> \notin moved'[s]
        PROVE  /\ users'[u] # None
               /\ \/ users'[u].email # None
                  \/ \E x \in Subjects : links'[x] = u /\ MethodOf[x] # MethodOf[job[s].subject]
    <3>1. u \notin gone /\ <<"link", u>> \notin moved[s]
      BY <2>3 DEF Stays, Told
    <3>2. /\ users[u] # None
          /\ \/ users[u].email # None
             \/ \E x \in Subjects : links[x] = u /\ MethodOf[x] # MethodOf[job[s].subject]
      BY <2>1, <2>3, <3>1 DEF CountOK
    <3>3. \A x \in Subjects : links[x] = u => links'[x] = u
      BY <2>3 DEF Told
    <3> QED BY <2>3, <3>2, <3>3 DEF Stays
  <2> QED BY <2>1, <2>2, <2>3 DEF CountOK
<1> QED BY <1>1, <1>2

LEMMA WaysStep ==
  ASSUME IInv, WaysInv, NEW r \in Requests, NEW label, NEW j, GoWith(r, label, j),
         Stays, \A s \in Requests \ {r} : Told(s), OneLinkEach', CountOK(r)'
  PROVE  WaysInv'
<1>1. ASSUME NEW s \in Requests \ {r} PROVE CountOK(s)'
  <2>1. pc'[s] = pc[s] /\ job'[s] = job[s]
    BY Moves DEF IInv
  <2> QED BY <2>1, CountFrame DEF WaysInv
<1> QED BY <1>1 DEF WaysInv

\* A handler that stands at neither call relies on no count.
LEMMA NoCount ==
  ASSUME IInv, NEW r \in Requests, NEW label, NEW j, GoWith(r, label, j),
         label \notin {"ways", "unlink"}
  PROVE  CountOK(r)'
<1>1. pc'[r] = label
  BY Moves DEF IInv
<1> QED BY <1>1 DEF CountOK

\* Others keep what they were told.
LEMMA TellsNothing ==
  ASSUME IInv, NEW r \in Requests, moved' = moved \/ Looking(r)
  PROVE  \A s \in Requests \ {r} : moved'[s] = moved[s]
BY DEF Looking, IInv, TypeOK

\* A step that changes no account and no link.
LEMMA StandStep ==
  ASSUME IInv, WaysInv, NEW r \in Requests, NEW label, NEW j, GoWith(r, label, j),
         UNCHANGED <<users, links, gone>>, moved' = moved \/ Looking(r), CountOK(r)'
  PROVE  WaysInv'
<1>1. Stays
  BY DEF Stays
<1>2. \A s \in Requests \ {r} : Told(s)
  BY TellsNothing DEF Told
<1>3. OneLinkEach'
  BY DEF WaysInv, OneLinkEach
<1> QED BY <1>1, <1>2, <1>3, WaysStep

LEMMA StandFree ==
  ASSUME IInv, WaysInv, NEW r \in Requests, NEW label, NEW j, GoWith(r, label, j),
         UNCHANGED <<users, links, gone>>, moved' = moved \/ Looking(r),
         label \notin {"ways", "unlink"}
  PROVE  WaysInv'
BY NoCount, StandStep

LEMMA StandEnd ==
  ASSUME IInv, WaysInv, NEW r \in Requests, Done(r),
         UNCHANGED <<users, links, gone>>, moved' = moved \/ Looking(r)
  PROVE  WaysInv'
BY StandFree DEF Done

\* A step that writes rows of accounts, and no link.
LEMMA RowsStep ==
  ASSUME IInv, WaysInv, NEW r \in Requests, NEW label, NEW j, GoWith(r, label, j),
         UNCHANGED <<links, gone>>, \A s \in Requests \ {r} : moved[s] \subseteq moved'[s],
         label \notin {"ways", "unlink"},
         \A u \in Ids : users[u] # None
           => users'[u] # None /\ (users[u].email # None => users'[u].email # None)
  PROVE  WaysInv'
<1>1. Stays
  BY DEF Stays
<1>2. \A s \in Requests \ {r} : Told(s)
  BY DEF Told
<1>3. OneLinkEach'
  BY DEF WaysInv, OneLinkEach
<1> QED BY <1>1, <1>2, <1>3, NoCount, WaysStep

\* An unlink starts at the count, with the address its session's account has.
LEMMA StartWays ==
  ASSUME IInv, WaysInv, NEW r \in Requests, Start(r)
  PROVE  WaysInv'
<1>1. ASSUME NEW j, j.kind \in Kinds, j.kind # "unlink", Begin(r, j)
      PROVE  WaysInv'
  <2>1. FirstCall[j.kind] \notin {"ways", "unlink"}
    BY <1>1 DEF Kinds, FirstCall
  <2> QED BY <1>1, <2>1, StandFree DEF Begin
<1>2. ASSUME NEW u \in sessions, BeginAs(r, u, [For("unlink") EXCEPT !.mail = users[u].email])
      PROVE  WaysInv'
  <2> DEFINE j == [[For("unlink") EXCEPT !.mail = users[u].email] EXCEPT !.who = u, !.session = u]
  <2>1. u \in Ids /\ users[u] # None
    BY SessionLives
  <2>2. j.kind = "unlink" /\ j.who = u /\ j.mail = users[u].email
    BY DEF For, NoJob
  <2>3. Begin(r, j)
    BY <1>2 DEF BeginAs
  <2>4. GoWith(r, "ways", j)
    BY <2>2, <2>3, FirstCalls DEF Begin
  <2>5. pc'[r] = "ways" /\ job'[r] = j
    BY <2>4, Moves DEF IInv
  <2>6. UNCHANGED <<users, links, gone>> /\ Looking(r)
    BY <2>3 DEF Begin
  <2>7. CountOK(r)'
    <3>1. job'[r].who = u /\ job'[r].mail = users'[u].email /\ users'[u] # None
      BY <2>1, <2>2, <2>5, <2>6
    <3> QED BY <2>5, <3>1 DEF CountOK
  <2> HIDE DEF j
  <2> QED BY <2>4, <2>6, <2>7, StandStep
<1>3. ASSUME NEW d \in Ids, NEW e \in Emails, BeginAt(r, d, [For("register") EXCEPT !.mail = e])
      PROVE  WaysInv'
  <2> DEFINE j == [[For("register") EXCEPT !.mail = e] EXCEPT !.who = d]
  <2>1. j.kind = "register" /\ j.kind \in Kinds
    BY DEF For, NoJob, Kinds
  <2> QED BY <1>1, <1>3, <2>1 DEF BeginAt
<1>4. ASSUME NEW e \in Emails, NEW kind \in {"login", "recover", "code"},
             Begin(r, [For(kind) EXCEPT !.mail = e])
      PROVE  WaysInv'
  <2> DEFINE j == [For(kind) EXCEPT !.mail = e]
  <2>1. j.kind = kind /\ j.kind \in Kinds
    BY DEF For, NoJob, Kinds
  <2> QED BY <1>1, <1>4, <2>1
<1>5. ASSUME NEW kind \in {"reset", "confirm"}, Begin(r, For(kind))
      PROVE  WaysInv'
  <2>1. For(kind).kind = kind /\ kind \in Kinds
    BY DEF For, NoJob, Kinds
  <2> QED BY <1>1, <1>5, <2>1
<1>6. ASSUME NEW d \in Ids, NEW x \in Subjects, NEW e \in Emails \cup {None},
             BeginAt(r, d, [For("social") EXCEPT !.subject = x, !.mail = e])
      PROVE  WaysInv'
  <2> DEFINE j == [[For("social") EXCEPT !.subject = x, !.mail = e] EXCEPT !.who = d]
  <2>1. j.kind = "social" /\ j.kind \in Kinds
    BY DEF For, NoJob, Kinds
  <2> QED BY <1>1, <1>6, <2>1 DEF BeginAt
<1>7. ASSUME NEW u, NEW x \in Subjects, NEW e \in Emails \cup {None},
             BeginAs(r, u, [For("social") EXCEPT !.subject = x, !.mail = e])
      PROVE  WaysInv'
  <2> DEFINE j == [[For("social") EXCEPT !.subject = x, !.mail = e]
                     EXCEPT !.who = u, !.session = u]
  <2>1. j.kind = "social" /\ j.kind \in Kinds
    BY DEF For, NoJob, Kinds
  <2> QED BY <1>1, <1>7, <2>1 DEF BeginAs
<1>8. ASSUME NEW u, NEW kind \in {"password", "delete"}, BeginAs(r, u, For(kind))
      PROVE  WaysInv'
  <2> DEFINE j == [For(kind) EXCEPT !.who = u, !.session = u]
  <2>1. j.kind = kind /\ j.kind \in Kinds
    BY DEF For, NoJob, Kinds
  <2> QED BY <1>1, <1>8, <2>1 DEF BeginAs
<1>9. ASSUME NEW u, NEW e, BeginAs(r, u, [For("email") EXCEPT !.mail = e])
      PROVE  WaysInv'
  <2> DEFINE j == [[For("email") EXCEPT !.mail = e] EXCEPT !.who = u, !.session = u]
  <2>1. j.kind = "email" /\ j.kind \in Kinds
    BY DEF For, NoJob, Kinds
  <2> QED BY <1>1, <1>9, <2>1 DEF BeginAs
<1>10. ASSUME NEW u, NEW e, BeginAs(r, u, [For("resend") EXCEPT !.mail = e, !.key = "confirm"])
       PROVE  WaysInv'
  <2> DEFINE j == [[For("resend") EXCEPT !.mail = e, !.key = "confirm"]
                     EXCEPT !.who = u, !.session = u]
  <2>1. j.kind = "resend" /\ j.kind \in Kinds
    BY DEF For, NoJob, Kinds
  <2> QED BY <1>1, <1>10, <2>1 DEF BeginAs
<1> QED BY <1>2, <1>3, <1>4, <1>5, <1>6, <1>7, <1>8, <1>9, <1>10 DEF Start

\* Steps that only look, and steps on sessions, passwords and keys.
LEMMA LookWays ==
  ASSUME IInv, WaysInv, NEW r \in Requests,
         \/ Match(r) \/ Session(r) \/ FindIdentity(r) \/ FindByEmail(r) \/ Claim(r) \/ Again(r)
         \/ LinkOwner(r)
  PROVE  WaysInv'
<1>1. CASE Match(r)
  BY <1>1, StandFree, StandEnd DEF Match
<1>2. CASE Session(r)
  BY <1>2, StandFree, StandEnd DEF Session, Go
<1>3. CASE FindIdentity(r)
  <2>1. UNCHANGED <<users, links, gone>> /\ moved' = moved
    BY <1>3 DEF FindIdentity
  <2>2. Done(r) \/ \E label \in {"session", "link", "byemail", "claim"} : \E j : GoWith(r, label, j)
    <3> DEFINE owner == links[job[r].subject]
               me    == job[r].session
    <3>1. CASE owner # None /\ me \in {None, owner}
      BY <1>3, <3>1 DEF FindIdentity
    <3>2. CASE owner # None /\ me \notin {None, owner}
      BY <1>3, <3>2 DEF FindIdentity
    <3>3. CASE owner = None /\ me # None
      BY <1>3, <3>3 DEF FindIdentity, Go
    <3>4. CASE owner = None /\ me = None
      BY <1>3, <3>4 DEF FindIdentity, Go
    <3> QED BY <3>1, <3>2, <3>3, <3>4
  <2> QED BY <2>1, <2>2, StandFree, StandEnd
<1>4. CASE FindByEmail(r)
  BY <1>4, StandFree DEF FindByEmail, Go
<1>5. CASE Claim(r)
  BY <1>5, StandFree, StandEnd DEF Claim, Go
<1>6. CASE Again(r)
  BY <1>6, StandFree DEF Again, Go
<1>7. CASE LinkOwner(r)
  BY <1>7, StandFree, StandEnd DEF LinkOwner, AfterLink, Go
<1> QED BY <1>1, <1>2, <1>3, <1>4, <1>5, <1>6, <1>7

LEMMA KeyWays ==
  ASSUME IInv, WaysInv, NEW r \in Requests,
         \/ FindForRecovery(r) \/ DeleteUnused(r) \/ IssueToken(r) \/ ConsumeToken(r)
         \/ FindForCode(r)
         \/ ConsumeByCode(r) \/ SetPassword(r) \/ CheckSecret(r) \/ AddressFree(r) \/ Abort(r)
  PROVE  WaysInv'
<1>1. CASE FindForRecovery(r)
  BY <1>1, StandFree, StandEnd DEF FindForRecovery, store
<1>2. CASE DeleteUnused(r)
  BY <1>2, StandFree DEF DeleteUnused, store
<1>3. CASE ConsumeToken(r)
  <2>1. UNCHANGED <<users, links, gone>> /\ moved' = moved
    BY <1>3 DEF ConsumeToken
  <2>2. Done(r) \/ \E label \in {"secret", "confirm", "replace"} : \E j : GoWith(r, label, j)
    BY <1>3 DEF ConsumeToken
  <2> QED BY <2>1, <2>2, StandFree, StandEnd
<1>4. CASE FindForCode(r)
  BY <1>4, StandFree, StandEnd DEF FindForCode, store
<1>5. CASE ConsumeByCode(r)
  <2>1. UNCHANGED <<users, links, gone>> /\ moved' = moved
    BY <1>5 DEF ConsumeByCode
  <2>2. Done(r) \/ Go(r, "secret")
    BY <1>5 DEF ConsumeByCode
  <2> QED BY <2>1, <2>2, StandFree, StandEnd DEF Go
<1>6. CASE SetPassword(r)
  BY <1>6, StandFree, StandEnd DEF SetPassword, Go
<1>7. CASE CheckSecret(r)
  <2>1. UNCHANGED <<users, links, gone>> /\ moved' = moved
    BY <1>7 DEF CheckSecret, store
  <2>2. Done(r) \/ Go(r, "free") \/ Go(r, "secret")
    BY <1>7 DEF CheckSecret
  <2> QED BY <2>1, <2>2, StandFree, StandEnd DEF Go
<1>8. CASE AddressFree(r)
  BY <1>8, StandFree, StandEnd DEF AddressFree, store
<1>9. CASE Abort(r)
  BY <1>9, StandEnd DEF Abort, store
<1>10. CASE IssueToken(r)
  <2>1. UNCHANGED <<users, links, gone>> /\ GoWith(r, "idle", NoJob)
        /\ \A s \in Requests : moved[s] \subseteq moved'[s]
    BY <1>10 DEF IssueToken, Done, IInv, TypeOK
  <2> QED BY <2>1, RowsStep
<1> QED BY <1>1, <1>2, <1>3, <1>4, <1>5, <1>6, <1>7, <1>8, <1>9, <1>10

LEMMA ExpireWays ==
  ASSUME IInv, WaysInv, NEW t \in Tokens, Expire(t)
  PROVE  WaysInv'
BY DEF Expire, WaysInv, OneLinkEach, CountOK

\* A row that is inserted was none.
LEMMA InsertedRow ==
  ASSUME IInv, NEW u, NEW e, NEW c, users[u] = None, InsertUser(u, e, c)
  PROVE  \A v \in Ids : users[v] # None => users'[v] = users[v]
BY DEF InsertUser, IInv, TypeOK

LEMMA InsertWays ==
  ASSUME IInv, WaysInv, NEW r \in Requests, Insert(r) \/ Create(r)
  PROVE  WaysInv'
<1>1. UNCHANGED <<links, gone>> /\ (moved' = moved \/ Looking(r))
  BY DEF Insert, Create
<1>2. \A v \in Ids : users[v] # None => users'[v] = users[v]
  <2>1. \/ users' = users
        \/ \E u, e, c : users[u] = None /\ InsertUser(u, e, c)
    BY DEF Insert, Create, Insertable
  <2> QED BY <2>1, InsertedRow
<1>3. Done(r) \/ \E label \in {"session", "link", "bare"} : \E j : GoWith(r, label, j)
  <2>1. CASE Insert(r)
    BY <2>1 DEF Insert
  <2>2. CASE Create(r)
    BY <2>2 DEF Create, Go
  <2> QED BY <2>1, <2>2
<1>4. \A s \in Requests \ {r} : moved[s] \subseteq moved'[s]
  BY <1>1, TellsNothing
<1>5. PICK label \in {"idle", "session", "link", "bare"} : \E j : GoWith(r, label, j)
  BY <1>3 DEF Done
<1> QED BY <1>1, <1>2, <1>4, <1>5, RowsStep

LEMMA AttachWays ==
  ASSUME IInv, WaysInv, NEW r \in Requests, AttachEmail(r)
  PROVE  WaysInv'
<1>1. UNCHANGED <<links, gone, moved>> /\ GoWith(r, "session", job[r])
  BY DEF AttachEmail, Go
<1>2. job[r].mail # None
  BY NoneAssumption DEF AttachEmail, IInv, Knows
<1>3. ASSUME NEW u \in Ids, users[u] # None
      PROVE  users'[u] # None /\ (users[u].email # None => users'[u].email # None)
  <2>1. CASE users' = users
    BY <1>3, <2>1
  <2>2. CASE users' # users
    <3>1. PICK c \in BOOLEAN :
            users' = [users EXCEPT ![job[r].who] = [email |-> job[r].mail, confirmed |-> c]]
      BY <2>2 DEF AttachEmail
    <3>2. CASE u = job[r].who
      <4>1. users'[u] = [email |-> job[r].mail, confirmed |-> c]
        BY <3>1, <3>2 DEF IInv, TypeOK
      <4>2. job[r].mail \in Emails
        BY DEF AttachEmail, IInv, Knows
      <4>3. users'[u] \in UserType
        BY <4>1, <4>2 DEF UserType
      <4> QED BY <1>2, <4>1, <4>3, NoneAssumption
    <3>3. CASE u # job[r].who
      BY <1>3, <3>1, <3>3 DEF IInv, TypeOK
    <3> QED BY <3>2, <3>3
  <2> QED BY <2>1, <2>2
<1> QED BY <1>1, <1>3, RowsStep

LEMMA ConfirmWays ==
  ASSUME IInv, WaysInv, NEW r \in Requests, ConfirmEmail(r)
  PROVE  WaysInv'
<1>1. UNCHANGED <<links, gone, moved>>
  BY DEF ConfirmEmail
<1>2. PICK label \in {"idle", "session"} : \E j : GoWith(r, label, j)
  BY DEF ConfirmEmail, Done, Go
<1>3. ASSUME NEW u \in Ids, users[u] # None
      PROVE  users'[u] # None /\ (users[u].email # None => users'[u].email # None)
  <2>1. users[u] \in UserType
    BY <1>3 DEF IInv, TypeOK
  <2>2. users'[u] = users[u] \/ users'[u] = [users[u] EXCEPT !.confirmed = TRUE]
    BY DEF ConfirmEmail, confirm_email, IInv, TypeOK
  <2>3. /\ [users[u] EXCEPT !.confirmed = TRUE] \in UserType
        /\ [users[u] EXCEPT !.confirmed = TRUE].email = users[u].email
    BY <2>1 DEF UserType
  <2> QED BY <1>3, <2>2, <2>3, NoneAssumption
<1> QED BY <1>1, <1>2, <1>3, RowsStep

LEMMA ReplaceWays ==
  ASSUME IInv, WaysInv, NEW r \in Requests, ReplaceEmail(r)
  PROVE  WaysInv'
<1>1. UNCHANGED <<links, gone>> /\ GoWith(r, "idle", NoJob)
  BY DEF ReplaceEmail, Done
<1>2. job[r].mail \in Emails
  BY DEF ReplaceEmail, IInv, Knows
<1>3. \A s \in Requests : moved[s] \subseteq moved'[s]
  BY DEF ReplaceEmail, Moving
<1>4. ASSUME NEW u \in Ids, users[u] # None
      PROVE  users'[u] # None /\ (users[u].email # None => users'[u].email # None)
  <2>1. users' = users
          \/ users' = [users EXCEPT ![job[r].who] = [email |-> job[r].mail, confirmed |-> TRUE]]
    BY DEF ReplaceEmail, replace_email
  <2>2. users'[u] = users[u] \/ users'[u] = [email |-> job[r].mail, confirmed |-> TRUE]
    BY <2>1 DEF IInv, TypeOK
  <2>3. [email |-> job[r].mail, confirmed |-> TRUE] \in UserType
    BY <1>2 DEF UserType
  <2> QED BY <1>2, <1>4, <2>2, <2>3, NoneAssumption
<1> QED BY <1>1, <1>3, <1>4, RowsStep

\* An account and its links go together, and are noted.
LEMMA DeleteWays ==
  ASSUME IInv, WaysInv, NEW r \in Requests, DeleteUser(r)
  PROVE  WaysInv'
<1>1. /\ GoWith(r, "idle", NoJob) /\ moved' = moved
      /\ gone' = gone \cup {job[r].who}
      /\ users' = [users EXCEPT ![job[r].who] = None]
      /\ links' = [s \in Subjects |-> IF links[s] = job[r].who THEN None ELSE links[s]]
  BY DEF DeleteUser, delete_user, Done
<1>2. Stays
  BY <1>1 DEF Stays, IInv, TypeOK
<1>3. \A s \in Requests \ {r} : Told(s)
  BY <1>1 DEF Told
<1>4. OneLinkEach'
  BY <1>1 DEF WaysInv, OneLinkEach
<1> QED BY <1>1, <1>2, <1>3, <1>4, NoCount, WaysStep

\* A provider that an account has linked is not linked to it again.
LEMMA LinkWays ==
  ASSUME IInv, WaysInv, NEW r \in Requests, CreateIdentity(r)
  PROVE  WaysInv'
<1> DEFINE u == job[r].who
           s == job[r].subject
<1>1. UNCHANGED <<users, gone, moved>>
  BY DEF CreateIdentity
<1>2. PICK label \in {"idle", "owner", "attach", "session"} : \E j : GoWith(r, label, j)
  <2>1. CASE IdentityTaken(s)
    BY <2>1 DEF CreateIdentity, Go
  <2>2. CASE ~IdentityTaken(s) /\ (MethodTaken(s, u) \/ users[u] = None)
    BY <2>2 DEF CreateIdentity, Done
  <2>3. CASE ~IdentityTaken(s) /\ ~(MethodTaken(s, u) \/ users[u] = None)
    BY <2>3 DEF CreateIdentity, AfterLink, Go
  <2> QED BY <2>1, <2>2, <2>3
<1>3. links' = links \/ (/\ links' = [links EXCEPT ![s] = u]
                         /\ ~IdentityTaken(s) /\ ~MethodTaken(s, u))
  <2>1. CASE IdentityTaken(s)
    BY <2>1 DEF CreateIdentity
  <2>2. CASE ~IdentityTaken(s) /\ (MethodTaken(s, u) \/ users[u] = None)
    BY <2>2 DEF CreateIdentity
  <2>3. CASE ~IdentityTaken(s) /\ ~(MethodTaken(s, u) \/ users[u] = None)
    BY <2>3 DEF CreateIdentity
  <2> QED BY <2>1, <2>2, <2>3
<1>4. s \in Subjects /\ u \in Ids
  BY DEF CreateIdentity, IInv, Knows
<1>5. Stays
  BY <1>1 DEF Stays
<1>6. \A x \in Subjects : links[x] # None => links'[x] = links[x]
  BY <1>3 DEF IdentityTaken, IInv, TypeOK
<1>7. \A x \in Requests \ {r} : Told(x)
  BY <1>1, <1>6, NoneAssumption DEF Told
<1>8. OneLinkEach'
  <2>1. CASE links' = links
    BY <2>1 DEF WaysInv, OneLinkEach
  <2>2. CASE links' = [links EXCEPT ![s] = u] /\ ~MethodTaken(s, u)
    <3>1. \A x \in Subjects : links'[x] = IF x = s THEN u ELSE links[x]
      BY <2>2 DEF IInv, TypeOK
    <3>2. \A x \in Subjects : links[x] = u => MethodOf[x] # MethodOf[s]
      BY <2>2 DEF MethodTaken, LinksOf
    <3> HIDE DEF s, u
    <3> QED BY <3>1, <3>2 DEF WaysInv, OneLinkEach
  <2> QED BY <1>3, <2>1, <2>2
<1> QED BY <1>1, <1>2, <1>5, <1>7, <1>8, NoCount, WaysStep

\* More ways than one leave one that is not of the provider.
LEMMA CountWaysWays ==
  ASSUME IInv, WaysInv, NEW r \in Requests, CountWays(r)
  PROVE  WaysInv'
<1> DEFINE u == job[r].who
<1>1. UNCHANGED <<users, links, gone>> /\ Looking(r)
  BY DEF CountWays, store
<1>2. CASE Done(r)
  BY <1>1, <1>2, StandEnd
<1>3. CASE \E s \in Subjects : /\ links[s] = u /\ Ways(u, job[r].mail) > 1
                               /\ GoWith(r, "unlink", [job[r] EXCEPT !.subject = s])
  <2>1. PICK s \in Subjects : /\ links[s] = u /\ Ways(u, job[r].mail) > 1
                              /\ GoWith(r, "unlink", [job[r] EXCEPT !.subject = s])
    BY <1>3
  <2> DEFINE j == [job[r] EXCEPT !.subject = s]
  <2>2. j.who = u /\ j.subject = s
    BY DEF IInv, TypeOK, JobType
  <2>3. pc'[r] = "unlink" /\ job'[r] = j
    BY <2>1, Moves DEF IInv
  <2>4. u \in Ids
    BY DEF CountWays, IInv, Knows
  <2>5. ASSUME u \notin gone
        PROVE  /\ users[u] # None
               /\ \/ users[u].email # None
                  \/ \E x \in Subjects : links[x] = u /\ MethodOf[x] # MethodOf[s]
    <3>1. users[u] # None /\ (job[r].mail # None => users[u].email # None)
      BY <2>5 DEF CountWays, WaysInv, CountOK
    <3>2. CASE job[r].mail # None
      BY <3>1, <3>2
    <3>3. CASE job[r].mail = None
      <4>1. LinksOf(u) # {s}
        <5>1. ASSUME LinksOf(u) = {s} PROVE FALSE
          <6>1. Cardinality(LinksOf(u)) = 1
            BY <5>1, FS_Singleton
          <6>2. Ways(u, job[r].mail) = 1
            BY <3>3, <6>1 DEF Ways
          <6> QED BY <2>1, <6>2
        <5> QED BY <5>1
      <4>2. s \in LinksOf(u)
        BY <2>1 DEF LinksOf
      <4>3. PICK x \in LinksOf(u) : x # s
        BY <4>1, <4>2
      <4>4. x \in Subjects /\ links[x] = u /\ u # None
        BY <2>4, <4>3, NoneAssumption DEF LinksOf
      <4>5. MethodOf[x] # MethodOf[s]
        BY <2>1, <4>3, <4>4 DEF WaysInv, OneLinkEach
      <4> QED BY <3>1, <4>4, <4>5
    <3> QED BY <3>2, <3>3
  <2>6. CountOK(r)'
    <3>1. job'[r].who = u /\ job'[r].subject = s
      BY <2>2, <2>3
    <3> HIDE DEF u, j
    <3> QED BY <1>1, <2>3, <2>5, <3>1 DEF CountOK
  <2> HIDE DEF j, u
  <2> QED BY <1>1, <2>1, <2>6, StandStep DEF j
<1> QED BY <1>2, <1>3 DEF CountWays

\* What an unlink takes leaves a way in, if it was told of no other.
UnlinkLeaves(r) ==
  Unlinks(r) /\ job[r].who \notin gone => Stale(r, "link") \/ StillReachable(job[r].who)

LEMMA UnlinkWays ==
  ASSUME IInv, WaysInv, NEW r \in Requests, DeleteIdentity(r)
  PROVE  WaysInv' /\ UnlinkLeaves(r)
<1> DEFINE u == job[r].who
           taken == {s \in LinksOf(u) : MethodOf[s] = MethodOf[job[r].subject]}
<1>1. /\ pc[r] = "unlink" /\ GoWith(r, "idle", NoJob) /\ UNCHANGED <<users, gone>>
      /\ links' = [s \in Subjects |-> IF s \in taken THEN None ELSE links[s]]
      /\ Moving("link", u)
  BY DEF DeleteIdentity, Done
<1>2. u \in Ids
  BY <1>1 DEF IInv, Knows
<1>3. \A x \in Subjects :
        /\ links'[x] = links[x] \/ (links[x] = u /\ links'[x] = None)
        /\ links[x] = u /\ MethodOf[x] # MethodOf[job[r].subject] => links'[x] = u
  BY <1>1 DEF LinksOf
<1>4. \A s \in Requests : moved'[s] = moved[s] \cup {<<"link", u>>}
  BY <1>1 DEF Moving
<1> HIDE DEF u, taken
<1>5. Stays
  BY <1>1 DEF Stays
<1>6. \A s \in Requests \ {r} : Told(s)
  BY <1>3, <1>4 DEF Told
<1>7. OneLinkEach'
  BY <1>3 DEF WaysInv, OneLinkEach
<1>8. WaysInv'
  BY <1>1, <1>5, <1>6, <1>7, NoCount, WaysStep
<1>9. UnlinkLeaves(r)
  <2> SUFFICES ASSUME u \notin gone, <<"link", u>> \notin moved[r]
               PROVE  users'[u].email # None \/ \E x \in Subjects : links'[x] = u
    BY DEF UnlinkLeaves, Stale, StillReachable, u
  <2>1. users[u].email # None
          \/ \E x \in Subjects : links[x] = u /\ MethodOf[x] # MethodOf[job[r].subject]
    BY <1>1 DEF WaysInv, CountOK, u
  <2> QED BY <1>1, <1>3, <2>1
<1> QED BY <1>8, <1>9

LEMMA InitWays == Init => WaysInv
<1> SUFFICES ASSUME Init PROVE WaysInv
  OBVIOUS
<1>1. PICK w \in Worlds : links = w.links
  BY DEF Init
<1>2. OneLinkEach
  BY <1>1, WorldsAssumption DEF OneLinkEach
<1>3. \A r \in Requests : pc[r] = "idle"
  BY DEF Init
<1> QED BY <1>2, <1>3 DEF WaysInv, CountOK

LEMMA RequestWays ==
  ASSUME IInv, WaysInv, NEW r \in Requests, RequestNext(r)
  PROVE  WaysInv'
BY StartWays, InsertWays, LookWays, LinkWays, AttachWays, CountWaysWays, UnlinkWays, KeyWays,
   ConfirmWays, ReplaceWays, DeleteWays DEF RequestNext

LEMMA WaysInductive == Spec => []WaysInv
<1>1. IInv /\ WaysInv /\ [Next]_vars => WaysInv'
  <2> SUFFICES ASSUME IInv, WaysInv, [Next]_vars PROVE WaysInv'
    OBVIOUS
  <2>1. CASE Next
    BY <2>1, RequestWays, ExpireWays DEF Next
  <2>2. CASE UNCHANGED vars
    BY <2>2 DEF vars, WaysInv, OneLinkEach, CountOK
  <2> QED BY <2>1, <2>2
<1> QED BY InitWays, <1>1, Inductive, PTL DEF Spec

\* Only DeleteIdentity leaves the call at which a link is deleted, with links changed.
LEMMA UnlinksBy ==
  ASSUME IInv, NEW r \in Requests, Unlinks(r), Next
  PROVE  DeleteIdentity(r)
<1>1. pc[r] = "unlink" /\ pc'[r] = "idle" /\ links' # links
  BY DEF Unlinks
<1>2. ASSUME NEW t \in Tokens, Expire(t) PROVE FALSE
  BY <1>1, <1>2 DEF Expire
<1>3. PICK s \in Requests : RequestNext(s)
  BY <1>2 DEF Next
<1>4. CASE s = r
  <2>1. \/ ~(pc[r] = "unlink") \/ DeleteIdentity(r) \/ Abort(r)
    BY <1>3, <1>4 DEF RequestNext, Start, BeginAt, BeginAs, Begin, Insert, Match, Session,
       FindIdentity, FindByEmail, Claim, Again, Create, CreateIdentity, LinkOwner, AttachEmail,
       CountWays, FindForRecovery, DeleteUnused, IssueToken, ConsumeToken, FindForCode, ConsumeByCode,
       SetPassword, ConfirmEmail, ReplaceEmail, CheckSecret, AddressFree, DeleteUser
  <2>2. ~Abort(r)
    BY <1>1 DEF Abort, store
  <2> QED BY <1>1, <2>1, <2>2
<1>5. CASE s # r
  <2>1. \E label, j : GoWith(s, label, j)
    BY <1>3 DEF RequestNext, Start, BeginAt, BeginAs, Begin, Insert, Match, Session,
       FindIdentity, FindByEmail, Claim, Again, Create, CreateIdentity, LinkOwner, AttachEmail,
       CountWays, FindForRecovery, DeleteUnused, IssueToken, ConsumeToken, FindForCode, ConsumeByCode,
       SetPassword, ConfirmEmail, ReplaceEmail, CheckSecret, AddressFree, DeleteUser,
       DeleteIdentity, Abort, Done, Go, AfterLink
  <2>2. pc'[r] = pc[r]
    BY <1>5, <2>1, Moves DEF IInv
  <2> QED BY <1>1, <2>2
<1> QED BY <1>4, <1>5

-----------------------------------------------------------------------------
(* The theorems.                                                            *)

\* Every variable of the identity store and of its handlers keeps its type, however
\* the requests of any number of people interleave and die (handlers/auth.rs).
THEOREM TypeCorrect == Spec => []TypeOK
<1>1. IInv => TypeOK
  BY DEF IInv
<1> QED BY Inductive, <1>1, PTL

\* The unique index of addresses is always the inverse of the accounts' addresses: no
\* address opens two accounts, and none stays taken by an account that left it
\* (register_user, attach_email, replace_email and delete_user of the stores).
THEOREM AddressesAgree == Spec => []IndexAgrees
<1>1. IInv => IndexAgrees
  BY DEF IInv
<1> QED BY Inductive, <1>1, PTL

\* No password, link or session ever belongs to an account that does not exist, also
\* when the account is deleted under a sign-in in flight (delete_account).
THEOREM NothingOutlives == Spec => []NoOrphans
<1>1. IInv => NoOrphans
  BY DEF IInv
<1> QED BY Inductive, <1>1, PTL

\* What counts as a confirmed address was proved reachable for that account, by a mail
\* sent to it or by its provider, although the address may move between the mail, the
\* click and the confirmation (reset, confirm, replace_email).
THEOREM ConfirmedProved == Spec => []ConfirmedIsProved
<1>1. IInv => ConfirmedIsProved
  BY DEF IInv
<1> QED BY Inductive, <1>1, PTL

\* The latest mail wins: two keys of one kind work at once only when neither was there
\* as the other was asked for, the transactions that issue them overlapped; and a key
\* went to the address the account has now, unless that moved while the mail was
\* written (create_auth_token, replace_email).
THEOREM KeysGood == Spec => []GoodKeys
<1>1. IInv /\ LatestInv => GoodKeys
  <2> SUFFICES ASSUME IInv, LatestInv PROVE GoodKeys
    OBVIOUS
  <2>1. ASSUME NEW t \in Tokens, tokens[t] # None, ~tokens[t].used,
               tokens[t].kind # "email_change", users[tokens[t].user] # None,
               tokens[t].user \notin gone
        PROVE  tokens[t].late \/ tokens[t].to = users[tokens[t].user].email
    BY <2>1 DEF IInv, Keys, KeyOK, Alive
  <2>2. ASSUME NEW u \in Ids, NEW kind \in TokenKinds,
               NEW x \in Unused(u, kind), NEW y \in Unused(u, kind)
        PROVE  x = y \/ x \in tokens[y].rivals \/ y \in tokens[x].rivals
    BY DEF LatestInv, OneKey, Works, Alike, Unused
  <2> QED BY <2>1, <2>2 DEF GoodKeys
<1> QED BY Inductive, LatestInductive, <1>1, PTL

\* An unlink leaves its account an address or another provider, unless a second unlink
\* has taken one away since this one counted them, or the account was deleted under it
\* (auth_unlink and reachable_ways, over the unique index of account and provider).
THEOREM UnlinkLeavesAWay == Spec => UnlinkKeepsAWay
<1>1. ASSUME IInv, WaysInv, Next, NEW r \in Requests
      PROVE  UnlinkLeaves(r)
  <2>1. CASE Unlinks(r)
    BY <1>1, <2>1, UnlinksBy, UnlinkWays
  <2>2. CASE ~Unlinks(r)
    BY <2>2 DEF UnlinkLeaves
  <2> QED BY <2>1, <2>2
<1>2. IInv /\ WaysInv /\ [Next]_vars =>
        [\A r \in Requests :
           Unlinks(r) /\ job[r].who \notin gone
             => Stale(r, "link") \/ StillReachable(job[r].who)]_vars
  BY <1>1 DEF UnlinkLeaves
<1> QED BY <1>2, Inductive, WaysInductive, PTL DEF Spec, UnlinkKeepsAWay

=============================================================================
