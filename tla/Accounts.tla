------------------------------ MODULE Accounts ------------------------------
(***************************************************************************)
(* Who may act for an account: backend/src/handlers/auth.rs (register,     *)
(* login, social login, unlink, recover, reset, confirm, change of address *)
(* and of password, deletion) over the identity store (store.rs,           *)
(* pg_store.rs).                                                           *)
(*                                                                         *)
(* A store call is atomic, but for the issuing of a key; a handler is not: *)
(* between two of its calls another may run, and it may die (Abort).       *)
(* Passwords and codes are not spelled out: whether the typed one matches  *)
(* is a choice.                                                            *)
(***************************************************************************)
EXTENDS Naturals, FiniteSets

CONSTANTS
  Ids,           \* user ids: each a device before it is an account
  Emails,        \* canonical addresses
  Subjects,      \* provider subjects: each is one person at one provider
  MethodOf,      \* subject -> its provider, "google" or "telegram"
  Tokens,        \* mailed single-use tokens
  Requests, Worlds, None,
  MaxCodeAttempts,
  MaxStarted,    \* bound: requests ever started
  MaxAborts      \* bound: handlers that die half way

Providers  == {"google", "telegram"}
TokenKinds == {"reset", "confirm", "email_change"}

UserType  == [email : Emails \cup {None}, confirmed : BOOLEAN]
\* `to` is the mailbox it was sent to, `late` says that the address had moved between
\* the read and the mail, and `rivals` are the keys issued while its own transaction
\* ran: the code keeps none of them, properties read them.
TokenType == [user : Ids, kind : TokenKinds, used : BOOLEAN, expired : BOOLEAN,
              attempts : Nat, payload : Emails \cup {None}, to : Emails, late : BOOLEAN,
              rivals : SUBSET Tokens]

ASSUME MethodAssumption == MethodOf \in [Subjects -> Providers]
ASSUME BoundsAssumption ==
  MaxCodeAttempts \in Nat /\ MaxStarted \in Nat /\ MaxAborts \in Nat
ASSUME NoneAssumption ==
  None \notin Ids \cup Emails \cup Subjects \cup Tokens /\ None \notin UserType \cup TokenType
\* The unique indexes and foreign keys held before, and no one confirmed an absent address.
ASSUME WorldsAssumption ==
  \A w \in Worlds :
    /\ w.users \in [Ids -> UserType \cup {None}]
    /\ \A u \in Ids : w.users[u] # None /\ w.users[u].confirmed => w.users[u].email # None
    /\ w.secrets \subseteq {u \in Ids : w.users[u] # None}
    /\ w.links \in [Subjects -> {u \in Ids : w.users[u] # None} \cup {None}]
    /\ \A u1, u2 \in Ids :
         w.users[u1] # None /\ w.users[u2] # None /\ w.users[u1].email = w.users[u2].email
           => u1 = u2 \/ w.users[u1].email = None
    /\ \A x, y \in Subjects :
         w.links[x] = w.links[y] /\ w.links[x] # None /\ MethodOf[x] = MethodOf[y] => x = y

VARIABLES
  users,     \* id -> account, None for an anonymous device
  index,     \* address -> the account it is a login for (the unique index)
  secrets,   \* accounts that have a password row
  links,     \* subject -> the account it signs in to
  sessions,  \* accounts with a live session
  tokens,    \* auth_tokens rows
  proofs,    \* <<id, address>>: the mailbox answered, or its provider vouches for it
  gone,      \* ids of deleted accounts; a device draws a new id after that
  pc, job,
  moved,     \* request -> what happened to accounts since it looked, and the keys that
             \* were issued while it issues one
  started, aborts

store == <<users, index, secrets, links, sessions, tokens, proofs, gone>>
vars  == <<users, index, secrets, links, sessions, tokens, proofs, gone, pc, job, moved,
           started, aborts>>

-----------------------------------------------------------------------------
(* The identity store.                                                      *)

NoAccount == [email |-> None, confirmed |-> FALSE]

\* ON CONFLICT DO NOTHING: a registered id or a taken address inserts no row.
Insertable(u, e) == users[u] = None /\ (e # None => index[e] = None)

\* faulty: every new address counts as confirmed
InsertTrusted(u, e, confirmed) ==
  /\ users' = [users EXCEPT ![u] = [email |-> e, confirmed |-> e # None]]
  /\ index' = IF e = None THEN index ELSE [index EXCEPT ![e] = u]

\* register_user and create_social_account: the row and its index entry.
InsertUser(u, e, confirmed) ==
  /\ users' = [users EXCEPT ![u] = [email |-> e, confirmed |-> confirmed]]
  /\ index' = IF e = None THEN index ELSE [index EXCEPT ![e] = u]

find_by_email(e) == index[e]

\* create_session and set_password refer to a users row: without one they fail.
create_session(u) == users[u] # None /\ sessions' = sessions \cup {u}
set_password(u)   == users[u] # None /\ secrets' = secrets \cup {u}

\* Idempotent: a confirmed address stays confirmed.
confirm_email(u) == users[u] # None /\ users' = [users EXCEPT ![u].confirmed = TRUE]

LinksOf(u) == {s \in Subjects : links[s] = u}

\* An INSERT the two unique constraints may reject, each with its own message.
IdentityTaken(s) == links[s] # None
MethodTaken(s, u) == \E x \in LinksOf(u) : MethodOf[x] = MethodOf[s]

Unused(u, kind) ==
  {t \in Tokens : tokens[t] # None /\ tokens[t].user = u /\ tokens[t].kind = kind /\ ~tokens[t].used}

\* A row that a running transaction has deleted is locked until that ends.
Locked(t) == \E r \in Requests : t \in job[r].doomed

\* consume_auth_token: one statement, so of two consumers one wins.
Consumable(t, kinds) ==
  tokens[t] # None /\ tokens[t].kind \in kinds /\ ~tokens[t].used /\ ~tokens[t].expired

\* The row a typed code is compared with: every call spends one of its attempts.
Active(u, kind) ==
  {t \in Unused(u, kind) : ~tokens[t].expired /\ tokens[t].attempts < MaxCodeAttempts}

\* faulty: the move keeps the keys mailed before it
KeysKept(u) == tokens

\* replace_email: the move revokes every outstanding mailed key.
KeysRevoked(u) ==
  [t \in Tokens |-> IF tokens[t] # None /\ tokens[t].user = u /\ ~tokens[t].used
                    THEN None ELSE tokens[t]]

\* faulty: the old address stays taken
IndexGrown(u, e) == [index EXCEPT ![e] = u]

\* The old address is released before the new one is entered.
IndexMoved(u, e) ==
  [x \in Emails |-> IF x = e THEN u ELSE IF x = users[u].email THEN None ELSE index[x]]

Replaceable(u, e) == users[u] # None /\ index[e] \in {None, u}

replace_email(u, e) ==
  /\ users' = [users EXCEPT ![u] = [email |-> e, confirmed |-> TRUE]]
  /\ index' = IndexMoved(u, e)
  /\ tokens' = KeysRevoked(u)

\* attach_email: only to an account that has no address yet.
Attachable(u, e) == users[u] # None /\ users[u].email = None /\ index[e] \in {None, u}

\* faulty: the sessions outlive the account
SessionsLeft(u) == sessions
SessionsEnded(u) == sessions \ {u}

delete_user(u) ==
  /\ users' = [users EXCEPT ![u] = None]
  /\ index' = [e \in Emails |-> IF index[e] = u THEN None ELSE index[e]]
  /\ sessions' = SessionsEnded(u)
  /\ tokens' = [t \in Tokens |-> IF tokens[t] # None /\ tokens[t].user = u THEN None ELSE tokens[t]]
  /\ links' = [s \in Subjects |-> IF links[s] = u THEN None ELSE links[s]]
  /\ secrets' = secrets \ {u}

WaysOff(u, email) == Cardinality(LinksOf(u)) + 1   \* faulty: an address is taken for granted

\* reachable_ways: every linked provider, and an address, with or without a password.
Ways(u, email) == Cardinality(LinksOf(u)) + (IF email # None THEN 1 ELSE 0)

-----------------------------------------------------------------------------
(* Requests.                                                                *)

Kinds == {"register", "login", "social", "unlink", "recover", "reset", "code",
          "confirm", "email", "resend", "password", "delete"}

\* The call each request makes once its caller is known.
FirstCall == [register |-> "insert", login |-> "match", social |-> "identity",
              unlink |-> "ways", recover |-> "find", reset |-> "consume",
              code |-> "whose", confirm |-> "consume", email |-> "record",
              resend |-> "mail", password |-> "record", delete |-> "delete"]

Calls == {"idle", "insert", "match", "identity", "byemail", "claim", "again", "create",
          "bare", "link", "owner", "attach", "session", "ways", "unlink", "find", "mail",
          "issue", "consume", "whose", "code", "secret", "confirm", "replace", "record", "free",
          "delete"}

NoJob == [kind |-> None, who |-> None, session |-> None, mail |-> None, subject |-> None,
          key |-> None, doomed |-> {}]

JobType == [kind : Kinds \cup {None}, who : Ids \cup {None}, session : Ids \cup {None},
            mail : Emails \cup {None}, subject : Subjects \cup {None},
            key : TokenKinds \cup {None}, doomed : SUBSET Tokens]

Notes == ({"link", "email"} \X Ids) \cup ({"key"} \X Tokens)

GoWith(r, label, j) == pc' = [pc EXCEPT ![r] = label] /\ job' = [job EXCEPT ![r] = j]
Go(r, label) == GoWith(r, label, job[r])
Done(r)      == GoWith(r, "idle", NoJob)

\* Who looked at account u before this step now holds a stale answer about it.
Moving(what, u) == moved' = [x \in Requests |-> moved[x] \cup {<<what, u>>}]
Looking(r)      == moved' = [moved EXCEPT ![r] = {}]
Stale(r, what)  == <<what, job[r].who>> \in moved[r]

Begin(r, j) ==
  /\ pc[r] = "idle" /\ started < MaxStarted
  /\ GoWith(r, FirstCall[j.kind], j)
  /\ started' = started + 1
  /\ Looking(r)
  /\ UNCHANGED <<users, index, secrets, links, sessions, tokens, proofs, gone, aborts>>

\* Session-only requests: session_account found the account behind the session.
BeginAs(r, u, j) == Begin(r, [j EXCEPT !.who = u, !.session = u])

\* A device that is signed in nowhere claims its own id.
BeginAt(r, d, j) == d \notin gone /\ Begin(r, [j EXCEPT !.who = d])

For(kind) == [NoJob EXCEPT !.kind = kind]

Start(r) ==
  \/ \E d \in Ids, e \in Emails : BeginAt(r, d, [For("register") EXCEPT !.mail = e])
  \/ \E e \in Emails, kind \in {"login", "recover", "code"} : Begin(r, [For(kind) EXCEPT !.mail = e])
  \/ \E kind \in {"reset", "confirm"} : Begin(r, For(kind))
  \/ \E d \in Ids, x \in Subjects, e \in Emails \cup {None} :
       BeginAt(r, d, [For("social") EXCEPT !.subject = x, !.mail = e])
  \/ \E u \in sessions, x \in Subjects, e \in Emails \cup {None} :
       BeginAs(r, u, [For("social") EXCEPT !.subject = x, !.mail = e])
  \/ \E u \in sessions : BeginAs(r, u, [For("unlink") EXCEPT !.mail = users[u].email])
  \/ \E u \in sessions, kind \in {"password", "delete"} : BeginAs(r, u, For(kind))
  \/ \E u \in sessions : \E e \in Emails \ {users[u].email} :
       BeginAs(r, u, [For("email") EXCEPT !.mail = e])
  \/ \E u \in sessions :
       /\ users[u].email # None /\ ~users[u].confirmed
       /\ BeginAs(r, u, [For("resend") EXCEPT !.mail = users[u].email, !.key = "confirm"])

-----------------------------------------------------------------------------
(* Registration, login and the session every sign-in ends with.             *)

Insert(r) ==
  /\ pc[r] = "insert"
  /\ LET u == job[r].who
         e == job[r].mail
     IN IF Insertable(u, e)
          THEN /\ InsertUser(u, e, FALSE) /\ secrets' = secrets \cup {u}
               /\ GoWith(r, "session", [job[r] EXCEPT !.key = "confirm"]) /\ Looking(r)
          ELSE Done(r) /\ UNCHANGED <<users, index, secrets, moved>>
  /\ UNCHANGED <<links, sessions, tokens, proofs, gone, started, aborts>>

Match(r) ==
  /\ pc[r] = "match"
  /\ LET u == find_by_email(job[r].mail) IN
     \/ u \in secrets /\ GoWith(r, "session", [job[r] EXCEPT !.who = u])
     \/ Done(r)
  /\ UNCHANGED <<users, index, secrets, links, sessions, tokens, proofs, gone, moved,
                 started, aborts>>

Session(r) ==
  /\ pc[r] = "session"
  /\ LET u == job[r].who IN
     IF users[u] # None
       THEN /\ create_session(u)
            /\ IF job[r].kind = "register" THEN Go(r, "mail") ELSE Done(r)
       ELSE Done(r) /\ UNCHANGED sessions
  /\ UNCHANGED <<users, index, secrets, links, tokens, proofs, gone, moved, started, aborts>>

-----------------------------------------------------------------------------
(* Social login: complete_social_login, create_social_on_claimed.           *)

\* A known identity signs in to its account, unless the caller is signed in to
\* another.  A new one goes to the caller, to the owner of the verified address, or
\* to the claimed id.
FindIdentity(r) ==
  /\ pc[r] = "identity"
  /\ LET owner == links[job[r].subject]
         me    == job[r].session
     IN CASE owner # None /\ me \in {None, owner} -> GoWith(r, "session", [job[r] EXCEPT !.who = owner])
          [] owner # None /\ me \notin {None, owner} -> Done(r)
          [] owner = None /\ me # None -> Go(r, "link")
          [] owner = None /\ me = None -> Go(r, IF job[r].mail # None THEN "byemail" ELSE "claim")
  /\ UNCHANGED <<users, index, secrets, links, sessions, tokens, proofs, gone, moved,
                 started, aborts>>

FindByEmail(r) ==
  /\ pc[r] = "byemail"
  /\ LET u == find_by_email(job[r].mail) IN
     IF u # None THEN GoWith(r, "link", [job[r] EXCEPT !.who = u]) ELSE Go(r, "claim")
  /\ UNCHANGED <<users, index, secrets, links, sessions, tokens, proofs, gone, moved,
                 started, aborts>>

\* resolve_user refuses a registered id without a session; what it read may be over.
Claim(r) ==
  /\ pc[r] = "claim"
  /\ IF users[job[r].who] = None THEN Go(r, "again") ELSE Done(r)
  /\ UNCHANGED <<users, index, secrets, links, sessions, tokens, proofs, gone, moved,
                 started, aborts>>

Again(r) ==
  /\ pc[r] = "again"
  /\ Go(r, IF users[job[r].who] = None THEN "create" ELSE "link")
  /\ UNCHANGED <<users, index, secrets, links, sessions, tokens, proofs, gone, moved,
                 started, aborts>>

\* A taken address is given up, a taken id is not.
Create(r) ==
  /\ pc[r] \in {"create", "bare"}
  /\ LET u == job[r].who
         e == IF pc[r] = "create" THEN job[r].mail ELSE None
     IN IF Insertable(u, e)
          THEN /\ InsertUser(u, e, e # None)
               /\ proofs' = IF e = None THEN proofs ELSE proofs \cup {<<u, e>>}
               /\ Go(r, "link")
          ELSE /\ IF e # None THEN Go(r, "bare") ELSE Done(r)
               /\ UNCHANGED <<users, index, proofs>>
  /\ UNCHANGED <<secrets, links, sessions, tokens, gone, moved, started, aborts>>

AfterLink(r) == Go(r, IF job[r].mail # None THEN "attach" ELSE "session")

CreateIdentity(r) ==
  /\ pc[r] = "link"
  /\ LET u == job[r].who
         s == job[r].subject
     IN CASE IdentityTaken(s) -> Go(r, "owner") /\ UNCHANGED links
          [] ~IdentityTaken(s) /\ (MethodTaken(s, u) \/ users[u] = None) ->
               Done(r) /\ UNCHANGED links
          [] OTHER -> AfterLink(r) /\ links' = [links EXCEPT ![s] = u]
  /\ UNCHANGED <<users, index, secrets, sessions, tokens, proofs, gone, moved, started, aborts>>

\* A racing request linked it: to this very account, or it is a conflict.
LinkOwner(r) ==
  /\ pc[r] = "owner"
  /\ IF links[job[r].subject] = job[r].who THEN AfterLink(r) ELSE Done(r)
  /\ UNCHANGED <<users, index, secrets, links, sessions, tokens, proofs, gone, moved,
                 started, aborts>>

\* Best effort: a taken address or an account that has one is no error.
AttachEmail(r) ==
  /\ pc[r] = "attach"
  /\ LET u == job[r].who
         e == job[r].mail
     IN IF Attachable(u, e)
          THEN /\ users' = [users EXCEPT ![u] = [email |-> e, confirmed |-> TRUE]]
               /\ index' = [index EXCEPT ![e] = u]
               /\ proofs' = proofs \cup {<<u, e>>}
          ELSE UNCHANGED <<users, index, proofs>>
  /\ Go(r, "session")
  /\ UNCHANGED <<secrets, links, sessions, tokens, gone, moved, started, aborts>>

-----------------------------------------------------------------------------
(* Unlinking a provider.                                                    *)

CountWays(r) ==
  /\ pc[r] = "ways"
  /\ \E s \in Subjects :
       IF links[s] = job[r].who /\ Ways(job[r].who, job[r].mail) > 1
         THEN GoWith(r, "unlink", [job[r] EXCEPT !.subject = s])
         ELSE Done(r)
  /\ Looking(r)
  /\ UNCHANGED <<store, started, aborts>>

\* By provider, not by subject: whatever the account has linked of it by now.
DeleteIdentity(r) ==
  /\ pc[r] = "unlink"
  /\ LET u == job[r].who
         taken == {s \in LinksOf(u) : MethodOf[s] = MethodOf[job[r].subject]}
     IN /\ links' = [s \in Subjects |-> IF s \in taken THEN None ELSE links[s]]
        /\ Moving("link", u)
  /\ Done(r)
  /\ UNCHANGED <<users, index, secrets, sessions, tokens, proofs, gone, started, aborts>>

-----------------------------------------------------------------------------
(* Mailed keys.                                                             *)

RecoveryForgets(r) ==   \* faulty: the account found is not the one mailed
  /\ pc[r] = "find"
  /\ GoWith(r, "mail", [job[r] EXCEPT !.key = "reset"])
  /\ Looking(r)
  /\ UNCHANGED <<store, started, aborts>>

FindForRecovery(r) ==
  /\ pc[r] = "find"
  /\ LET u == find_by_email(job[r].mail) IN
     IF u = None
       THEN Done(r)
       ELSE GoWith(r, "mail", [job[r] EXCEPT !.who = u,
                                 !.key = IF users[u].confirmed THEN "reset" ELSE "confirm"])
  /\ Looking(r)
  /\ UNCHANGED <<store, started, aborts>>

\* create_auth_token: latest mail wins.  It is a transaction of two statements that
\* locks no account: the DELETE takes the unused keys that are there, the INSERT adds
\* the new one, and a handler that dies in between leaves all as it was.
DeleteUnused(r) ==
  /\ pc[r] = "mail"
  /\ GoWith(r, "issue", [job[r] EXCEPT !.doomed = Unused(job[r].who, job[r].key)])
  /\ UNCHANGED <<store, moved, started, aborts>>

\* The token goes to the address that was read.  auth_tokens refers to no users row:
\* a key may be issued to an account that was deleted meanwhile.
IssueToken(r) ==
  /\ pc[r] = "issue"
  /\ \E t \in Tokens :
       /\ tokens[t] = None /\ \A s \in Requests \ {r} : t \notin job[s].doomed
       /\ tokens' = [x \in Tokens |->
            IF x = t
              THEN [user |-> job[r].who, kind |-> job[r].key, used |-> FALSE, expired |-> FALSE,
                    attempts |-> 0,
                    payload |-> IF job[r].key = "email_change" THEN job[r].mail ELSE None,
                    to |-> job[r].mail, late |-> Stale(r, "email"),
                    rivals |-> {y \in Tokens : <<"key", y>> \in moved[r]}]
              ELSE IF x \in job[r].doomed THEN None ELSE tokens[x]]
       /\ moved' = [x \in Requests |-> IF x # r /\ pc[x] = "issue"
                                        THEN moved[x] \cup {<<"key", t>>} ELSE moved[x]]
  /\ Done(r)
  /\ UNCHANGED <<users, index, secrets, links, sessions, proofs, gone, started, aborts>>

Expire(t) ==
  /\ tokens[t] # None /\ ~tokens[t].used /\ ~tokens[t].expired
  /\ tokens' = [tokens EXCEPT ![t].expired = TRUE]
  /\ UNCHANGED <<users, index, secrets, links, sessions, proofs, gone, pc, job, moved,
                 started, aborts>>

\* Following a mailed link: whoever does has read that mailbox.
ConsumeToken(r) ==
  /\ pc[r] = "consume"
  /\ \E t \in {x \in Tokens : ~Locked(x)} :
       LET kinds == IF job[r].kind = "reset" THEN {"reset"} ELSE {"confirm", "email_change"} IN
       IF Consumable(t, kinds)
         THEN /\ tokens' = [tokens EXCEPT ![t].used = TRUE]
              /\ proofs' = proofs \cup {<<tokens[t].user, tokens[t].to>>}
              /\ GoWith(r, CASE tokens[t].kind = "reset" -> "secret"
                             [] tokens[t].kind = "confirm" -> "confirm"
                             [] OTHER -> "replace",
                        [job[r] EXCEPT !.who = tokens[t].user, !.mail = tokens[t].payload])
         ELSE Done(r) /\ UNCHANGED <<tokens, proofs>>
  /\ UNCHANGED <<users, index, secrets, links, sessions, gone, moved, started, aborts>>

FindForCode(r) ==
  /\ pc[r] = "whose"
  /\ LET u == find_by_email(job[r].mail) IN
     IF u = None THEN Done(r) ELSE GoWith(r, "code", [job[r] EXCEPT !.who = u])
  /\ UNCHANGED <<store, moved, started, aborts>>

\* One attempt is spent on every active key; the code is compared with one of them.
Tried(active, t, right) ==
  [x \in Tokens |-> IF x \in active
                    THEN [tokens[x] EXCEPT !.attempts = @ + 1, !.used = right /\ x = t]
                    ELSE tokens[x]]

ConsumeByCode(r) ==
  /\ pc[r] = "code"
  /\ \/ /\ Active(job[r].who, "reset") = {}
        /\ Done(r) /\ UNCHANGED <<tokens, proofs>>
     \/ \E t \in Active(job[r].who, "reset"), right \in BOOLEAN :
          /\ \A x \in Active(job[r].who, "reset") : ~Locked(x)
          /\ tokens' = Tried(Active(job[r].who, "reset"), t, right)
          /\ IF right THEN /\ Go(r, "secret")
                           /\ proofs' = proofs \cup {<<job[r].who, tokens[t].to>>}
                      ELSE Done(r) /\ UNCHANGED proofs
  /\ UNCHANGED <<users, index, secrets, links, sessions, gone, moved, started, aborts>>

\* set_password, after a reset or a change of password.
SetPassword(r) ==
  /\ pc[r] = "secret"
  /\ LET u == job[r].who IN
     IF users[u] # None
       THEN /\ set_password(u)
            /\ IF job[r].kind = "password" THEN Done(r) ELSE Go(r, "confirm")
       ELSE Done(r) /\ UNCHANGED secrets
  /\ UNCHANGED <<users, index, links, sessions, tokens, proofs, gone, moved, started, aborts>>

\* The last step of a reset but one, the last of a confirmation.
ConfirmEmail(r) ==
  /\ pc[r] = "confirm"
  /\ LET u == job[r].who IN
     IF users[u] # None
       THEN /\ confirm_email(u)
            /\ IF job[r].kind = "confirm" THEN Done(r) ELSE Go(r, "session")
       ELSE Done(r) /\ UNCHANGED users
  /\ UNCHANGED <<index, secrets, links, sessions, tokens, proofs, gone, moved, started, aborts>>

\* A confirmed change of address: the unique index is the authority.
ReplaceEmail(r) ==
  /\ pc[r] = "replace"
  /\ LET u == job[r].who
         e == job[r].mail
     IN IF Replaceable(u, e)
          THEN replace_email(u, e) /\ Moving("email", u)
          ELSE UNCHANGED <<users, index, tokens, moved>>
  /\ Done(r)
  /\ UNCHANGED <<secrets, links, sessions, proofs, gone, started, aborts>>

-----------------------------------------------------------------------------
(* The account's own settings.                                              *)

\* The current password, where there is one, is proved again; changing it needs one.
CheckSecret(r) ==
  /\ pc[r] = "record"
  /\ LET u == job[r].who
         held == users[u] # None /\ u \in secrets
         open == users[u] # None /\ u \notin secrets /\ job[r].kind = "email"
     IN \/ (held \/ open) /\ Go(r, IF job[r].kind = "email" THEN "free" ELSE "secret")
        \/ ~open /\ Done(r)
  /\ UNCHANGED <<store, moved, started, aborts>>

AddressFree(r) ==
  /\ pc[r] = "free"
  /\ IF find_by_email(job[r].mail) = None
       THEN GoWith(r, "mail", [job[r] EXCEPT !.key = "email_change"])
       ELSE Done(r)
  /\ UNCHANGED <<store, moved, started, aborts>>

DeleteUser(r) ==
  /\ pc[r] = "delete"
  /\ delete_user(job[r].who)
  /\ gone' = gone \cup {job[r].who}
  /\ Done(r)
  /\ UNCHANGED <<proofs, moved, started, aborts>>

Abort(r) ==
  /\ pc[r] # "idle" /\ aborts < MaxAborts
  /\ Done(r)
  /\ aborts' = aborts + 1
  /\ UNCHANGED <<store, moved, started>>

\* A world is the accounts, password rows and links that exist at the start.
Init ==
  /\ \E w \in Worlds : /\ users = w.users /\ secrets = w.secrets /\ links = w.links
                       /\ sessions = {u \in Ids : w.users[u] # None}
                       /\ index = [e \in Emails |->
                                     IF \E u \in Ids : w.users[u] # None /\ w.users[u].email = e
                                     THEN CHOOSE u \in Ids : w.users[u] # None /\ w.users[u].email = e
                                     ELSE None]
                       /\ proofs = {x \in Ids \X Emails :
                                      /\ w.users[x[1]] # None
                                      /\ w.users[x[1]] = [email |-> x[2], confirmed |-> TRUE]}
  /\ tokens = [t \in Tokens |-> None]
  /\ gone = {}
  /\ pc = [r \in Requests |-> "idle"]
  /\ job = [r \in Requests |-> NoJob]
  /\ moved = [r \in Requests |-> {}]
  /\ started = 0 /\ aborts = 0

RequestNext(r) ==
  \/ Start(r) \/ Insert(r) \/ Match(r) \/ Session(r)
  \/ FindIdentity(r) \/ FindByEmail(r) \/ Claim(r) \/ Again(r) \/ Create(r)
  \/ CreateIdentity(r) \/ LinkOwner(r) \/ AttachEmail(r)
  \/ CountWays(r) \/ DeleteIdentity(r)
  \/ FindForRecovery(r) \/ DeleteUnused(r) \/ IssueToken(r)
  \/ ConsumeToken(r) \/ FindForCode(r)
  \/ ConsumeByCode(r) \/ SetPassword(r) \/ ConfirmEmail(r) \/ ReplaceEmail(r)
  \/ CheckSecret(r) \/ AddressFree(r) \/ DeleteUser(r) \/ Abort(r)

Next == (\E t \in Tokens : Expire(t)) \/ \E r \in Requests : RequestNext(r)

Spec == Init /\ [][Next]_vars

-----------------------------------------------------------------------------
(* Properties.                                                              *)

\* Every variable has its type.
TypeOK ==
  /\ users \in [Ids -> UserType \cup {None}]
  /\ index \in [Emails -> Ids \cup {None}]
  /\ secrets \subseteq Ids /\ sessions \subseteq Ids /\ gone \subseteq Ids
  /\ links \in [Subjects -> Ids \cup {None}]
  /\ tokens \in [Tokens -> TokenType \cup {None}]
  /\ proofs \subseteq Ids \X Emails
  /\ pc \in [Requests -> Calls]
  /\ job \in [Requests -> JobType]
  /\ moved \in [Requests -> SUBSET Notes]
  /\ started \in Nat /\ aborts \in Nat

\* The index of addresses is the inverse of the accounts' addresses, however
\* registrations, attachments, moves and deletions interleave: no address is a login
\* for two accounts, and none stays taken by an account that left it.
IndexAgrees ==
  \A e \in Emails, u \in Ids :
    index[e] = u <=> users[u] # None /\ users[u].email = e

\* Password rows, links and sessions belong to accounts that exist: an in-flight
\* sign-in leaves nothing behind for an account that is deleted under it.
NoOrphans ==
  /\ secrets \cup sessions \subseteq {u \in Ids : users[u] # None}
  /\ \A s \in Subjects : links[s] # None => users[links[s]] # None

\* A confirmed address was proved reachable for that very account, by a mail sent to
\* it or by a provider that vouches for it: a confirmation that lands after the
\* address moved confirms nothing new.  (An id taken again after its deletion, by a
\* registration that was still in flight, is left out.)
ConfirmedIsProved ==
  \A u \in Ids \ gone :
    users[u] # None /\ users[u].confirmed => <<u, users[u].email>> \in proofs

\* Latest mail wins: of two keys of one kind that still work, neither was there when
\* the other was asked for, their transactions overlapped; and a reset or confirmation
\* key went to the address the account has now, unless the address moved between the
\* lookup and the mail (store.rs, replace_email).
GoodKeys ==
  /\ \A u \in Ids, kind \in TokenKinds : \A x, y \in Unused(u, kind) :
       x = y \/ x \in tokens[y].rivals \/ y \in tokens[x].rivals
  /\ \A t \in Tokens :
       LET k == tokens[t] IN
       k # None /\ ~k.used /\ k.kind # "email_change" /\ users[k.user] # None /\ k.user \notin gone
         => k.late \/ k.to = users[k.user].email

Unlinks(r) == pc[r] = "unlink" /\ pc'[r] = "idle" /\ links' # links
StillReachable(u) == users'[u].email # None \/ \E s \in Subjects : links'[s] = u

\* An unlink leaves its account a way in, unless another request took one away since
\* this one counted them.  (An id taken again after its deletion is left out here too:
\* the ways that were counted went with the account.)
UnlinkKeepsAWay ==
  [][\A r \in Requests :
       Unlinks(r) /\ job[r].who \notin gone
         => Stale(r, "link") \/ StillReachable(job[r].who)]_vars
=============================================================================
