----------------------------- MODULE Publishing -----------------------------
(***************************************************************************)
(* A quest from its draft to the shop: the constructor's handlers          *)
(* (backend/src/handlers/constructor.rs) behind the gates of authz.rs, the *)
(* attempt a player opens on the version on sale, the deletion of an       *)
(* author's account, and the media backfill (backfill.rs) that rewrites    *)
(* stored rows in place.                                                   *)
(*                                                                         *)
(* They share three tables of the Postgres stores: the author's row, the   *)
(* listing that puts one version on sale, and the frozen snapshots.  No    *)
(* transaction spans two calls, so one store call is one step; a handler   *)
(* may die between two of them (Abort).                                    *)
(***************************************************************************)
EXTENDS Naturals, FiniteSets

CONSTANTS
  Quests, Accounts, Requests, Versions,
  Texts,          \* what an author may write, told apart by content
  Uploads,        \* what a publish may carry: texts, or None for no content
  Roles0,         \* the roles accounts start with
  Worlds,         \* the tables an instance may start from
  None,           \* absent
  MaxClock,       \* bound: seconds
  MaxStarted,     \* bound: requests ever started
  MaxAborts       \* bound: handlers that die half way

RoleNames == {"player", "editor", "admin", "ops", "gone"}
Statuses  == {"draft", "test", "published"}

ASSUME RolesAssumption   == Roles0 \in [Accounts -> RoleNames]
ASSUME UploadsAssumption == Uploads \subseteq Texts \cup {None}
ASSUME BoundsAssumption  == MaxClock \in Nat /\ MaxStarted \in Nat /\ MaxAborts \in Nat

RowType     == [author : Accounts, status : Statuses, text : Texts,
                inline : BOOLEAN, stamp : Nat]
ListingType == [ver : Versions, inline : BOOLEAN]
SnapType    == [text : Texts \cup {None}, inline : BOOLEAN]

\* A quest may have been published straight through the API and have no row.
ASSUME WorldsAssumption ==
  \A w \in Worlds :
    /\ w.rows \in [Quests -> RowType \cup {None}]
    /\ w.listings \in [Quests -> ListingType \cup {None}]
    /\ w.snaps \in [Quests \X Versions -> SnapType \cup {None}]
    /\ \A q \in Quests :
         /\ w.listings[q] # None => w.snaps[<<q, w.listings[q].ver>>] # None
         /\ w.rows[q] # None /\ w.rows[q].status # "draft" => w.listings[q] # None

ASSUME NoneAssumption ==
  /\ None \notin Accounts \cup Texts \cup Versions
  /\ None \notin RowType /\ None \notin ListingType /\ None \notin SnapType

VARIABLES
  role,      \* account -> its role; "ops" holds the operator token and has no account
  rows,      \* quest -> constructor_quests row, None when absent
  listings,  \* quest -> published_quests row, None when not listed
  snaps,     \* <<quest, version>> -> snapshots row, None when absent
  grants,    \* <<account, quest>> pairs that may play
  attempts,  \* attempts: who, on which quest, bound to which version
  clock,     \* now_secs()
  pc,        \* request -> the call its handler makes next
  job,       \* request -> what its handler holds across the calls
  moved,     \* request -> quests listed, handed over or restatused since its check
  started, aborts

vars == <<role, rows, listings, snaps, grants, attempts, clock, pc, job, moved,
          started, aborts>>

-----------------------------------------------------------------------------
(* Requests.                                                                *)

Kinds == {"create", "save", "status", "publish", "delete", "transfer", "role",
          "attempt", "close", "refile_row", "refile_card", "refile_snap"}

\* The call each request makes once its caller is let in.
FirstCall == [create |-> "create", save |-> "gate", status |-> "gate",
              publish |-> "register", delete |-> "gate", transfer |-> "target",
              role |-> "role", attempt |-> "grant", close |-> "sales",
              refile_row |-> "draft", refile_card |-> "card", refile_snap |-> "snap"]

\* faulty: the row goes, the listing stays
GatedCallNoUnpublish == [save |-> "save", status |-> "listed", delete |-> "remove"]

\* The call a gated mutation makes once the row was found to be the caller's.
GatedCall == [save |-> "save", status |-> "listed", delete |-> "unpublish"]

Calls == {"idle", "gate", "create", "save", "listed", "status", "unpublish", "remove",
          "register", "commit", "flip", "target", "handover", "role", "grant", "bind",
          "attempt", "sales", "wipe", "ungrant", "leave", "draft", "redraft", "card",
          "recard", "snap", "resnap"}

NoJob == [kind |-> None, who |-> None, quest |-> None, admin |-> FALSE, seen |-> None,
          ver |-> None, text |-> None, status |-> "draft", write |-> "keep", stamp |-> 0]

JobType == [kind : Kinds \cup {None}, who : Accounts \cup {None},
            quest : Quests \cup {None}, admin : BOOLEAN, seen : Accounts \cup {None},
            ver : Versions \cup {None}, text : Texts \cup {None}, status : Statuses,
            write : {"insert", "fill", "keep"}, stamp : Nat]

Go(r, label)  == pc' = [pc EXCEPT ![r] = label] /\ UNCHANGED job
GoWith(r, label, j) == pc' = [pc EXCEPT ![r] = label] /\ job' = [job EXCEPT ![r] = j]
Done(r)       == GoWith(r, "idle", NoJob)

\* Whoever checked quest q before this step now holds a stale answer about it.
Moving(q) == moved' = [x \in Requests |-> moved[x] \cup {q}]
Checking(r) == moved' = [moved EXCEPT ![r] = {}]

role_can_author(ro) == ro \in {"editor", "admin"}

\* The gates: require_editor_actor, require_constructor_admin, require_admin_actor,
\* require_ops_token, session_account.
LetIn(kind, a) ==
  CASE kind \in {"create", "save", "status", "publish", "delete"} ->
         role_can_author(role[a]) \/ role[a] = "ops"
    [] kind = "transfer" -> role[a] = "admin"
    [] kind = "role" -> role[a] \in {"admin", "ops"}
    [] kind \in {"attempt", "close"} -> role[a] \notin {"ops", "gone"}
    [] OTHER -> role[a] = "ops"

Start(r, kind, a, q) ==
  /\ pc[r] = "idle" /\ started < MaxStarted
  /\ LetIn(kind, a)
  /\ GoWith(r, FirstCall[kind],
            [NoJob EXCEPT !.kind = kind, !.who = a, !.quest = q,
                          !.admin = (role[a] = "admin")])
  /\ started' = started + 1
  /\ UNCHANGED <<role, rows, listings, snaps, grants, attempts, clock, moved, aborts>>

\* require_owned_constructor_summary: the row must be there, and be the caller's
\* unless an admin calls; the author it shows is the guard of the write to come.
Gate(r) ==
  /\ pc[r] = "gate"
  /\ LET q == job[r].quest
         mine == rows[q] # None /\ (job[r].admin \/ rows[q].author = job[r].who)
     IN IF mine THEN GoWith(r, GatedCall[job[r].kind], [job[r] EXCEPT !.seen = rows[q].author])
                ELSE Done(r)
  /\ UNCHANGED <<role, rows, listings, snaps, grants, attempts, clock, moved, started, aborts>>

AuthorUnchecked(r, q) == rows[q] # None   \* faulty: the write trusts the gate

\* AuthorGuard::Is on quest q: the row is still the author's the gate saw.
AuthorGuard(r, q) == rows[q] # None /\ rows[q].author = job[r].seen

-----------------------------------------------------------------------------
(* The author's row.                                                        *)

Create(r) ==
  /\ pc[r] = "create"
  /\ LET q == job[r].quest IN
     IF rows[q] = None
       THEN \E t \in Texts :
              rows' = [rows EXCEPT ![q] = [author |-> job[r].who, status |-> "draft",
                                           text |-> t, inline |-> FALSE, stamp |-> clock]]
       ELSE UNCHANGED rows
  /\ Done(r)
  /\ UNCHANGED <<role, listings, snaps, grants, attempts, clock, moved, started, aborts>>

Save(r) ==
  /\ pc[r] = "save"
  /\ LET q == job[r].quest IN
     IF AuthorGuard(r, q)
       THEN \E t \in Texts :
              rows' = [rows EXCEPT ![q].text = t, ![q].inline = FALSE, ![q].stamp = clock]
       ELSE UNCHANGED rows
  /\ Done(r)
  /\ UNCHANGED <<role, listings, snaps, grants, attempts, clock, moved, started, aborts>>

ListableAnyway(q, s) == TRUE   \* faulty: any status, listed or not

\* Without a listing, only "draft" may be set.
Listable(q, s) == s = "draft" \/ listings[q] # None

ReadListing(r) ==
  /\ pc[r] = "listed"
  /\ \E s \in Statuses :
       IF Listable(job[r].quest, s)
         THEN GoWith(r, "status", [job[r] EXCEPT !.status = s])
         ELSE Done(r)
  /\ UNCHANGED <<role, rows, listings, snaps, grants, attempts, clock, moved, started, aborts>>

\* ctor_store.set_status, for the caller the row still belongs to.
SetStatus(r) ==
  /\ pc[r] = "status"
  /\ LET q == job[r].quest IN
     IF AuthorGuard(r, q)
       THEN /\ rows' = [rows EXCEPT ![q].status = job[r].status, ![q].stamp = clock]
            /\ Moving(q)
       ELSE UNCHANGED <<rows, moved>>
  /\ Done(r)
  /\ UNCHANGED <<role, listings, snaps, grants, attempts, clock, started, aborts>>

\* Deleting takes the quest off sale first, whoever owns it by now, then drops the row.
Unpublish(r) ==
  /\ pc[r] = "unpublish"
  /\ listings' = [listings EXCEPT ![job[r].quest] = None]
  /\ Checking(r)
  /\ Go(r, "remove")
  /\ UNCHANGED <<role, rows, snaps, grants, attempts, clock, started, aborts>>

Remove(r) ==
  /\ pc[r] = "remove"
  /\ LET q == job[r].quest IN
     rows' = IF AuthorGuard(r, q) THEN [rows EXCEPT ![q] = None] ELSE rows
  /\ Done(r)
  /\ UNCHANGED <<role, listings, snaps, grants, attempts, clock, moved, started, aborts>>

\* A transfer reads its target, which must be able to author, then moves the row.
ReadTargetForgets(r) ==   \* faulty: the target found is not the one written
  /\ pc[r] = "target"
  /\ Go(r, "handover")
  /\ UNCHANGED <<role, rows, listings, snaps, grants, attempts, clock, moved, started, aborts>>

ReadTarget(r) ==
  /\ pc[r] = "target"
  /\ \E b \in Accounts :
       IF role_can_author(role[b])
         THEN GoWith(r, "handover", [job[r] EXCEPT !.seen = b])
         ELSE Done(r)
  /\ UNCHANGED <<role, rows, listings, snaps, grants, attempts, clock, moved, started, aborts>>

Handover(r) ==
  /\ pc[r] = "handover"
  /\ LET q == job[r].quest IN
     IF rows[q] # None
       THEN /\ rows' = [rows EXCEPT ![q].author = job[r].seen, ![q].stamp = clock]
            /\ Moving(q)
       ELSE UNCHANGED <<rows, moved>>
  /\ Done(r)
  /\ UNCHANGED <<role, listings, snaps, grants, attempts, clock, started, aborts>>

-----------------------------------------------------------------------------
(* Publishing.                                                              *)

\* register_published is one transaction at READ COMMITTED: its SELECT decides, and
\* another publish may commit before its write.
SnapshotFrozen(q, v, text) ==
  /\ snaps[<<q, v>>] # None /\ snaps[<<q, v>>].text # None /\ text # None
  /\ snaps[<<q, v>>] # [text |-> text, inline |-> FALSE]

SnapWrite(q, v, text) ==
  CASE snaps[<<q, v>>] = None -> "insert"
    [] snaps[<<q, v>>] # None /\ snaps[<<q, v>>].text = None /\ text # None -> "fill"
    [] OTHER -> "keep"

Register(r) ==
  /\ pc[r] = "register"
  /\ \E v \in Versions, t \in Uploads :
       IF SnapshotFrozen(job[r].quest, v, t)
         THEN Done(r)
         ELSE GoWith(r, "commit", [job[r] EXCEPT !.ver = v, !.text = t,
                                     !.write = SnapWrite(job[r].quest, v, t)])
  /\ UNCHANGED <<role, rows, listings, snaps, grants, attempts, clock, moved, started, aborts>>

InsertUpserts(r) == FALSE   \* faulty: ON CONFLICT DO UPDATE

\* An INSERT whose row is there by now breaks the primary key: the request dies.
InsertLost(r) == job[r].write = "insert" /\ snaps[<<job[r].quest, job[r].ver>>] # None

\* The write (an UPDATE does not look again), then the listing.
Commit(r) ==
  /\ pc[r] = "commit"
  /\ LET q == job[r].quest
         v == job[r].ver
     IN IF InsertLost(r)
          THEN Done(r) /\ UNCHANGED <<snaps, listings, moved>>
          ELSE /\ snaps' = IF job[r].write = "keep" THEN snaps
                           ELSE [snaps EXCEPT ![<<q, v>>] = [text |-> job[r].text, inline |-> FALSE]]
               /\ listings' = [listings EXCEPT ![q] = [ver |-> v, inline |-> FALSE]]
               /\ Moving(q)
               /\ Go(r, "flip")
  /\ UNCHANGED <<role, rows, grants, attempts, clock, started, aborts>>

\* Version v of q has content nobody is about to change: no publish that saw it empty,
\* and no run of the backfill that holds older content, is still under way.
Settled(q, v) ==
  /\ snaps[<<q, v>>] # None /\ snaps[<<q, v>>].text # None
  /\ \A r \in Requests :
       job[r].quest = q /\ job[r].ver = v
         => /\ ~(pc[r] = "commit" /\ job[r].write = "fill")
            /\ pc[r] = "resnap" => job[r].text = snaps[<<q, v>>].text

\* What is known for good of its content.
Known(q, v) == IF Settled(q, v) THEN snaps[<<q, v>>].text ELSE None

\* The row, when there is one, becomes published whoever owns it by now.
Flip(r) ==
  /\ pc[r] = "flip"
  /\ LET q == job[r].quest IN
     IF rows[q] # None
       THEN /\ rows' = [rows EXCEPT ![q].status = "published", ![q].stamp = clock]
            /\ Moving(q)
       ELSE UNCHANGED <<rows, moved>>
  /\ Done(r)
  /\ UNCHANGED <<role, listings, snaps, grants, attempts, clock, started, aborts>>

-----------------------------------------------------------------------------
(* Players: an attempt is bound to the version on sale when it is opened.   *)

HasGrant(r) ==
  /\ pc[r] = "grant"
  /\ IF <<job[r].who, job[r].quest>> \in grants THEN Go(r, "bind") ELSE Done(r)
  /\ UNCHANGED <<role, rows, listings, snaps, grants, attempts, clock, moved, started, aborts>>

BindVersion(r) ==
  /\ pc[r] = "bind"
  /\ LET q == job[r].quest IN
     IF listings[q] # None
       THEN LET v == listings[q].ver IN
            GoWith(r, "attempt", [job[r] EXCEPT !.ver = v, !.text = Known(q, v)])
       ELSE Done(r)
  /\ UNCHANGED <<role, rows, listings, snaps, grants, attempts, clock, moved, started, aborts>>

\* `text` is what the bound version said at that moment, or None while that could
\* still change: the code keeps the snapshot id only; properties read it.
CreateAttempt(r) ==
  /\ pc[r] = "attempt"
  /\ attempts' = attempts \cup {[user |-> job[r].who, quest |-> job[r].quest,
                                 ver |-> job[r].ver, text |-> job[r].text]}
  /\ Done(r)
  /\ UNCHANGED <<role, rows, listings, snaps, grants, clock, moved, started, aborts>>

-----------------------------------------------------------------------------
(* Accounts.                                                                *)

SetRole(r) ==
  /\ pc[r] = "role"
  /\ \E b \in Accounts \ {job[r].who}, ro \in {"player", "editor", "admin"} :
       role' = IF role[b] \in {"ops", "gone"} THEN role ELSE [role EXCEPT ![b] = ro]
  /\ Done(r)
  /\ UNCHANGED <<rows, listings, snaps, grants, attempts, clock, moved, started, aborts>>

\* Deleting an account: refused while it owns a published quest; then its attempts,
\* its grants and the account go, one after the other.
OnSaleOf(a) == {q \in Quests : /\ rows[q] # None
                               /\ rows[q].author = a
                               /\ rows[q].status = "published"}

SalesOverlooked(a) == FALSE   \* faulty: no check

SalesBlock(a) == OnSaleOf(a) # {}

CheckSales(r) ==
  /\ pc[r] = "sales"
  /\ IF SalesBlock(job[r].who) THEN Done(r) ELSE Go(r, "wipe")
  /\ Checking(r)
  /\ UNCHANGED <<role, rows, listings, snaps, grants, attempts, clock, started, aborts>>

WipePlay(r) ==
  /\ pc[r] = "wipe"
  /\ attempts' = {x \in attempts : x.user # job[r].who}
  /\ Go(r, "ungrant")
  /\ UNCHANGED <<role, rows, listings, snaps, grants, clock, moved, started, aborts>>

WipeGrants(r) ==
  /\ pc[r] = "ungrant"
  /\ grants' = {g \in grants : g[1] # job[r].who}
  /\ Go(r, "leave")
  /\ UNCHANGED <<role, rows, listings, snaps, attempts, clock, moved, started, aborts>>

Leave(r) ==
  /\ pc[r] = "leave"
  /\ role' = [role EXCEPT ![job[r].who] = "gone"]
  /\ Done(r)
  /\ UNCHANGED <<rows, listings, snaps, grants, attempts, clock, moved, started, aborts>>

-----------------------------------------------------------------------------
(* The media backfill.  A run walks the rows, then the cards, then the      *)
(* snapshots, within a budget; each item is read, its pictures are stored,  *)
(* and the rewritten item is put back.  Any subset in any order stands here.*)

ReadDraft(r) ==
  /\ pc[r] = "draft"
  /\ LET q == job[r].quest IN
     IF rows[q] # None /\ rows[q].inline
       THEN GoWith(r, "redraft", [job[r] EXCEPT !.text = rows[q].text, !.stamp = rows[q].stamp])
       ELSE Done(r)
  /\ UNCHANGED <<role, rows, listings, snaps, grants, attempts, clock, moved, started, aborts>>

\* rewrite_media: only while updated_at is still what was read, and left as it is.
DraftStill(r, q) == rows[q] # None /\ rows[q].stamp = job[r].stamp

RewriteDraft(r) ==
  /\ pc[r] = "redraft"
  /\ LET q == job[r].quest IN
     rows' = IF DraftStill(r, q)
             THEN [rows EXCEPT ![q].text = job[r].text, ![q].inline = FALSE] ELSE rows
  /\ Done(r)
  /\ UNCHANGED <<role, listings, snaps, grants, attempts, clock, moved, started, aborts>>

ReadCard(r) ==
  /\ pc[r] = "card"
  /\ LET q == job[r].quest IN
     IF listings[q] # None /\ listings[q].inline
       THEN GoWith(r, "recard", [job[r] EXCEPT !.ver = listings[q].ver])
       ELSE Done(r)
  /\ UNCHANGED <<role, rows, listings, snaps, grants, attempts, clock, moved, started, aborts>>

\* register_published with no snapshot: the listing that was read is written back.
RewriteCard(r) ==
  /\ pc[r] = "recard"
  /\ listings' = [listings EXCEPT ![job[r].quest] = [ver |-> job[r].ver, inline |-> FALSE]]
  /\ Moving(job[r].quest)
  /\ Done(r)
  /\ UNCHANGED <<role, rows, snaps, grants, attempts, clock, started, aborts>>

ReadSnapshot(r) ==
  /\ pc[r] = "snap"
  /\ \E v \in Versions :
       LET s == snaps[<<job[r].quest, v>>] IN
       IF s # None /\ s.text # None /\ s.inline
         THEN GoWith(r, "resnap", [job[r] EXCEPT !.ver = v, !.text = s.text])
         ELSE Done(r)
  /\ UNCHANGED <<role, rows, listings, snaps, grants, attempts, clock, moved, started, aborts>>

\* rewrite_snapshot_media, the one write to a frozen snapshot: same content, by reference.
RewriteSnapshot(r) ==
  /\ pc[r] = "resnap"
  /\ LET q == job[r].quest
         v == job[r].ver
     IN snaps' = IF snaps[<<q, v>>].text # None
                 THEN [snaps EXCEPT ![<<q, v>>] = [text |-> job[r].text, inline |-> FALSE]]
                 ELSE snaps
  /\ Done(r)
  /\ UNCHANGED <<role, rows, listings, grants, attempts, clock, moved, started, aborts>>

-----------------------------------------------------------------------------
Abort(r) ==
  /\ pc[r] # "idle" /\ aborts < MaxAborts
  /\ Done(r)
  /\ aborts' = aborts + 1
  /\ UNCHANGED <<role, rows, listings, snaps, grants, attempts, clock, moved, started>>

Tick ==
  /\ clock < MaxClock
  /\ clock' = clock + 1
  /\ UNCHANGED <<role, rows, listings, snaps, grants, attempts, pc, job, moved, started, aborts>>

\* What the tables hold at the start: worlds of before the media store, each a row, a
\* listing and the snapshots of every quest.
Init ==
  /\ role = Roles0
  /\ \E w \in Worlds : rows = w.rows /\ listings = w.listings /\ snaps = w.snaps
  /\ grants = Accounts \X Quests
  /\ attempts = {}
  /\ clock = 0
  /\ pc = [r \in Requests |-> "idle"]
  /\ job = [r \in Requests |-> NoJob]
  /\ moved = [r \in Requests |-> {}]
  /\ started = 0 /\ aborts = 0

RequestNext(r) ==
  \/ \E kind \in Kinds, a \in Accounts, q \in Quests : Start(r, kind, a, q)
  \/ Gate(r) \/ Create(r) \/ Save(r) \/ ReadListing(r) \/ SetStatus(r)
  \/ Unpublish(r) \/ Remove(r) \/ ReadTarget(r) \/ Handover(r)
  \/ Register(r) \/ Commit(r) \/ Flip(r)
  \/ HasGrant(r) \/ BindVersion(r) \/ CreateAttempt(r)
  \/ SetRole(r) \/ CheckSales(r) \/ WipePlay(r) \/ WipeGrants(r) \/ Leave(r)
  \/ ReadDraft(r) \/ RewriteDraft(r) \/ ReadCard(r) \/ RewriteCard(r)
  \/ ReadSnapshot(r) \/ RewriteSnapshot(r)
  \/ Abort(r)

Next == Tick \/ \E r \in Requests : RequestNext(r)

Spec == Init /\ [][Next]_vars

-----------------------------------------------------------------------------
(* Properties.                                                              *)

\* Every variable has its type.
TypeOK ==
  /\ role \in [Accounts -> RoleNames]
  /\ rows \in [Quests -> RowType \cup {None}]
  /\ listings \in [Quests -> ListingType \cup {None}]
  /\ snaps \in [Quests \X Versions -> SnapType \cup {None}]
  /\ grants \subseteq Accounts \X Quests
  /\ attempts \subseteq [user : Accounts, quest : Quests, ver : Versions,
                         text : Texts \cup {None}]
  /\ clock \in Nat
  /\ pc \in [Requests -> Calls]
  /\ job \in [Requests -> JobType]
  /\ moved \in [Requests -> SUBSET Quests]
  /\ started \in Nat /\ aborts \in Nat

\* What is on sale, and what its author calls test or published, has a frozen
\* snapshot behind it: nothing is sold that cannot be downloaded and played
\* (constructor.rs, "ONLY once a frozen snapshot exists").
Playable ==
  \A q \in Quests :
    /\ listings[q] # None => snaps[<<q, listings[q].ver>>] # None
    /\ rows[q] # None /\ rows[q].status # "draft" => \E v \in Versions : snaps[<<q, v>>] # None

\* An attempt stays bound to a snapshot that is there, and to the very content that had
\* when it was bound, whatever is published, deleted, handed over or refiled later
\* (invariant 4 of the code); not so an attempt bound while a publish that had seen the
\* snapshot empty was still to fill it.
AttemptsKeepSnapshot ==
  \A x \in attempts :
    /\ snaps[<<x.quest, x.ver>>] # None
    /\ x.text # None => snaps[<<x.quest, x.ver>>].text = x.text

\* A snapshot with content never says anything else and never goes away, once every
\* publish that saw it empty has ended; until then a second one may still fill it anew
\* (register_published: "NULL data may be filled once").
FrozenSnapshots ==
  [][\A q \in Quests, v \in Versions :
       Settled(q, v) => /\ Settled(q, v)'
                        /\ snaps'[<<q, v>>].text = snaps[<<q, v>>].text]_vars

\* The request r has just written, or dropped, the row its gate let it at.
Lands(r) == /\ pc[r] \in {"save", "status", "remove"}
            /\ rows'[job[r].quest] # rows[job[r].quest]
            /\ pc'[r] = "idle"

\* The request r, a deletion, has just taken a quest off sale.
EndsSale(r) == /\ pc[r] = "unpublish" /\ pc'[r] = "remove"
               /\ listings'[job[r].quest] # listings[job[r].quest]

\* A save, a status change or the end of a row lands only for an admin or for the author
\* the quest belongs to at that very moment: a transfer between the gate and the write
\* costs the former author the edit (store.rs, AuthorGuard).  Not so the first write of a
\* deletion, which has no guard: it takes the quest off sale for whoever was its author
\* at the gate, whoever owns it by now.
EditsByOwner ==
  [][\A r \in Requests :
       /\ Lands(r) => job[r].admin \/ rows[job[r].quest].author = job[r].who
       /\ EndsSale(r) => job[r].admin \/ job[r].seen = job[r].who]_vars

\* The row goes only when the listing is gone, or was put back by a request that ran
\* between the two steps of the deletion: a deletion alone never leaves an orphan
\* on sale, wherever it dies.
SaleEndsFirst ==
  [][\A r \in Requests :
       pc[r] = "remove" /\ Lands(r)
         => listings[job[r].quest] = None \/ job[r].quest \in moved[r]]_vars

\* An account leaves no quest of its own on sale, but one that became published, or
\* became its own, while the deletion was under way.
OwnersDelist ==
  [][\A r \in Requests :
       pc[r] = "leave" /\ pc'[r] = "idle" /\ role'[job[r].who] # role[job[r].who]
         => OnSaleOf(job[r].who) \subseteq moved[r]]_vars
=============================================================================
