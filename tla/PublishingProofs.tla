--------------------------- MODULE PublishingProofs ---------------------------
(***************************************************************************)
(* Proofs about module Publishing, for every number of quests, accounts,   *)
(* versions and concurrent requests.                                       *)
(*                                                                         *)
(* What a handler found out at its gate or its first read is only worth    *)
(* something later if no other request can undo it.  Fit says what each    *)
(* handler may still rely on at the call where it stands; Steady is what   *)
(* every step leaves standing for the handlers it does not run.            *)
(***************************************************************************)
EXTENDS Publishing, TLAPS

Owned   == {"save", "listed", "status", "unpublish", "remove"}
Leaving == {"wipe", "ungrant", "leave"}

Stored(q, v) == snaps[<<q, v>>] # None

\* What the handler of request r may rely on.
Fit(r) ==
  LET q == job[r].quest
      v == job[r].ver
  IN /\ pc[r] # "idle" => job[r].who \in Accounts /\ q \in Quests
     /\ pc[r] = "gate" => job[r].kind \in {"save", "status", "delete"}
     /\ pc[r] \in Owned => job[r].admin \/ job[r].seen = job[r].who
     /\ pc[r] = "handover" => job[r].seen \in Accounts
     /\ pc[r] = "status" => job[r].status = "draft" \/ \E x \in Versions : Stored(q, x)
     /\ pc[r] = "remove" => listings[q] = None \/ q \in moved[r]
     /\ pc[r] = "commit" => v \in Versions /\ (job[r].write = "insert" \/ Stored(q, v))
     /\ pc[r] \in {"flip", "attempt", "recard", "resnap"} => v \in Versions /\ Stored(q, v)
     /\ pc[r] = "redraft" => job[r].text \in Texts
     /\ pc[r] \in Leaving => OnSaleOf(job[r].who) \subseteq moved[r]

IInv == TypeOK /\ Playable /\ \A r \in Requests : Fit(r)

-----------------------------------------------------------------------------
(* Frames.                                                                  *)

\* A stored snapshot stays, and what is put on sale is noted for who looked before.
Steady(s) ==
  /\ \A q \in Quests, v \in Versions : Stored(q, v) => Stored(q, v)'
  /\ moved[s] \subseteq moved'[s]
  /\ \A q \in Quests : listings[q] = None => listings'[q] = None \/ q \in moved'[s]
  /\ \A a \in Accounts : OnSaleOf(a)' \subseteq OnSaleOf(a) \cup moved'[s]

LEMMA FitFrame ==
  ASSUME NEW s \in Requests, Fit(s), Steady(s), pc'[s] = pc[s], job'[s] = job[s]
  PROVE  Fit(s)'
<1>1. CASE pc[s] = "idle"
  BY <1>1 DEF Fit, Owned, Leaving
<1>2. CASE pc[s] # "idle"
  <2> DEFINE a == job[s].who
             q == job[s].quest
  <2>1. a \in Accounts /\ q \in Quests
    BY <1>2 DEF Fit
  <2>2. pc[s] \in Leaving => OnSaleOf(a)' \subseteq moved'[s]
    <3> SUFFICES ASSUME pc[s] \in Leaving PROVE OnSaleOf(a)' \subseteq moved'[s]
      OBVIOUS
    <3>1. OnSaleOf(a) \subseteq moved[s] /\ moved[s] \subseteq moved'[s]
      BY DEF Fit, Steady
    <3>2. OnSaleOf(a)' \subseteq OnSaleOf(a) \cup moved'[s]
      BY <2>1 DEF Steady
    <3> QED BY <3>1, <3>2
  <2>3. pc[s] = "remove" => listings'[q] = None \/ q \in moved'[s]
    BY <2>1 DEF Fit, Steady
  <2>4. \A v \in Versions : Stored(q, v) => Stored(q, v)'
    BY <2>1 DEF Steady
  <2>5. OnSaleOf(job[s].who)' = OnSaleOf(a)'
    BY DEF OnSaleOf
  <2> QED BY <2>1, <2>2, <2>3, <2>4 DEF Fit, OnSaleOf, Stored
<1> QED BY <1>1, <1>2

\* Where the handler of r stands after its step, and that no other moved.
LEMMA Moves ==
  ASSUME TypeOK, NEW r \in Requests, NEW label, NEW j, GoWith(r, label, j)
  PROVE  /\ pc'[r] = label /\ job'[r] = j
         /\ \A s \in Requests \ {r} : pc'[s] = pc[s] /\ job'[s] = job[s]
BY DEF TypeOK, GoWith

\* A step of r keeps IInv if it keeps types and sales, and leaves r fit and the
\* others undisturbed.
LEMMA StepKeeps ==
  ASSUME IInv, NEW r \in Requests, NEW label, NEW j, GoWith(r, label, j),
         TypeOK', Playable', Fit(r)', \A s \in Requests \ {r} : Steady(s)
  PROVE  IInv'
<1>1. \A s \in Requests \ {r} : Fit(s)'
  BY Moves, FitFrame DEF IInv
<1> QED BY <1>1 DEF IInv

\* The tables are left alone.
Tables == UNCHANGED <<rows, listings, snaps, moved>>

LEMMA TablesSteady ==
  ASSUME Tables, NEW s \in Requests
  PROVE  Steady(s)
<1>1. \A a \in Accounts : OnSaleOf(a)' = OnSaleOf(a)
  BY DEF Tables, OnSaleOf
<1> QED BY <1>1 DEF Tables, Steady, Stored

\* A step that only moves the handler, within its types.
LEMMA QuietStep ==
  ASSUME IInv, NEW r \in Requests, NEW label \in Calls, NEW j \in JobType,
         GoWith(r, label, j), Tables, role' \in [Accounts -> RoleNames],
         grants' \subseteq grants, clock' = clock,
         attempts' \subseteq [user : Accounts, quest : Quests, ver : Versions,
                              text : Texts \cup {None}],
         started' \in Nat, aborts' \in Nat, Fit(r)'
  PROVE  IInv'
<1>1. TypeOK'
  BY DEF IInv, TypeOK, GoWith, Tables
<1>2. Playable'
  BY DEF IInv, Playable, Tables
<1> QED BY <1>1, <1>2, TablesSteady, StepKeeps

LEMMA Idle == NoJob \in JobType /\ "idle" \in Calls
BY DEF NoJob, JobType, Calls, Statuses

\* A handler that ends relies on nothing.
LEMMA IdleFit ==
  ASSUME IInv, NEW r \in Requests, Done(r)
  PROVE  Fit(r)'
<1>1. pc'[r] = "idle"
  BY Moves DEF Done, IInv
<1> QED BY <1>1 DEF Fit, Owned, Leaving

\* The calls at which a handler knows who asks and for which quest, and no more.
Plain == {"create", "register", "target", "role", "grant", "bind", "sales",
          "draft", "card", "snap"}

LEMMA PlainFit ==
  ASSUME IInv, NEW r \in Requests, NEW label \in Plain, NEW j, GoWith(r, label, j),
         j.who \in Accounts, j.quest \in Quests
  PROVE  Fit(r)'
<1>1. pc'[r] = label /\ job'[r] = j
  BY Moves DEF IInv
<1> QED BY <1>1 DEF Fit, Plain, Owned, Leaving

-----------------------------------------------------------------------------
(* The steps that only look.                                                *)

\* What a request holds at its start.
IsAdmin(a) == role[a] = "admin"
Begun(kind, a, q, b) == [NoJob EXCEPT !.kind = kind, !.who = a, !.quest = q, !.admin = b]

LEMMA BegunType ==
  ASSUME NEW kind \in Kinds, NEW a \in Accounts, NEW q \in Quests, NEW b \in BOOLEAN
  PROVE  /\ Begun(kind, a, q, b) \in JobType
         /\ Begun(kind, a, q, b).who = a /\ Begun(kind, a, q, b).quest = q
         /\ Begun(kind, a, q, b).kind = kind
BY DEF Begun, NoJob, JobType, Statuses

\* A request begins with its caller and its quest.
LEMMA StartStep ==
  ASSUME IInv, NEW r \in Requests, NEW kind \in Kinds, NEW a \in Accounts, NEW q \in Quests,
         Start(r, kind, a, q)
  PROVE  IInv'
<1> DEFINE j == Begun(kind, a, q, IsAdmin(a))
           label == FirstCall[kind]
<1>1. j \in JobType /\ j.who = a /\ j.quest = q /\ j.kind = kind
  <2>1. IsAdmin(a) \in BOOLEAN
    BY DEF IsAdmin
  <2> QED BY <2>1, BegunType
<1>2. label \in Plain \cup {"gate"} /\ (label = "gate" => kind \in {"save", "status", "delete"})
  BY DEF Kinds, FirstCall, Plain
<1>3. GoWith(r, label, j)
  BY Zenon DEF Start, Begun, IsAdmin
<1>4. label \in Calls
  BY <1>2 DEF Plain, Calls
<1>5. Tables /\ UNCHANGED <<role, grants, attempts, clock, aborts>> /\ started' = started + 1
  BY Zenon DEF Start, Tables
<1> HIDE DEF j, label
<1>6. pc'[r] = label /\ job'[r] = j
  BY <1>3, Moves DEF IInv
<1>7. Fit(r)'
  BY <1>1, <1>2, <1>6 DEF Fit, Plain, Owned, Leaving
<1> QED BY <1>1, <1>3, <1>4, <1>5, <1>7, QuietStep DEF Tables, IInv, TypeOK

\* A handler that ends, or dies.
LEMMA EndStep ==
  ASSUME IInv, NEW r \in Requests, Done(r), Tables, UNCHANGED <<role, grants, attempts, clock>>,
         started' \in Nat, aborts' \in Nat
  PROVE  IInv'
<1>1. Fit(r)'
  BY IdleFit
<1> QED BY <1>1, Idle, QuietStep DEF Done, IInv, TypeOK

\* Nothing but the handler moves.
Looks == Tables /\ UNCHANGED <<role, grants, attempts, clock, started, aborts>>

\* A handler that looked, found, and goes on.
LEMMA LookStep ==
  ASSUME IInv, NEW r \in Requests, NEW label \in Calls, NEW j \in JobType,
         GoWith(r, label, j), Looks, Fit(r)'
  PROVE  IInv'
BY QuietStep DEF Looks, IInv, TypeOK

LEMMA LookEnds ==
  ASSUME IInv, NEW r \in Requests, Done(r), Looks
  PROVE  IInv'
BY EndStep DEF Looks, IInv, TypeOK

\* What a handler under way holds.
LEMMA Held ==
  ASSUME IInv, NEW r \in Requests, pc[r] # "idle"
  PROVE  job[r] \in JobType /\ job[r].who \in Accounts /\ job[r].quest \in Quests
BY DEF IInv, TypeOK, Fit

\* The gate lets an admin in, or the author.
LEMMA GateStep ==
  ASSUME IInv, NEW r \in Requests, Gate(r)
  PROVE  IInv'
<1> DEFINE q == job[r].quest
           mine == rows[q] # None /\ (job[r].admin \/ rows[q].author = job[r].who)
<1>1. /\ Looks /\ job[r] \in JobType /\ job[r].who \in Accounts /\ q \in Quests
      /\ pc[r] = "gate"
  BY Held DEF Gate, Looks, Tables
<1>2. CASE ~mine
  <2>1. Done(r)
    BY <1>2, Zenon DEF Gate
  <2> QED BY <1>1, <2>1, LookEnds
<1>3. CASE mine
  <2>1. PICK b \in Accounts : b = rows[q].author
    BY <1>1, <1>3 DEF IInv, TypeOK, RowType
  <2> DEFINE j == [job[r] EXCEPT !.seen = b]
             label == GatedCall[job[r].kind]
  <2>2. GoWith(r, label, j)
    BY <1>3, <2>1, Zenon DEF Gate
  <2>3. j \in JobType /\ j.who = job[r].who /\ j.quest = q /\ j.admin = job[r].admin /\ j.seen = b
    BY <1>1 DEF JobType
  <2>4. label \in {"save", "listed", "unpublish"}
    BY <1>1 DEF IInv, Fit, GatedCall
  <2> HIDE DEF j, label
  <2>5. pc'[r] = label /\ job'[r] = j
    BY <2>2, Moves DEF IInv
  <2>6. Fit(r)'
    BY <1>1, <1>3, <2>1, <2>3, <2>4, <2>5 DEF Fit, Owned, Leaving
  <2>7. label \in Calls
    BY <2>4 DEF Calls
  <2> QED BY <1>1, <2>2, <2>3, <2>6, <2>7, LookStep
<1> QED BY <1>2, <1>3

-----------------------------------------------------------------------------
(* The steps that write the author's row.                                   *)

\* A row is dropped, or written where a snapshot lets it be more than a draft; a
\* change of what is on sale, or of whose it is, is noted.
LEMMA RowStep ==
  ASSUME IInv, NEW r \in Requests, NEW q \in Quests, NEW row \in RowType \cup {None},
         rows' = [rows EXCEPT ![q] = row], Done(r),
         row # None /\ row.status # "draft" => \E v \in Versions : Stored(q, v),
         \/ Moving(q)
         \/ moved' = moved /\ (\/ row = None \/ row.status # "published"
                               \/ /\ rows[q] # None /\ row.author = rows[q].author
                                  /\ row.status = rows[q].status),
         UNCHANGED <<role, listings, snaps, grants, attempts, clock, started, aborts>>
  PROVE  IInv'
<1>1. TypeOK'
  <2>1. rows' \in [Quests -> RowType \cup {None}]
    BY DEF IInv, TypeOK
  <2>2. moved' \in [Requests -> SUBSET Quests]
    BY DEF IInv, TypeOK, Moving
  <2> QED BY <2>1, <2>2, Idle DEF IInv, TypeOK, Done, GoWith
<1>2. Playable'
  BY DEF IInv, TypeOK, Playable, Stored
<1>3. ASSUME NEW s \in Requests PROVE Steady(s)
  <2>1. moved[s] \subseteq moved'[s] /\ (Moving(q) => q \in moved'[s])
    BY DEF IInv, TypeOK, Moving
  <2>2. \A x \in Quests : x # q => rows'[x] = rows[x]
    BY DEF IInv, TypeOK
  <2>3. rows'[q] = row
    BY DEF IInv, TypeOK
  <2>4. ASSUME NEW a \in Accounts PROVE OnSaleOf(a)' \subseteq OnSaleOf(a) \cup moved'[s]
    <3> SUFFICES ASSUME NEW x \in Quests, x \in OnSaleOf(a)'
                 PROVE  x \in OnSaleOf(a) \/ x \in moved'[s]
      BY DEF OnSaleOf
    <3>1. rows'[x] # None /\ rows'[x].author = a /\ rows'[x].status = "published"
      BY DEF OnSaleOf
    <3>2. CASE x # q
      BY <2>2, <3>1, <3>2 DEF OnSaleOf
    <3>3. CASE x = q
      BY <2>1, <2>3, <3>1, <3>3 DEF OnSaleOf
    <3> QED BY <3>2, <3>3
  <2> QED BY <2>1, <2>4 DEF Steady, Stored
<1>4. Fit(r)'
  BY IdleFit
<1> QED BY <1>1, <1>2, <1>3, <1>4, StepKeeps DEF Done

LEMMA CreateStep ==
  ASSUME IInv, NEW r \in Requests, Create(r)
  PROVE  IInv'
<1> DEFINE q == job[r].quest
<1>1. /\ job[r].who \in Accounts /\ q \in Quests /\ Done(r)
      /\ UNCHANGED <<role, listings, snaps, grants, attempts, clock, moved, started, aborts>>
  BY Held DEF Create
<1>2. CASE rows' = rows
  BY <1>1, <1>2, LookEnds DEF Looks, Tables
<1>3. CASE rows' # rows
  <2>1. PICK t \in Texts :
          rows' = [rows EXCEPT ![q] = [author |-> job[r].who, status |-> "draft",
                                       text |-> t, inline |-> FALSE, stamp |-> clock]]
    BY <1>3 DEF Create
  <2> DEFINE row == [author |-> job[r].who, status |-> "draft",
                     text |-> t, inline |-> FALSE, stamp |-> clock]
  <2>2. row \in RowType /\ row.status = "draft"
    BY <1>1 DEF IInv, TypeOK, RowType, Statuses
  <2>3. rows' = [rows EXCEPT ![q] = row]
    BY <2>1
  <2> HIDE DEF row
  <2> QED BY <1>1, <2>2, <2>3, RowStep
<1> QED BY <1>2, <1>3

LEMMA SaveStep ==
  ASSUME IInv, NEW r \in Requests, Save(r)
  PROVE  IInv'
<1> DEFINE q == job[r].quest
<1>1. /\ q \in Quests /\ Done(r)
      /\ UNCHANGED <<role, listings, snaps, grants, attempts, clock, moved, started, aborts>>
  BY Held DEF Save
<1>2. CASE rows' = rows
  BY <1>1, <1>2, LookEnds DEF Looks, Tables
<1>3. CASE rows' # rows
  <2>1. rows[q] \in RowType
    BY <1>1, <1>3 DEF IInv, TypeOK, Save, AuthorGuard
  <2>2. PICK t \in Texts :
          rows' = [rows EXCEPT ![q].text = t, ![q].inline = FALSE, ![q].stamp = clock]
    BY <1>3 DEF Save
  <2> DEFINE row == [rows[q] EXCEPT !.text = t, !.inline = FALSE, !.stamp = clock]
  <2>3. row \in RowType /\ row.author = rows[q].author /\ row.status = rows[q].status
    BY <2>1 DEF IInv, TypeOK, RowType
  <2>4. rows' = [rows EXCEPT ![q] = row]
    BY <1>1, <2>2 DEF IInv, TypeOK
  <2>5. rows[q] # None
    BY <2>1, NoneAssumption
  <2>6. row.status # "draft" => \E v \in Versions : Stored(q, v)
    BY <1>1, <2>3, <2>5 DEF IInv, Playable, Stored
  <2> HIDE DEF row
  <2> QED BY <1>1, <2>3, <2>4, <2>5, <2>6, RowStep
<1> QED BY <1>2, <1>3

LEMMA RemoveStep ==
  ASSUME IInv, NEW r \in Requests, Remove(r)
  PROVE  IInv'
<1>1. /\ job[r].quest \in Quests /\ Done(r)
      /\ UNCHANGED <<role, listings, snaps, grants, attempts, clock, moved, started, aborts>>
  BY Held DEF Remove
<1>2. CASE rows' = rows
  BY <1>1, <1>2, LookEnds DEF Looks, Tables
<1>3. CASE rows' # rows
  <2>1. rows' = [rows EXCEPT ![job[r].quest] = None]
    BY <1>3 DEF Remove
  <2> QED BY <1>1, <2>1, RowStep
<1> QED BY <1>2, <1>3

LEMMA RewriteDraftStep ==
  ASSUME IInv, NEW r \in Requests, RewriteDraft(r)
  PROVE  IInv'
<1> DEFINE q == job[r].quest
<1>1. /\ q \in Quests /\ Done(r) /\ job[r].text \in Texts
      /\ UNCHANGED <<role, listings, snaps, grants, attempts, clock, moved, started, aborts>>
  BY Held DEF RewriteDraft, IInv, Fit
<1>2. CASE rows' = rows
  BY <1>1, <1>2, LookEnds DEF Looks, Tables
<1>3. CASE rows' # rows
  <2>1. rows[q] \in RowType
    BY <1>1, <1>3 DEF IInv, TypeOK, RewriteDraft, DraftStill
  <2>2. rows' = [rows EXCEPT ![q].text = job[r].text, ![q].inline = FALSE]
    BY <1>3 DEF RewriteDraft
  <2> DEFINE row == [rows[q] EXCEPT !.text = job[r].text, !.inline = FALSE]
  <2>3. row \in RowType /\ row.author = rows[q].author /\ row.status = rows[q].status
    BY <1>1, <2>1 DEF RowType
  <2>4. rows' = [rows EXCEPT ![q] = row]
    BY <1>1, <2>2 DEF IInv, TypeOK
  <2>5. rows[q] # None
    BY <2>1, NoneAssumption
  <2>6. row.status # "draft" => \E v \in Versions : Stored(q, v)
    BY <1>1, <2>3, <2>5 DEF IInv, Playable, Stored
  <2> HIDE DEF row
  <2> QED BY <1>1, <2>3, <2>4, <2>5, <2>6, RowStep
<1> QED BY <1>2, <1>3

LEMMA SetStatusStep ==
  ASSUME IInv, NEW r \in Requests, SetStatus(r)
  PROVE  IInv'
<1> DEFINE q == job[r].quest
<1>1. /\ q \in Quests /\ Done(r) /\ job[r] \in JobType
      /\ UNCHANGED <<role, listings, snaps, grants, attempts, clock, started, aborts>>
  BY Held DEF SetStatus
<1>2. CASE ~AuthorGuard(r, q)
  BY <1>1, <1>2, LookEnds DEF SetStatus, Looks, Tables
<1>3. CASE AuthorGuard(r, q)
  <2>1. rows[q] \in RowType
    BY <1>1, <1>3 DEF IInv, TypeOK, AuthorGuard
  <2> DEFINE row == [rows[q] EXCEPT !.status = job[r].status, !.stamp = clock]
  <2>2. row \in RowType /\ row.status = job[r].status
    BY <1>1, <2>1 DEF RowType, JobType, IInv, TypeOK
  <2>3. rows' = [rows EXCEPT ![q] = row] /\ Moving(q)
    BY <1>1, <1>3 DEF IInv, TypeOK, SetStatus
  <2>4. row.status # "draft" => \E v \in Versions : Stored(q, v)
    BY <2>2 DEF SetStatus, IInv, Fit
  <2> HIDE DEF row
  <2> QED BY <1>1, <2>2, <2>3, <2>4, RowStep
<1> QED BY <1>2, <1>3

LEMMA HandoverStep ==
  ASSUME IInv, NEW r \in Requests, Handover(r)
  PROVE  IInv'
<1> DEFINE q == job[r].quest
<1>1. /\ q \in Quests /\ Done(r) /\ job[r].seen \in Accounts
      /\ UNCHANGED <<role, listings, snaps, grants, attempts, clock, started, aborts>>
  BY Held DEF Handover, IInv, Fit
<1>2. CASE rows[q] = None
  BY <1>1, <1>2, LookEnds DEF Handover, Looks, Tables
<1>3. CASE rows[q] # None
  <2>1. rows[q] \in RowType
    BY <1>1, <1>3 DEF IInv, TypeOK
  <2> DEFINE row == [rows[q] EXCEPT !.author = job[r].seen, !.stamp = clock]
  <2>2. row \in RowType /\ row.status = rows[q].status
    BY <1>1, <2>1 DEF RowType, IInv, TypeOK
  <2>3. rows' = [rows EXCEPT ![q] = row] /\ Moving(q)
    BY <1>1, <1>3 DEF IInv, TypeOK, Handover
  <2>4. row.status # "draft" => \E v \in Versions : Stored(q, v)
    BY <1>1, <1>3, <2>2 DEF IInv, Playable, Stored
  <2> HIDE DEF row
  <2> QED BY <1>1, <2>2, <2>3, <2>4, RowStep
<1> QED BY <1>2, <1>3

LEMMA FlipStep ==
  ASSUME IInv, NEW r \in Requests, Flip(r)
  PROVE  IInv'
<1> DEFINE q == job[r].quest
<1>1. /\ q \in Quests /\ Done(r)
      /\ UNCHANGED <<role, listings, snaps, grants, attempts, clock, started, aborts>>
  BY Held DEF Flip
<1>2. CASE rows[q] = None
  BY <1>1, <1>2, LookEnds DEF Flip, Looks, Tables
<1>3. CASE rows[q] # None
  <2>1. rows[q] \in RowType
    BY <1>1, <1>3 DEF IInv, TypeOK
  <2> DEFINE row == [rows[q] EXCEPT !.status = "published", !.stamp = clock]
  <2>2. row \in RowType
    BY <2>1 DEF RowType, Statuses, IInv, TypeOK
  <2>3. rows' = [rows EXCEPT ![q] = row] /\ Moving(q)
    BY <1>1, <1>3 DEF IInv, TypeOK, Flip
  <2>4. \E v \in Versions : Stored(q, v)
    BY DEF Flip, IInv, Fit
  <2> HIDE DEF row
  <2> QED BY <1>1, <2>2, <2>3, <2>4, RowStep
<1> QED BY <1>2, <1>3

-----------------------------------------------------------------------------
(* The steps that write the listing or the snapshots.                       *)

\* A quest goes on sale, or changes card, on a snapshot that is stored; snapshots
\* come and change, and none goes.
LEMMA ListStep ==
  ASSUME IInv, NEW r \in Requests, NEW label \in Calls, NEW j \in JobType, GoWith(r, label, j),
         NEW q \in Quests, NEW v \in Versions,
         snaps' \in [Quests \X Versions -> SnapType \cup {None}],
         \A x \in Quests, y \in Versions : Stored(x, y) => Stored(x, y)',
         \/ listings' = listings /\ moved' = moved
         \/ /\ listings' = [listings EXCEPT ![q] = [ver |-> v, inline |-> FALSE]]
            /\ Moving(q) /\ Stored(q, v)',
         UNCHANGED <<role, rows, grants, attempts, clock, started, aborts>>, Fit(r)'
  PROVE  IInv'
<1> DEFINE card == [ver |-> v, inline |-> FALSE]
<1>1. card \in ListingType /\ card.ver = v
  BY DEF ListingType
<1>2. TypeOK'
  <2>1. listings' \in [Quests -> ListingType \cup {None}]
    BY <1>1 DEF IInv, TypeOK
  <2>2. moved' \in [Requests -> SUBSET Quests]
    BY DEF IInv, TypeOK, Moving
  <2> QED BY <2>1, <2>2 DEF IInv, TypeOK, GoWith
<1>3. Playable'
  <2> SUFFICES ASSUME NEW x \in Quests
               PROVE  /\ listings'[x] # None => Stored(x, listings[x].ver)'
                      /\ rows'[x] # None /\ rows'[x].status # "draft"
                           => \E y \in Versions : Stored(x, y)'
    BY DEF Playable, Stored
  <2>1. rows'[x] # None /\ rows'[x].status # "draft" => \E y \in Versions : Stored(x, y)'
    BY DEF IInv, Playable, Stored
  <2>2. CASE listings'[x] = listings[x]
    <3> SUFFICES ASSUME listings[x] # None PROVE Stored(x, listings[x].ver)'
      BY <2>1, <2>2
    <3>1. listings[x].ver \in Versions
      BY DEF IInv, TypeOK, ListingType
    <3>2. PICK y \in Versions : y = listings[x].ver
      BY <3>1
    <3>3. Stored(x, y)
      BY <3>2 DEF IInv, Playable, Stored
    <3>4. Stored(x, y)'
      BY <3>3
    <3> QED BY <2>2, <3>2, <3>4 DEF Stored
  <2>3. CASE listings'[x] # listings[x]
    <3>1. x = q /\ listings'[x] = card /\ Stored(q, v)'
      BY <2>3 DEF IInv, TypeOK
    <3> QED BY <1>1, <2>1, <3>1 DEF Stored
  <2> QED BY <2>2, <2>3
<1>4. ASSUME NEW s \in Requests PROVE Steady(s)
  <2>1. \A a \in Accounts : OnSaleOf(a)' = OnSaleOf(a)
    BY DEF OnSaleOf
  <2>2. moved[s] \subseteq moved'[s] /\ (listings' # listings => q \in moved'[s])
    BY DEF IInv, TypeOK, Moving
  <2>3. \A x \in Quests : x # q => listings'[x] = listings[x]
    BY DEF IInv, TypeOK
  <2> QED BY <2>1, <2>2, <2>3 DEF Steady
<1> QED BY <1>2, <1>3, <1>4, StepKeeps

LEMMA CommitStep ==
  ASSUME IInv, NEW r \in Requests, Commit(r)
  PROVE  IInv'
<1>1. /\ job[r] \in JobType /\ job[r].who \in Accounts /\ pc[r] = "commit"
      /\ UNCHANGED <<role, rows, grants, attempts, clock, started, aborts>>
  BY Held DEF Commit
<1>2. PICK q \in Quests, v \in Versions, t \in Texts \cup {None} :
        q = job[r].quest /\ v = job[r].ver /\ t = job[r].text
  BY <1>1, Held DEF IInv, Fit, JobType
<1>3. CASE InsertLost(r)
  BY <1>1, <1>3, LookEnds DEF Commit, Looks, Tables
<1>4. CASE ~InsertLost(r)
  <2> DEFINE shot == [text |-> t, inline |-> FALSE]
  <2>1. /\ snaps' = IF job[r].write = "keep" THEN snaps ELSE [snaps EXCEPT ![<<q, v>>] = shot]
        /\ listings' = [listings EXCEPT ![q] = [ver |-> v, inline |-> FALSE]]
        /\ Moving(q) /\ Go(r, "flip")
    BY <1>2, <1>4 DEF Commit
  <2>2. shot \in SnapType
    BY DEF SnapType
  <2>3. shot # None
    BY <2>2, NoneAssumption
  <2>4. GoWith(r, "flip", job[r]) /\ "flip" \in Calls
    BY <2>1 DEF Go, GoWith, Calls, IInv, TypeOK
  <2> HIDE DEF shot
  <2>5. snaps' \in [Quests \X Versions -> SnapType \cup {None}]
    BY <2>1, <2>2 DEF IInv, TypeOK
  <2>6. ASSUME NEW x \in Quests, NEW y \in Versions, Stored(x, y)
        PROVE  Stored(x, y)'
    BY <2>1, <2>3, <2>6 DEF IInv, TypeOK, Stored
  <2>7. Stored(q, v)'
    <3>1. CASE job[r].write = "keep"
      <4>1. Stored(q, v)
        BY <1>1, <1>2, <3>1 DEF IInv, Fit
      <4> QED BY <2>6, <4>1
    <3>2. CASE job[r].write # "keep"
      BY <2>1, <2>3, <3>2 DEF IInv, TypeOK, Stored
    <3> QED BY <3>1, <3>2
  <2>8. pc'[r] = "flip" /\ job'[r] = job[r]
    BY <2>4, Moves DEF IInv
  <2>9. Fit(r)'
    BY <1>1, <1>2, <2>7, <2>8 DEF Fit, Owned, Leaving, Stored
  <2> QED BY <1>1, <2>1, <2>4, <2>5, <2>6, <2>7, <2>9, ListStep
<1> QED BY <1>3, <1>4

LEMMA RewriteCardStep ==
  ASSUME IInv, NEW r \in Requests, RewriteCard(r)
  PROVE  IInv'
<1>1. PICK q \in Quests, v \in Versions : q = job[r].quest /\ v = job[r].ver
  BY Held DEF RewriteCard, IInv, Fit
<1>2. /\ Stored(q, v) /\ GoWith(r, "idle", NoJob) /\ Moving(q)
      /\ listings' = [listings EXCEPT ![q] = [ver |-> v, inline |-> FALSE]]
      /\ UNCHANGED <<role, rows, snaps, grants, attempts, clock, started, aborts>>
  BY <1>1 DEF RewriteCard, Done, IInv, Fit
<1>3. Fit(r)'
  BY <1>2, IdleFit DEF Done
<1>4. snaps' \in [Quests \X Versions -> SnapType \cup {None}]
  BY <1>2 DEF IInv, TypeOK
<1>5. \A x \in Quests, y \in Versions : Stored(x, y) => Stored(x, y)'
  BY <1>2 DEF Stored
<1>6. Stored(q, v)'
  BY <1>2 DEF Stored
<1> QED BY <1>2, <1>3, <1>4, <1>5, <1>6, Idle, ListStep

LEMMA RewriteSnapshotStep ==
  ASSUME IInv, NEW r \in Requests, RewriteSnapshot(r)
  PROVE  IInv'
<1>1. PICK q \in Quests, v \in Versions, t \in Texts \cup {None} :
        q = job[r].quest /\ v = job[r].ver /\ t = job[r].text
  BY Held DEF RewriteSnapshot, IInv, Fit, JobType
<1> DEFINE shot == [text |-> t, inline |-> FALSE]
<1>2. /\ GoWith(r, "idle", NoJob)
      /\ snaps' = snaps \/ snaps' = [snaps EXCEPT ![<<q, v>>] = shot]
      /\ UNCHANGED <<role, rows, listings, grants, attempts, clock, moved, started, aborts>>
  BY <1>1 DEF RewriteSnapshot, Done
<1>3. shot \in SnapType
  BY DEF SnapType
<1>4. shot # None
  BY <1>3, NoneAssumption
<1> HIDE DEF shot
<1>5. Fit(r)'
  BY <1>2, IdleFit DEF Done
<1>6. snaps' \in [Quests \X Versions -> SnapType \cup {None}]
  BY <1>2, <1>3 DEF IInv, TypeOK
<1>7. ASSUME NEW x \in Quests, NEW y \in Versions, Stored(x, y)
      PROVE  Stored(x, y)'
  BY <1>2, <1>4, <1>7 DEF IInv, TypeOK, Stored
<1> QED BY <1>2, <1>5, <1>6, <1>7, Idle, ListStep

\* Taking a quest off sale: the deletion notes from here on who puts it back.
LEMMA UnpublishStep ==
  ASSUME IInv, NEW r \in Requests, Unpublish(r)
  PROVE  IInv'
<1>1. PICK q \in Quests : q = job[r].quest
  BY Held DEF Unpublish
<1>2. /\ listings' = [listings EXCEPT ![q] = None]
      /\ moved' = [moved EXCEPT ![r] = {}]
      /\ pc[r] = "unpublish" /\ GoWith(r, "remove", job[r])
      /\ UNCHANGED <<role, rows, snaps, grants, attempts, clock, started, aborts>>
  BY <1>1 DEF Unpublish, Checking, Go, GoWith, IInv, TypeOK
<1>3. TypeOK'
  BY <1>2, Held DEF IInv, TypeOK, GoWith, Calls
<1>4. Playable'
  BY <1>2 DEF IInv, TypeOK, Playable
<1>5. \A a \in Accounts : OnSaleOf(a)' = OnSaleOf(a)
  BY <1>2 DEF OnSaleOf
<1>6. ASSUME NEW s \in Requests \ {r} PROVE Steady(s)
  BY <1>2, <1>5 DEF IInv, TypeOK, Steady, Stored
<1>7. pc'[r] = "remove" /\ job'[r] = job[r] /\ listings'[q] = None
  BY <1>2, Moves DEF IInv, TypeOK
<1>8. Fit(r)'
  BY <1>1, <1>2, <1>7, Held DEF IInv, Fit, Owned, Leaving
<1> QED BY <1>2, <1>3, <1>4, <1>6, <1>8, StepKeeps

-----------------------------------------------------------------------------
(* The constructor's looks.                                                 *)

LEMMA ReadListingStep ==
  ASSUME IInv, NEW r \in Requests, ReadListing(r)
  PROVE  IInv'
<1>1. Looks /\ job[r] \in JobType /\ job[r].who \in Accounts /\ job[r].quest \in Quests
      /\ pc[r] = "listed"
  BY Held DEF ReadListing, Looks, Tables
<1>2. CASE Done(r)
  BY <1>1, <1>2, LookEnds
<1>3. CASE ~Done(r)
  <2>1. PICK s \in Statuses : /\ Listable(job[r].quest, s)
                              /\ GoWith(r, "status", [job[r] EXCEPT !.status = s])
    BY <1>3 DEF ReadListing
  <2> DEFINE j == [job[r] EXCEPT !.status = s]
  <2>2. /\ j \in JobType /\ j.who = job[r].who /\ j.quest = job[r].quest
        /\ j.admin = job[r].admin /\ j.seen = job[r].seen /\ j.status = s
    BY <1>1 DEF JobType
  <2>3. GoWith(r, "status", j) /\ "status" \in Calls
    BY <2>1 DEF Calls
  <2> HIDE DEF j
  <2>4. pc'[r] = "status" /\ job'[r] = j
    BY <2>3, Moves DEF IInv
  <2>5. s = "draft" \/ \E v \in Versions : Stored(job[r].quest, v)
    <3> SUFFICES ASSUME listings[job[r].quest] # None
                 PROVE  \E v \in Versions : Stored(job[r].quest, v)
      BY <2>1 DEF Listable
    <3>1. listings[job[r].quest].ver \in Versions
      BY <1>1 DEF IInv, TypeOK, ListingType
    <3> QED BY <1>1, <3>1 DEF IInv, Playable, Stored
  <2>6. UNCHANGED snaps
    BY <1>1 DEF Looks, Tables
  <2>7. Fit(r)'
    BY <1>1, <2>2, <2>4, <2>5, <2>6 DEF IInv, Fit, Owned, Leaving, Stored
  <2> QED BY <1>1, <2>2, <2>3, <2>7, LookStep
<1> QED BY <1>2, <1>3

LEMMA ReadTargetStep ==
  ASSUME IInv, NEW r \in Requests, ReadTarget(r)
  PROVE  IInv'
<1>1. Looks /\ job[r] \in JobType /\ job[r].who \in Accounts /\ job[r].quest \in Quests
  BY Held DEF ReadTarget, Looks, Tables
<1>2. CASE Done(r)
  BY <1>1, <1>2, LookEnds
<1>3. CASE ~Done(r)
  <2>1. PICK b \in Accounts : GoWith(r, "handover", [job[r] EXCEPT !.seen = b])
    BY <1>3 DEF ReadTarget
  <2> DEFINE j == [job[r] EXCEPT !.seen = b]
  <2>2. /\ j \in JobType /\ j.who = job[r].who /\ j.quest = job[r].quest /\ j.seen = b
    BY <1>1 DEF JobType
  <2>3. GoWith(r, "handover", j) /\ "handover" \in Calls
    BY <2>1 DEF Calls
  <2> HIDE DEF j
  <2>4. pc'[r] = "handover" /\ job'[r] = j
    BY <2>3, Moves DEF IInv
  <2>5. Fit(r)'
    BY <1>1, <2>2, <2>4 DEF Fit, Owned, Leaving
  <2> QED BY <1>1, <2>2, <2>3, <2>5, LookStep
<1> QED BY <1>2, <1>3

\* What the SELECT of a publish saw of a snapshot that is there still holds at its write.
LEMMA RegisterStep ==
  ASSUME IInv, NEW r \in Requests, Register(r)
  PROVE  IInv'
<1>1. Looks /\ job[r] \in JobType /\ job[r].who \in Accounts /\ job[r].quest \in Quests
  BY Held DEF Register, Looks, Tables
<1>2. CASE Done(r)
  BY <1>1, <1>2, LookEnds
<1>3. CASE ~Done(r)
  <2>1. PICK v \in Versions, t \in Uploads :
          GoWith(r, "commit", [job[r] EXCEPT !.ver = v, !.text = t,
                                             !.write = SnapWrite(job[r].quest, v, t)])
    BY <1>3 DEF Register
  <2>2. PICK w \in {"insert", "fill", "keep"} : w = SnapWrite(job[r].quest, v, t)
    BY DEF SnapWrite
  <2>3. w = "insert" \/ Stored(job[r].quest, v)
    BY <2>2 DEF SnapWrite, Stored
  <2> DEFINE j == [job[r] EXCEPT !.ver = v, !.text = t, !.write = w]
  <2>4. /\ j \in JobType /\ j.who = job[r].who /\ j.quest = job[r].quest
        /\ j.ver = v /\ j.write = w
    BY <1>1, UploadsAssumption DEF JobType
  <2>5. GoWith(r, "commit", j) /\ "commit" \in Calls
    BY <2>1, <2>2 DEF Calls
  <2> HIDE DEF j
  <2>6. pc'[r] = "commit" /\ job'[r] = j
    BY <2>5, Moves DEF IInv
  <2>7. UNCHANGED snaps
    BY <1>1 DEF Looks, Tables
  <2>8. Fit(r)'
    BY <1>1, <2>3, <2>4, <2>6, <2>7 DEF Fit, Owned, Leaving, Stored
  <2> QED BY <1>1, <2>4, <2>5, <2>8, LookStep
<1> QED BY <1>2, <1>3

-----------------------------------------------------------------------------
(* Players.                                                                 *)

LEMMA HasGrantStep ==
  ASSUME IInv, NEW r \in Requests, HasGrant(r)
  PROVE  IInv'
<1>1. Looks /\ job[r] \in JobType /\ job[r].who \in Accounts /\ job[r].quest \in Quests
  BY Held DEF HasGrant, Looks, Tables
<1>2. CASE Done(r)
  BY <1>1, <1>2, LookEnds
<1>3. CASE ~Done(r)
  <2>1. GoWith(r, "bind", job[r]) /\ "bind" \in Calls /\ "bind" \in Plain
    BY <1>3 DEF HasGrant, Go, GoWith, Calls, Plain, IInv, TypeOK
  <2>2. Fit(r)'
    BY <1>1, <2>1, PlainFit
  <2> QED BY <1>1, <2>1, <2>2, LookStep
<1> QED BY <1>2, <1>3

LEMMA BindVersionStep ==
  ASSUME IInv, NEW r \in Requests, BindVersion(r)
  PROVE  IInv'
<1>1. Looks /\ job[r] \in JobType /\ job[r].who \in Accounts /\ job[r].quest \in Quests
  BY Held DEF BindVersion, Looks, Tables
<1>2. CASE Done(r)
  BY <1>1, <1>2, LookEnds
<1>3. CASE ~Done(r)
  <2>1. PICK q \in Quests : q = job[r].quest
    BY <1>1
  <2>2. listings[q] # None /\ listings[q] \in ListingType
    BY <1>3, <2>1 DEF BindVersion, IInv, TypeOK
  <2>3. PICK v \in Versions : v = listings[q].ver
    BY <2>2 DEF ListingType
  <2>4. Stored(q, v)
    BY <2>2, <2>3 DEF IInv, Playable, Stored
  <2>5. PICK t \in Texts \cup {None} : t = Known(q, v)
    BY <2>4 DEF Known, IInv, TypeOK, SnapType, Stored
  <2> DEFINE j == [job[r] EXCEPT !.ver = v, !.text = t]
  <2>6. GoWith(r, "attempt", j) /\ "attempt" \in Calls
    BY <1>3, <2>1, <2>3, <2>5 DEF BindVersion, Calls
  <2>7. j \in JobType /\ j.who = job[r].who /\ j.quest = q /\ j.ver = v
    BY <1>1, <2>1 DEF JobType
  <2> HIDE DEF j
  <2>8. pc'[r] = "attempt" /\ job'[r] = j
    BY <2>6, Moves DEF IInv
  <2>9. UNCHANGED snaps
    BY <1>1 DEF Looks, Tables
  <2>10. Fit(r)'
    BY <1>1, <2>4, <2>7, <2>8, <2>9 DEF Fit, Owned, Leaving, Stored
  <2> QED BY <1>1, <2>6, <2>7, <2>10, LookStep
<1> QED BY <1>2, <1>3

LEMMA CreateAttemptStep ==
  ASSUME IInv, NEW r \in Requests, CreateAttempt(r)
  PROVE  IInv'
<1>1. /\ Tables /\ Done(r) /\ UNCHANGED <<role, grants, clock, started, aborts>>
      /\ job[r] \in JobType /\ job[r].who \in Accounts /\ job[r].quest \in Quests
      /\ job[r].ver \in Versions
  BY Held DEF CreateAttempt, Tables, IInv, Fit
<1>2. attempts' \subseteq [user : Accounts, quest : Quests, ver : Versions,
                          text : Texts \cup {None}]
  BY <1>1 DEF CreateAttempt, IInv, TypeOK, JobType
<1> QED BY <1>1, <1>2, Idle, IdleFit, QuietStep DEF Done, IInv, TypeOK

-----------------------------------------------------------------------------
(* Accounts.                                                                *)

LEMMA SetRoleStep ==
  ASSUME IInv, NEW r \in Requests, SetRole(r)
  PROVE  IInv'
<1>1. /\ Tables /\ Done(r) /\ UNCHANGED <<grants, attempts, clock, started, aborts>>
  BY DEF SetRole, Tables
<1>2. role' \in [Accounts -> RoleNames]
  BY DEF SetRole, IInv, TypeOK, RoleNames
<1> QED BY <1>1, <1>2, Idle, IdleFit, QuietStep DEF Done, IInv, TypeOK

LEMMA CheckSalesStep ==
  ASSUME IInv, NEW r \in Requests, CheckSales(r)
  PROVE  IInv'
<1>1. /\ UNCHANGED <<role, rows, listings, snaps, grants, attempts, clock, started, aborts>>
      /\ moved' = [moved EXCEPT ![r] = {}] /\ pc[r] = "sales"
  BY DEF CheckSales, Checking
<1>2. PICK label \in {"idle", "wipe"}, j \in JobType :
        /\ GoWith(r, label, j)
        /\ label = "wipe" => ~SalesBlock(job[r].who) /\ j = job[r]
  BY Idle, Held DEF CheckSales, Done, Go, GoWith, IInv, TypeOK
<1>3. TypeOK'
  BY <1>1, <1>2 DEF IInv, TypeOK, GoWith, Calls
<1>4. Playable'
  BY <1>1 DEF IInv, Playable
<1>5. \A a \in Accounts : OnSaleOf(a)' = OnSaleOf(a)
  BY <1>1 DEF OnSaleOf
<1>6. ASSUME NEW s \in Requests \ {r} PROVE Steady(s)
  BY <1>1, <1>5 DEF IInv, TypeOK, Steady, Stored
<1>7. pc'[r] = label /\ job'[r] = j
  BY <1>2, Moves DEF IInv
<1>8. Fit(r)'
  <2>1. CASE label = "idle"
    BY <1>7, <2>1 DEF Fit, Owned, Leaving
  <2>2. CASE label = "wipe"
    <3>1. PICK a \in Accounts : a = job[r].who
      BY <1>1, Held
    <3>2. OnSaleOf(a) = {}
      BY <1>2, <2>2, <3>1 DEF SalesBlock
    <3>3. OnSaleOf(job[r].who)' = {}
      BY <1>2, <1>5, <1>7, <2>2, <3>1, <3>2 DEF OnSaleOf
    <3> QED BY <1>1, <1>2, <1>7, <2>2, <3>3, Held DEF Fit, Owned, Leaving
  <2> QED BY <2>1, <2>2
<1> QED BY <1>2, <1>3, <1>4, <1>6, <1>8, StepKeeps

\* Between the check and the departure only the handler's own tables are written.
LEMMA LeavingFit ==
  ASSUME IInv, NEW r \in Requests, NEW label \in Leaving, pc[r] \in Leaving,
         GoWith(r, label, job[r]), Tables
  PROVE  Fit(r)'
<1>1. pc'[r] = label /\ job'[r] = job[r]
  BY Moves DEF IInv
<1>2. OnSaleOf(job[r].who)' = OnSaleOf(job[r].who)
  BY <1>1 DEF OnSaleOf, Tables
<1> QED BY <1>1, <1>2 DEF IInv, Fit, Owned, Leaving, Tables

LEMMA WipePlayStep ==
  ASSUME IInv, NEW r \in Requests, WipePlay(r)
  PROVE  IInv'
<1>1. /\ Tables /\ pc[r] \in Leaving /\ job[r] \in JobType
      /\ GoWith(r, "ungrant", job[r]) /\ "ungrant" \in Calls /\ "ungrant" \in Leaving
      /\ UNCHANGED <<role, grants, clock, started, aborts>> /\ attempts' \subseteq attempts
  BY DEF WipePlay, Tables, Go, GoWith, Calls, Leaving, IInv, TypeOK
<1>2. Fit(r)'
  BY <1>1, LeavingFit
<1> QED BY <1>1, <1>2, QuietStep DEF IInv, TypeOK

LEMMA WipeGrantsStep ==
  ASSUME IInv, NEW r \in Requests, WipeGrants(r)
  PROVE  IInv'
<1>1. /\ Tables /\ pc[r] \in Leaving /\ job[r] \in JobType
      /\ GoWith(r, "leave", job[r]) /\ "leave" \in Calls /\ "leave" \in Leaving
      /\ UNCHANGED <<role, attempts, clock, started, aborts>> /\ grants' \subseteq grants
  BY DEF WipeGrants, Tables, Go, GoWith, Calls, Leaving, IInv, TypeOK
<1>2. Fit(r)'
  BY <1>1, LeavingFit
<1> QED BY <1>1, <1>2, QuietStep DEF IInv, TypeOK

LEMMA LeaveStep ==
  ASSUME IInv, NEW r \in Requests, Leave(r)
  PROVE  IInv'
<1>1. /\ Tables /\ Done(r) /\ UNCHANGED <<grants, attempts, clock, started, aborts>>
  BY DEF Leave, Tables
<1>2. role' \in [Accounts -> RoleNames]
  BY DEF Leave, IInv, TypeOK, RoleNames
<1> QED BY <1>1, <1>2, Idle, IdleFit, QuietStep DEF Done, IInv, TypeOK

-----------------------------------------------------------------------------
(* The looks of the media backfill.                                         *)

LEMMA ReadDraftStep ==
  ASSUME IInv, NEW r \in Requests, ReadDraft(r)
  PROVE  IInv'
<1>1. Looks /\ job[r] \in JobType /\ job[r].who \in Accounts /\ job[r].quest \in Quests
  BY Held DEF ReadDraft, Looks, Tables
<1>2. CASE Done(r)
  BY <1>1, <1>2, LookEnds
<1>3. CASE ~Done(r)
  <2>1. rows[job[r].quest] \in RowType
    BY <1>1, <1>3 DEF ReadDraft, IInv, TypeOK
  <2>2. PICK t \in Texts, n \in Nat : t = rows[job[r].quest].text /\ n = rows[job[r].quest].stamp
    BY <2>1 DEF RowType
  <2> DEFINE j == [job[r] EXCEPT !.text = t, !.stamp = n]
  <2>3. GoWith(r, "redraft", j) /\ "redraft" \in Calls
    BY <1>3, <2>2 DEF ReadDraft, Calls
  <2>4. j \in JobType /\ j.who = job[r].who /\ j.quest = job[r].quest /\ j.text = t
    BY <1>1 DEF JobType
  <2> HIDE DEF j
  <2>5. pc'[r] = "redraft" /\ job'[r] = j
    BY <2>3, Moves DEF IInv
  <2>6. Fit(r)'
    BY <1>1, <2>4, <2>5 DEF Fit, Owned, Leaving
  <2> QED BY <1>1, <2>3, <2>4, <2>6, LookStep
<1> QED BY <1>2, <1>3

LEMMA ReadCardStep ==
  ASSUME IInv, NEW r \in Requests, ReadCard(r)
  PROVE  IInv'
<1>1. Looks /\ job[r] \in JobType /\ job[r].who \in Accounts /\ job[r].quest \in Quests
  BY Held DEF ReadCard, Looks, Tables
<1>2. CASE Done(r)
  BY <1>1, <1>2, LookEnds
<1>3. CASE ~Done(r)
  <2>1. PICK q \in Quests : q = job[r].quest
    BY <1>1
  <2>2. listings[q] # None /\ listings[q] \in ListingType
    BY <1>3, <2>1 DEF ReadCard, IInv, TypeOK
  <2>3. PICK v \in Versions : v = listings[q].ver
    BY <2>2 DEF ListingType
  <2>4. Stored(q, v)
    BY <2>2, <2>3 DEF IInv, Playable, Stored
  <2> DEFINE j == [job[r] EXCEPT !.ver = v]
  <2>5. GoWith(r, "recard", j) /\ "recard" \in Calls
    BY <1>3, <2>1, <2>3 DEF ReadCard, Calls
  <2>6. j \in JobType /\ j.who = job[r].who /\ j.quest = q /\ j.ver = v
    BY <1>1, <2>1 DEF JobType
  <2> HIDE DEF j
  <2>7. pc'[r] = "recard" /\ job'[r] = j
    BY <2>5, Moves DEF IInv
  <2>8. UNCHANGED snaps
    BY <1>1 DEF Looks, Tables
  <2>9. Fit(r)'
    BY <1>1, <2>4, <2>6, <2>7, <2>8 DEF Fit, Owned, Leaving, Stored
  <2> QED BY <1>1, <2>5, <2>6, <2>9, LookStep
<1> QED BY <1>2, <1>3

LEMMA ReadSnapshotStep ==
  ASSUME IInv, NEW r \in Requests, ReadSnapshot(r)
  PROVE  IInv'
<1>1. Looks /\ job[r] \in JobType /\ job[r].who \in Accounts /\ job[r].quest \in Quests
  BY Held DEF ReadSnapshot, Looks, Tables
<1>2. CASE Done(r)
  BY <1>1, <1>2, LookEnds
<1>3. CASE ~Done(r)
  <2>1. PICK q \in Quests : q = job[r].quest
    BY <1>1
  <2>2. PICK v \in Versions :
          /\ snaps[<<q, v>>] # None
          /\ GoWith(r, "resnap", [job[r] EXCEPT !.ver = v, !.text = snaps[<<q, v>>].text])
    BY <1>3, <2>1 DEF ReadSnapshot
  <2>3. PICK t \in Texts \cup {None} : t = snaps[<<q, v>>].text
    BY <2>2 DEF IInv, TypeOK, SnapType
  <2> DEFINE j == [job[r] EXCEPT !.ver = v, !.text = t]
  <2>4. GoWith(r, "resnap", j) /\ "resnap" \in Calls
    BY <2>2, <2>3 DEF Calls
  <2>5. j \in JobType /\ j.who = job[r].who /\ j.quest = q /\ j.ver = v
    BY <1>1, <2>1 DEF JobType
  <2> HIDE DEF j
  <2>6. pc'[r] = "resnap" /\ job'[r] = j
    BY <2>4, Moves DEF IInv
  <2>7. UNCHANGED snaps
    BY <1>1 DEF Looks, Tables
  <2>8. Fit(r)'
    BY <1>1, <2>2, <2>5, <2>6, <2>7 DEF Fit, Owned, Leaving, Stored
  <2> QED BY <1>1, <2>4, <2>5, <2>8, LookStep
<1> QED BY <1>2, <1>3

-----------------------------------------------------------------------------
(* The invariant.                                                           *)

LEMMA AbortStep ==
  ASSUME IInv, NEW r \in Requests, Abort(r)
  PROVE  IInv'
<1>1. /\ Done(r) /\ Tables /\ aborts' = aborts + 1
      /\ UNCHANGED <<role, grants, attempts, clock, started>>
  BY DEF Abort, Tables
<1> QED BY <1>1, EndStep DEF IInv, TypeOK

LEMMA TickStep ==
  ASSUME IInv, Tick
  PROVE  IInv'
<1>1. Tables /\ clock' = clock + 1
      /\ UNCHANGED <<role, grants, attempts, pc, job, started, aborts>>
  BY DEF Tick, Tables
<1>2. TypeOK' /\ Playable'
  BY <1>1 DEF IInv, TypeOK, Playable, Tables
<1>3. ASSUME NEW s \in Requests PROVE Fit(s)'
  <2>1. Steady(s)
    BY <1>1, TablesSteady
  <2> QED BY <1>1, <2>1, FitFrame DEF IInv
<1> QED BY <1>2, <1>3 DEF IInv

LEMMA IdleStep ==
  ASSUME IInv, UNCHANGED vars
  PROVE  IInv'
<1>1. TypeOK' /\ Playable' /\ Tables /\ UNCHANGED <<pc, job>>
  BY DEF IInv, TypeOK, Playable, Tables, vars
<1>2. ASSUME NEW s \in Requests PROVE Fit(s)'
  <2>1. Steady(s)
    BY <1>1, TablesSteady
  <2> QED BY <1>1, <2>1, FitFrame DEF IInv
<1> QED BY <1>1, <1>2 DEF IInv

\* A world of before the media store: what is listed has a snapshot, and what is more
\* than a draft is listed.
LEMMA InitIInv == Init => IInv
<1> SUFFICES ASSUME Init PROVE IInv
  OBVIOUS
<1>1. PICK w \in Worlds : rows = w.rows /\ listings = w.listings /\ snaps = w.snaps
  BY DEF Init
<1>2. /\ rows \in [Quests -> RowType \cup {None}]
      /\ listings \in [Quests -> ListingType \cup {None}]
      /\ snaps \in [Quests \X Versions -> SnapType \cup {None}]
      /\ \A q \in Quests :
           /\ listings[q] # None => snaps[<<q, listings[q].ver>>] # None
           /\ rows[q] # None /\ rows[q].status # "draft" => listings[q] # None
  BY <1>1, WorldsAssumption
<1>3. TypeOK
  BY <1>2, Idle, RolesAssumption DEF Init, TypeOK
<1>4. Playable
  <2> SUFFICES ASSUME NEW q \in Quests
               PROVE  /\ listings[q] # None => snaps[<<q, listings[q].ver>>] # None
                      /\ rows[q] # None /\ rows[q].status # "draft"
                           => \E v \in Versions : Stored(q, v)
    BY DEF Playable, Stored
  <2>1. listings[q] # None => snaps[<<q, listings[q].ver>>] # None
    BY <1>2
  <2>2. listings[q] # None => listings[q].ver \in Versions
    BY <1>2 DEF ListingType
  <2>3. rows[q] # None /\ rows[q].status # "draft" => listings[q] # None
    BY <1>2
  <2>4. listings[q] # None => \E v \in Versions : Stored(q, v)
    BY <2>1, <2>2 DEF Stored
  <2> QED BY <2>1, <2>3, <2>4
<1>5. \A r \in Requests : Fit(r)
  BY DEF Init, Fit, Owned, Leaving
<1> QED BY <1>3, <1>4, <1>5 DEF IInv

LEMMA NextIInv == IInv /\ [Next]_vars => IInv'
<1> SUFFICES ASSUME IInv, [Next]_vars PROVE IInv'
  OBVIOUS
<1>1. CASE UNCHANGED vars
  BY <1>1, IdleStep
<1>2. CASE Tick
  BY <1>2, TickStep
<1>3. ASSUME NEW r \in Requests, RequestNext(r) PROVE IInv'
  <2>1. CASE \E kind \in Kinds, a \in Accounts, q \in Quests : Start(r, kind, a, q)
    BY <2>1, StartStep
  <2>2. CASE Gate(r) \/ Create(r) \/ Save(r) \/ ReadListing(r) \/ SetStatus(r)
    BY <2>2, GateStep, CreateStep, SaveStep, ReadListingStep, SetStatusStep
  <2>3. CASE Unpublish(r) \/ Remove(r) \/ ReadTarget(r) \/ Handover(r)
    BY <2>3, UnpublishStep, RemoveStep, ReadTargetStep, HandoverStep
  <2>4. CASE Register(r) \/ Commit(r) \/ Flip(r)
    BY <2>4, RegisterStep, CommitStep, FlipStep
  <2>5. CASE HasGrant(r) \/ BindVersion(r) \/ CreateAttempt(r)
    BY <2>5, HasGrantStep, BindVersionStep, CreateAttemptStep
  <2>6. CASE SetRole(r) \/ CheckSales(r) \/ WipePlay(r) \/ WipeGrants(r) \/ Leave(r)
    BY <2>6, SetRoleStep, CheckSalesStep, WipePlayStep, WipeGrantsStep, LeaveStep
  <2>7. CASE ReadDraft(r) \/ RewriteDraft(r) \/ ReadCard(r) \/ RewriteCard(r)
    BY <2>7, ReadDraftStep, RewriteDraftStep, ReadCardStep, RewriteCardStep
  <2>8. CASE ReadSnapshot(r) \/ RewriteSnapshot(r) \/ Abort(r)
    BY <2>8, ReadSnapshotStep, RewriteSnapshotStep, AbortStep
  <2> QED BY <1>3, <2>1, <2>2, <2>3, <2>4, <2>5, <2>6, <2>7, <2>8 DEF RequestNext
<1> QED BY <1>1, <1>2, <1>3 DEF Next

LEMMA Inductive == Spec => []IInv
BY InitIInv, NextIInv, PTL DEF Spec

\* Every variable of the handlers, the tables and the backfill keeps its type.
THEOREM TypeCorrect == Spec => []TypeOK
<1>1. IInv => TypeOK
  BY DEF IInv
<1> QED BY <1>1, Inductive, PTL

\* What is on sale, and what its author calls test or published, always has a frozen
\* snapshot behind it, however publishes, deletions, transfers and the backfill meet.
THEOREM AlwaysPlayable == Spec => []Playable
<1>1. IInv => Playable
  BY DEF IInv
<1> QED BY <1>1, Inductive, PTL

-----------------------------------------------------------------------------
(* Whose write lands.                                                       *)

\* A step of a handler moves that handler.
LEMMA OneMoves ==
  ASSUME NEW s \in Requests, RequestNext(s)
  PROVE  \E label, j : GoWith(s, label, j) \/ Go(s, label)
<1>1. CASE \E kind \in Kinds, a \in Accounts, q \in Quests : Start(s, kind, a, q)
  BY <1>1, Zenon DEF Start
<1>2. CASE Gate(s) \/ Create(s) \/ Save(s) \/ ReadListing(s) \/ SetStatus(s)
  BY <1>2, Zenon DEF Gate, Create, Save, ReadListing, SetStatus, Done
<1>3. CASE Unpublish(s) \/ Remove(s) \/ ReadTarget(s) \/ Handover(s)
  BY <1>3, Zenon DEF Unpublish, Remove, ReadTarget, Handover, Done
<1>4. CASE Register(s) \/ Commit(s) \/ Flip(s)
  BY <1>4, Zenon DEF Register, Commit, Flip, Done
<1>5. CASE HasGrant(s) \/ BindVersion(s) \/ CreateAttempt(s)
  BY <1>5, Zenon DEF HasGrant, BindVersion, CreateAttempt, Done
<1>6. CASE SetRole(s) \/ CheckSales(s) \/ WipePlay(s) \/ WipeGrants(s) \/ Leave(s)
  BY <1>6, Zenon DEF SetRole, CheckSales, WipePlay, WipeGrants, Leave, Done
<1>7. CASE ReadDraft(s) \/ RewriteDraft(s) \/ ReadCard(s) \/ RewriteCard(s)
  BY <1>7, Zenon DEF ReadDraft, RewriteDraft, ReadCard, RewriteCard, Done
<1>8. CASE ReadSnapshot(s) \/ RewriteSnapshot(s) \/ Abort(s)
  BY <1>8, Zenon DEF ReadSnapshot, RewriteSnapshot, Abort, Done
<1> QED BY <1>1, <1>2, <1>3, <1>4, <1>5, <1>6, <1>7, <1>8 DEF RequestNext

LEMMA OthersStay ==
  ASSUME TypeOK, NEW s \in Requests, RequestNext(s), NEW r \in Requests, r # s
  PROVE  pc'[r] = pc[r] /\ job'[r] = job[r]
<1>1. PICK label, j : GoWith(s, label, j) \/ Go(s, label)
  BY OneMoves
<1> QED BY <1>1 DEF TypeOK, Go, GoWith

\* Only a handler's own step moves it.
LEMMA OwnStep ==
  ASSUME TypeOK, [Next]_vars, NEW r \in Requests, pc'[r] # pc[r]
  PROVE  RequestNext(r)
<1>1. pc' # pc /\ ~Tick
  BY DEF Tick
<1>2. PICK s \in Requests : RequestNext(s)
  BY <1>1 DEF Next, vars
<1> QED BY <1>2, OthersStay

\* What a handler about to write may do, but die.
LEMMA Turn ==
  ASSUME NEW r \in Requests, RequestNext(r), pc[r] \in {"save", "status", "remove", "leave"}
  PROVE  \/ pc[r] = "save" /\ Save(r)
         \/ pc[r] = "status" /\ SetStatus(r)
         \/ pc[r] = "remove" /\ Remove(r)
         \/ pc[r] = "leave" /\ Leave(r)
         \/ Abort(r)
BY DEF RequestNext, Start, Gate, Create, Save, ReadListing, SetStatus, Unpublish, Remove,
       ReadTarget, Handover, Register, Commit, Flip, HasGrant, BindVersion, CreateAttempt,
       SetRole, CheckSales, WipePlay, WipeGrants, Leave, ReadDraft, RewriteDraft, ReadCard,
       RewriteCard, ReadSnapshot, RewriteSnapshot

LEMMA LandStep ==
  ASSUME IInv, [Next]_vars, NEW r \in Requests, Lands(r)
  PROVE  /\ job[r].admin \/ rows[job[r].quest].author = job[r].who
         /\ pc[r] = "remove" => listings[job[r].quest] = None \/ job[r].quest \in moved[r]
<1> DEFINE q == job[r].quest
<1>1. pc[r] \in {"save", "status", "remove"} /\ rows'[q] # rows[q] /\ pc'[r] = "idle"
  BY DEF Lands
<1>2. RequestNext(r)
  BY <1>1, OwnStep DEF IInv
<1>3. Save(r) \/ SetStatus(r) \/ Remove(r)
  BY <1>1, <1>2, Turn DEF Abort
<1>4. AuthorGuard(r, q)
  BY <1>1, <1>3 DEF Save, SetStatus, Remove
<1>5. job[r].admin \/ job[r].seen = job[r].who
  BY <1>1 DEF IInv, Fit, Owned
<1> QED BY <1>1, <1>4, <1>5 DEF AuthorGuard, IInv, Fit

\* A save, a status change or the end of a row lands only for an admin or for the author
\* the quest belongs to at that very moment, whatever ran since the gate (AuthorGuard);
\* what a deletion takes off sale was at least the caller's, or an admin's to take, when
\* its gate looked (delete_constructor_quest_handler).
THEOREM OnlyOwnersEdit == Spec => EditsByOwner
<1>1. IInv /\ [Next]_vars
        => [\A r \in Requests :
              /\ Lands(r) => job[r].admin \/ rows[job[r].quest].author = job[r].who
              /\ EndsSale(r) => job[r].admin \/ job[r].seen = job[r].who]_vars
  BY LandStep DEF EndsSale, IInv, Fit, Owned
<1> QED BY <1>1, Inductive, PTL DEF Spec, EditsByOwner

\* A deletion never leaves its quest on sale without a row, unless another request put
\* it back on sale between the two steps (delete_quest unpublishes first).
THEOREM DeletedAreDelisted == Spec => SaleEndsFirst
<1>1. IInv /\ [Next]_vars
        => [\A r \in Requests :
              pc[r] = "remove" /\ Lands(r)
                => listings[job[r].quest] = None \/ job[r].quest \in moved[r]]_vars
  BY LandStep
<1> QED BY <1>1, Inductive, PTL DEF Spec, SaleEndsFirst

\* A deleted account leaves nothing of its own on sale but what was published, or
\* handed to it, while the deletion was under way (delete_account checks once, first).
THEOREM OwnersLeaveNothing == Spec => OwnersDelist
<1>1. IInv /\ [Next]_vars
        => [\A r \in Requests :
              pc[r] = "leave" /\ pc'[r] = "idle" /\ role'[job[r].who] # role[job[r].who]
                => OnSaleOf(job[r].who) \subseteq moved[r]]_vars
  BY DEF IInv, Fit, Leaving
<1> QED BY <1>1, Inductive, PTL DEF Spec, OwnersDelist

-----------------------------------------------------------------------------
(* Frozen content.                                                          *)

\* Version v of q is stored, and what t says of it, if anything, is there to stay.
Holds(q, v, t) ==
  Stored(q, v) /\ (t # None => Settled(q, v) /\ snaps[<<q, v>>].text = t)

\* Attempts, and the handlers about to open one, know what their version says for good.
Bound ==
  /\ \A x \in attempts : Holds(x.quest, x.ver, x.text)
  /\ \A r \in Requests : pc[r] = "attempt" => Holds(job[r].quest, job[r].ver, job[r].text)

\* Only two steps write snapshots, only three lead to where content is held, and only
\* one opens an attempt.
LEMMA ContentSteps ==
  ASSUME IInv, NEW r \in Requests, RequestNext(r)
  PROVE  /\ UNCHANGED snaps \/ Commit(r) \/ RewriteSnapshot(r)
         /\ attempts' \subseteq attempts \/ CreateAttempt(r)
         /\ pc'[r] = "commit" => Register(r)
         /\ pc'[r] = "attempt" => BindVersion(r)
         /\ pc'[r] = "resnap" => ReadSnapshot(r)
<1>1. CASE \E kind \in Kinds, a \in Accounts, q \in Quests : Start(r, kind, a, q)
  <2>1. PICK kind \in Kinds, a \in Accounts, q \in Quests : Start(r, kind, a, q)
    BY <1>1
  <2>2. UNCHANGED <<snaps, attempts>> /\ pc' = [pc EXCEPT ![r] = FirstCall[kind]]
    BY <2>1, Zenon DEF Start, GoWith
  <2>3. FirstCall[kind] \notin {"commit", "attempt", "resnap"}
    BY DEF FirstCall, Kinds
  <2> QED BY <2>2, <2>3 DEF IInv, TypeOK
<1>2. CASE Gate(r)
  <2>1. /\ UNCHANGED <<snaps, attempts>> /\ pc[r] = "gate"
        /\ \/ pc' = [pc EXCEPT ![r] = "idle"]
           \/ pc' = [pc EXCEPT ![r] = GatedCall[job[r].kind]]
    BY <1>2, Zenon DEF Gate, Done, GoWith
  <2>2. GatedCall[job[r].kind] \in {"save", "listed", "unpublish"}
    BY <2>1 DEF IInv, Fit, GatedCall
  <2> QED BY <2>1, <2>2 DEF IInv, TypeOK
<1>3. CASE Create(r) \/ Save(r) \/ SetStatus(r) \/ Remove(r) \/ Handover(r) \/ Flip(r)
  <2>1. UNCHANGED <<snaps, attempts>> /\ pc' = [pc EXCEPT ![r] = "idle"]
    BY <1>3, Zenon DEF Create, Save, SetStatus, Remove, Handover, Flip, Done, GoWith
  <2> QED BY <2>1 DEF IInv, TypeOK
<1>4. CASE ReadListing(r) \/ Unpublish(r) \/ ReadTarget(r) \/ HasGrant(r) \/ CheckSales(r)
  <2>1. UNCHANGED <<snaps, attempts>>
    BY <1>4 DEF ReadListing, Unpublish, ReadTarget, HasGrant, CheckSales
  <2>2. \E label \in {"idle", "status", "remove", "handover", "bind", "wipe"} :
          pc' = [pc EXCEPT ![r] = label]
    BY <1>4, Zenon DEF ReadListing, Unpublish, ReadTarget, HasGrant, CheckSales, Done, Go, GoWith
  <2> QED BY <2>1, <2>2 DEF IInv, TypeOK
<1>5. CASE Register(r) \/ BindVersion(r) \/ ReadSnapshot(r)
  <2>1. UNCHANGED <<snaps, attempts>>
    BY <1>5 DEF Register, BindVersion, ReadSnapshot
  <2>2. /\ Register(r) => \E label \in {"idle", "commit"} : pc' = [pc EXCEPT ![r] = label]
        /\ BindVersion(r) => \E label \in {"idle", "attempt"} : pc' = [pc EXCEPT ![r] = label]
        /\ ReadSnapshot(r) => \E label \in {"idle", "resnap"} : pc' = [pc EXCEPT ![r] = label]
    BY Zenon DEF Register, BindVersion, ReadSnapshot, Done, GoWith
  <2> QED BY <1>5, <2>1, <2>2 DEF IInv, TypeOK
<1>6. CASE Commit(r)
  <2>1. UNCHANGED attempts /\ \E label \in {"idle", "flip"} : pc' = [pc EXCEPT ![r] = label]
    BY <1>6, Zenon DEF Commit, Done, Go, GoWith
  <2> QED BY <1>6, <2>1 DEF IInv, TypeOK
<1>7. CASE CreateAttempt(r)
  <2>1. UNCHANGED snaps /\ pc' = [pc EXCEPT ![r] = "idle"]
    BY <1>7, Zenon DEF CreateAttempt, Done, GoWith
  <2> QED BY <1>7, <2>1 DEF IInv, TypeOK
<1>8. CASE SetRole(r) \/ WipePlay(r) \/ WipeGrants(r) \/ Leave(r)
  <2>1. UNCHANGED snaps /\ attempts' \subseteq attempts
    BY <1>8 DEF SetRole, WipePlay, WipeGrants, Leave
  <2>2. \E label \in {"idle", "ungrant", "leave"} : pc' = [pc EXCEPT ![r] = label]
    BY <1>8, Zenon DEF SetRole, WipePlay, WipeGrants, Leave, Done, Go, GoWith
  <2> QED BY <2>1, <2>2 DEF IInv, TypeOK
<1>9. CASE ReadDraft(r) \/ RewriteDraft(r) \/ ReadCard(r) \/ RewriteCard(r) \/ Abort(r)
  <2>1. UNCHANGED <<snaps, attempts>>
    BY <1>9 DEF ReadDraft, RewriteDraft, ReadCard, RewriteCard, Abort
  <2>2. \E label \in {"idle", "redraft", "recard"} : pc' = [pc EXCEPT ![r] = label]
    BY <1>9, Zenon DEF ReadDraft, RewriteDraft, ReadCard, RewriteCard, Abort, Done, GoWith
  <2> QED BY <2>1, <2>2 DEF IInv, TypeOK
<1>10. CASE RewriteSnapshot(r)
  <2>1. UNCHANGED attempts /\ pc' = [pc EXCEPT ![r] = "idle"]
    BY <1>10, Zenon DEF RewriteSnapshot, Done, GoWith
  <2> QED BY <1>10, <2>1 DEF IInv, TypeOK
<1> QED BY <1>1, <1>2, <1>3, <1>4, <1>5, <1>6, <1>7, <1>8, <1>9, <1>10 DEF RequestNext

\* What a publish, and the backfill, take along from their SELECT.
LEMMA RegisterGoes ==
  ASSUME IInv, NEW r \in Requests, Register(r), pc'[r] = "commit"
  PROVE  \E v \in Versions, t \in Uploads :
           GoWith(r, "commit", [job[r] EXCEPT !.ver = v, !.text = t,
                                              !.write = SnapWrite(job[r].quest, v, t)])
<1>1. ~Done(r)
  BY Moves DEF Done, IInv
<1> QED BY <1>1 DEF Register

LEMMA ReadGoes ==
  ASSUME IInv, NEW r \in Requests, ReadSnapshot(r), pc'[r] = "resnap"
  PROVE  \E v \in Versions :
           GoWith(r, "resnap", [job[r] EXCEPT !.ver = v, !.text = snaps[<<job[r].quest, v>>].text])
<1>1. ~Done(r)
  BY Moves DEF Done, IInv
<1> QED BY <1>1 DEF ReadSnapshot

\* Whoever is about to change settled content came after it was settled: a publish then
\* finds the content there, and the backfill reads it.
LEMMA SettledFrame ==
  ASSUME IInv, [Next]_vars, NEW q \in Quests, NEW v \in Versions, Settled(q, v),
         snaps'[<<q, v>>].text = snaps[<<q, v>>].text, snaps'[<<q, v>>] # None,
         NEW s \in Requests, job'[s].quest = q, job'[s].ver = v
  PROVE  /\ ~(pc'[s] = "commit" /\ job'[s].write = "fill")
         /\ pc'[s] = "resnap" => job'[s].text = snaps'[<<q, v>>].text
<1>1. CASE pc'[s] = pc[s] /\ job'[s] = job[s]
  BY <1>1 DEF Settled
<1>2. CASE ~(pc'[s] = pc[s] /\ job'[s] = job[s])
  <2>1. PICK r \in Requests : RequestNext(r)
    BY <1>2 DEF Next, Tick, vars
  <2>2. RequestNext(s)
    BY <1>2, <2>1, OthersStay DEF IInv
  <2>3. CASE pc'[s] = "commit"
    <3>1. Register(s) /\ job[s] \in JobType
      BY <2>2, <2>3, ContentSteps, Held DEF Register
    <3>2. PICK y \in Versions, t \in Uploads :
            GoWith(s, "commit", [job[s] EXCEPT !.ver = y, !.text = t,
                                               !.write = SnapWrite(job[s].quest, y, t)])
      BY <2>3, <3>1, RegisterGoes
    <3>3. PICK w \in {"insert", "fill", "keep"} : w = SnapWrite(job[s].quest, y, t)
      BY DEF SnapWrite
    <3> DEFINE j == [job[s] EXCEPT !.ver = y, !.text = t, !.write = w]
    <3>4. GoWith(s, "commit", j)
      BY <3>2, <3>3
    <3>5. j.quest = job[s].quest /\ j.ver = y /\ j.write = w
      BY <3>1 DEF JobType
    <3> HIDE DEF j
    <3>6. job'[s] = j
      BY <3>4, Moves DEF IInv
    <3>7. w # "fill"
      BY <3>3, <3>5, <3>6 DEF SnapWrite, Settled
    <3> QED BY <2>3, <3>5, <3>6, <3>7
  <2>4. CASE pc'[s] = "resnap"
    <3>1. ReadSnapshot(s) /\ job[s] \in JobType
      BY <2>2, <2>4, ContentSteps, Held DEF ReadSnapshot
    <3>2. PICK y \in Versions :
            GoWith(s, "resnap", [job[s] EXCEPT !.ver = y, !.text = snaps[<<job[s].quest, y>>].text])
      BY <2>4, <3>1, ReadGoes
    <3>3. job'[s] = [job[s] EXCEPT !.ver = y, !.text = snaps[<<job[s].quest, y>>].text]
      BY <3>2, Moves DEF IInv
    <3>4. job[s].quest = q /\ y = v /\ job'[s].text = snaps[<<q, v>>].text
      BY <3>1, <3>3 DEF JobType
    <3> QED BY <2>4, <3>4
  <2> QED BY <2>3, <2>4
<1> QED BY <1>1, <1>2

\* Settled content stays, and stays settled.
LEMMA SettledStep ==
  ASSUME IInv, [Next]_vars, NEW q \in Quests, NEW v \in Versions, Settled(q, v)
  PROVE  Settled(q, v)' /\ snaps'[<<q, v>>].text = snaps[<<q, v>>].text
<1>1. snaps'[<<q, v>>] # None /\ snaps'[<<q, v>>].text = snaps[<<q, v>>].text
  <2>1. CASE UNCHANGED snaps
    BY <2>1 DEF Settled
  <2>2. CASE ~UNCHANGED snaps
    <3>1. PICK r \in Requests : Commit(r) \/ RewriteSnapshot(r)
      BY <2>2, ContentSteps DEF Next, Tick, vars
    <3>2. PICK x \in Quests, y \in Versions, t \in Texts \cup {None} :
            x = job[r].quest /\ y = job[r].ver /\ t = job[r].text
      BY <3>1, Held DEF Commit, RewriteSnapshot, IInv, Fit, JobType
    <3> DEFINE shot == [text |-> t, inline |-> FALSE]
    <3>3. snaps' = [snaps EXCEPT ![<<x, y>>] = shot]
      BY <2>2, <3>1, <3>2 DEF Commit, RewriteSnapshot
    <3>4. shot.text = t /\ shot # None
      <4>1. shot \in SnapType
        BY DEF SnapType
      <4> QED BY <4>1, NoneAssumption
    <3> HIDE DEF shot
    <3>5. CASE x # q \/ y # v
      BY <3>3, <3>5 DEF Settled, IInv, TypeOK
    <3>6. CASE x = q /\ y = v
      <4>1. ~Commit(r)
        <5> SUFFICES ASSUME Commit(r) PROVE FALSE
          OBVIOUS
        <5>1. job[r].write \in {"insert", "fill", "keep"} /\ job[r].write # "keep"
          BY <2>2, Held DEF Commit, JobType
        <5>2. job[r].write # "insert"
          BY <2>2, <3>2, <3>6 DEF Commit, InsertLost, Settled
        <5>3. job[r].write # "fill"
          BY <3>2, <3>6 DEF Commit, Settled
        <5> QED BY <5>1, <5>2, <5>3
      <4>2. t = snaps[<<q, v>>].text
        BY <3>1, <3>2, <3>6, <4>1 DEF RewriteSnapshot, Settled
      <4>3. snaps'[<<q, v>>] = shot
        BY <3>3, <3>6 DEF IInv, TypeOK
      <4> QED BY <3>4, <4>2, <4>3
    <3> QED BY <3>5, <3>6
  <2> QED BY <2>1, <2>2
<1>2. snaps'[<<q, v>>].text # None
  BY <1>1 DEF Settled
<1> QED BY <1>1, <1>2, SettledFrame DEF Settled

\* What is known of a version stays known.
LEMMA HoldsStay ==
  ASSUME IInv, [Next]_vars, NEW q \in Quests, NEW v \in Versions, NEW t, Holds(q, v, t)
  PROVE  Holds(q, v, t)'
<1>1. Stored(q, v)'
  <2>1. CASE UNCHANGED snaps
    BY <2>1 DEF Holds, Stored
  <2>2. CASE ~UNCHANGED snaps
    <3>1. PICK r \in Requests : Commit(r) \/ RewriteSnapshot(r)
      BY <2>2, ContentSteps DEF Next, Tick, vars
    <3>2. PICK x \in Quests, y \in Versions, z \in Texts \cup {None} :
            x = job[r].quest /\ y = job[r].ver /\ z = job[r].text
      BY <3>1, Held DEF Commit, RewriteSnapshot, IInv, Fit, JobType
    <3> DEFINE shot == [text |-> z, inline |-> FALSE]
    <3>3. snaps' = [snaps EXCEPT ![<<x, y>>] = shot]
      BY <2>2, <3>1, <3>2 DEF Commit, RewriteSnapshot
    <3>4. shot # None
      <4>1. shot \in SnapType
        BY DEF SnapType
      <4> QED BY <4>1, NoneAssumption
    <3> HIDE DEF shot
    <3> QED BY <3>3, <3>4 DEF Holds, Stored, IInv, TypeOK
  <2> QED BY <2>1, <2>2
<1>2. CASE t = None
  BY <1>1, <1>2 DEF Holds
<1>3. CASE t # None
  BY <1>1, <1>3, SettledStep DEF Holds
<1> QED BY <1>2, <1>3

\* BindVersion reads what it passes on.
LEMMA BindHolds ==
  ASSUME IInv, [Next]_vars, NEW r \in Requests, BindVersion(r), pc'[r] = "attempt"
  PROVE  Holds(job[r].quest, job[r].ver, job[r].text)'
<1>1. job[r] \in JobType
  BY Held DEF BindVersion
<1>2. PICK q \in Quests : q = job[r].quest
  BY Held DEF BindVersion
<1>3. listings[q] # None /\ listings[q] \in ListingType
  BY <1>2, Moves DEF BindVersion, Done, IInv, TypeOK
<1>4. PICK v \in Versions : v = listings[q].ver
  BY <1>3 DEF ListingType
<1>5. Stored(q, v)
  BY <1>3, <1>4 DEF IInv, Playable, Stored
<1>6. PICK t \in Texts \cup {None} : t = Known(q, v)
  BY <1>5 DEF Known, IInv, TypeOK, SnapType, Stored
<1> DEFINE j == [job[r] EXCEPT !.ver = v, !.text = t]
<1>7. GoWith(r, "attempt", j)
  BY <1>2, <1>3, <1>4, <1>6 DEF BindVersion
<1>8. j.quest = q /\ j.ver = v /\ j.text = t
  BY <1>1, <1>2 DEF JobType
<1> HIDE DEF j
<1>9. job'[r] = j
  BY <1>7, Moves DEF IInv
<1>10. Holds(q, v, t)
  BY <1>5, <1>6 DEF Holds, Known
<1>11. Holds(q, v, t)'
  BY <1>10, HoldsStay
<1> QED BY <1>8, <1>9, <1>11 DEF Holds, Settled, Stored

LEMMA BoundStep ==
  ASSUME IInv, Bound, [Next]_vars
  PROVE  Bound'
<1>1. ASSUME NEW x \in attempts PROVE Holds(x.quest, x.ver, x.text)'
  <2>1. PICK q \in Quests, v \in Versions : q = x.quest /\ v = x.ver
    BY DEF IInv, TypeOK
  <2>2. Holds(q, v, x.text)'
    BY <2>1, HoldsStay DEF Bound
  <2> QED BY <2>1, <2>2
<1>2. ASSUME NEW s \in Requests, pc[s] = "attempt", job'[s] = job[s]
      PROVE  Holds(job[s].quest, job[s].ver, job[s].text)'
  <2>1. PICK q \in Quests, v \in Versions : q = job[s].quest /\ v = job[s].ver
    BY <1>2, Held DEF IInv, Fit
  <2>2. PICK t : t = job[s].text
    OBVIOUS
  <2>3. Holds(q, v, t)
    BY <1>2, <2>1, <2>2 DEF Bound
  <2>4. Holds(q, v, t)'
    BY <2>1, <2>3, HoldsStay
  <2> QED BY <1>2, <2>1, <2>2, <2>4 DEF Holds, Settled, Stored
<1>3. ASSUME NEW s \in Requests, pc'[s] = "attempt"
      PROVE  Holds(job[s].quest, job[s].ver, job[s].text)'
  <2>1. CASE pc'[s] = pc[s] /\ job'[s] = job[s]
    BY <1>2, <1>3, <2>1
  <2>2. CASE ~(pc'[s] = pc[s] /\ job'[s] = job[s])
    <3>1. PICK r \in Requests : RequestNext(r)
      BY <2>2 DEF Next, Tick, vars
    <3>2. RequestNext(s)
      BY <2>2, <3>1, OthersStay DEF IInv
    <3>3. BindVersion(s)
      BY <1>3, <3>2, ContentSteps
    <3> QED BY <1>3, <3>3, BindHolds
  <2> QED BY <2>1, <2>2
<1>4. ASSUME NEW x \in attempts', x \notin attempts PROVE Holds(x.quest, x.ver, x.text)'
  <2>1. PICK r \in Requests : CreateAttempt(r)
    BY <1>4, ContentSteps DEF Next, Tick, vars
  <2>2. x = [user |-> job[r].who, quest |-> job[r].quest,
             ver |-> job[r].ver, text |-> job[r].text]
    BY <1>4, <2>1 DEF CreateAttempt
  <2>3. PICK q \in Quests, v \in Versions : q = job[r].quest /\ v = job[r].ver
    BY <2>1, Held DEF CreateAttempt, IInv, Fit
  <2>4. PICK t : t = job[r].text
    OBVIOUS
  <2>5. Holds(q, v, t)
    BY <2>1, <2>3, <2>4 DEF CreateAttempt, Bound
  <2>6. Holds(q, v, t)'
    BY <2>3, <2>5, HoldsStay
  <2> QED BY <2>2, <2>3, <2>4, <2>6 DEF Holds, Settled, Stored
<1> QED BY <1>1, <1>3, <1>4 DEF Bound

LEMMA BoundInductive == Spec => [](IInv /\ Bound)
<1>1. Init => IInv /\ Bound
  BY InitIInv DEF Init, Bound
<1>2. IInv /\ Bound /\ [Next]_vars => (IInv /\ Bound)'
  BY NextIInv, BoundStep
<1> QED BY <1>1, <1>2, PTL DEF Spec

\* Whatever is published, with content or without, deleted, handed over or refiled later,
\* an attempt keeps its snapshot, and the very content that had when it was bound, unless
\* a publish that had seen it empty was still to fill it.
THEOREM AttemptsPinned == Spec => []AttemptsKeepSnapshot
<1>1. IInv /\ Bound => AttemptsKeepSnapshot
  BY DEF Bound, Holds, Stored, AttemptsKeepSnapshot
<1> QED BY <1>1, BoundInductive, PTL

\* Once no publish that saw it empty is under way, a snapshot with content never says
\* anything else and never goes away, whatever publishes and runs of the backfill overlap.
THEOREM SnapshotsFrozen == Spec => FrozenSnapshots
<1>1. IInv /\ [Next]_vars
        => [\A q \in Quests, v \in Versions :
              Settled(q, v) => /\ Settled(q, v)'
                               /\ snaps'[<<q, v>>].text = snaps[<<q, v>>].text]_vars
  BY SettledStep
<1> QED BY <1>1, Inductive, PTL DEF Spec, FrozenSnapshots
=============================================================================
