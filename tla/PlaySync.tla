----------------------------- MODULE PlaySync -----------------------------
(***************************************************************************)
(* Offline play of one quest and its sync: the IndexedDB queue             *)
(* (frontend/lib/queue.ts), the flush controller (lib/sync.ts), the fact   *)
(* sink of the player page (lib/fact-sink.ts, QuestPlayerClient.tsx), and  *)
(* the backend's attempt registry and fact store (backend/src/store.rs,    *)
(* pg_store.rs, handlers/player.rs).                                       *)
(*                                                                         *)
(* A tab runs one piece of JavaScript at a time, but every `await` lets    *)
(* another flow of the tab, another tab of the device, or another device   *)
(* in: one step here is what happens between two awaits.  An IndexedDB     *)
(* transaction is one step; a get followed by a put in transactions of     *)
(* their own is two.                                                       *)
(***************************************************************************)
EXTENDS Naturals, FiniteSets

CONSTANTS
  None,
  Tabs, Devices, Users,
  Flows,          \* async calls that may be under way at the same time
  AttemptKeys,    \* client-born attempt ids, all devices together
  ServerIds,      \* server-born attempt ids; the server answers 5xx when they run out
  Kinds, Once,    \* fact kinds, and those awarded once per player and quest
  Facts,          \* facts play may record, each standing for its natural key
  TabOf, DeviceOf, UserOf,
  MaxFaults       \* bound: lost requests and replies, failed checkouts, closed tabs

RowType == [device : Devices, status : {"active", "superseded"}, sid : ServerIds \cup {None}]
AttemptType == [user : Users, key : AttemptKeys]

ASSUME PlacesAssumption ==
  /\ TabOf \in [Flows -> Tabs] /\ DeviceOf \in [Tabs -> Devices] /\ UserOf \in [Devices -> Users]
ASSUME FactsAssumption  == Once \subseteq Kinds /\ \A f \in Facts : f.kind \in Kinds
ASSUME FaultsAssumption == MaxFaults \in Nat
ASSUME NoneAssumption   ==
  None \notin AttemptKeys \cup ServerIds \cup Users \cup Facts \cup RowType \cup AttemptType

VARIABLES
  attempts,   \* attempt key -> its row in the device's IndexedDB, or None
  queue,      \* attempt key -> fact -> "none", "pending" or "sent"
  open,       \* tab -> the attempt its player page was hydrated with, or None
  pc,         \* flow -> where it awaits
  held,       \* flow -> what its closure carries across the awaits
  server,     \* server attempt id -> who and what it was created for, or None
  logs,       \* server attempt id -> its fact log
  ledger,     \* bonus_awards: <<user, kind>> pairs
  granted,    \* users with access to the quest
  faults

local  == <<attempts, queue>>
remote == <<server, logs, ledger>>
vars   == <<attempts, queue, open, pc, held, server, logs, ledger, granted, faults>>

-----------------------------------------------------------------------------
Device(f) == DeviceOf[TabOf[f]]
Me(f)     == UserOf[Device(f)]

RowsOf(d)   == {k \in AttemptKeys : attempts[k] # None /\ attempts[k].device = d}
ActiveOf(d) == {k \in RowsOf(d) : attempts[k].status = "active"}
Pending(k)  == {x \in Facts : queue[k][x] = "pending"}

\* `row` is a copy of a row read in an earlier transaction; `then` is what the
\* caller of ensureActiveAttempt does with the key.
NoWork == [key |-> None, row |-> None, fact |-> None, batch |-> {}, sid |-> None, then |-> "open"]

Goto(f, label) == pc' = [pc EXCEPT ![f] = label]
Done(f) == Goto(f, "idle") /\ held' = [held EXCEPT ![f] = NoWork]
Fault   == faults < MaxFaults /\ faults' = faults + 1

Init ==
  /\ attempts = [k \in AttemptKeys |-> None]
  /\ queue = [k \in AttemptKeys |-> [x \in Facts |-> "none"]]
  /\ open = [t \in Tabs |-> None]
  /\ pc = [f \in Flows |-> "idle"]
  /\ held = [f \in Flows |-> NoWork]
  /\ server = [s \in ServerIds |-> None]
  /\ logs = [s \in ServerIds |-> {}]
  /\ ledger = {}
  /\ granted \in SUBSET Users
  /\ faults = 0

-----------------------------------------------------------------------------
(* Opening, restarting and playing the quest on a device.                   *)

\* openAttempt, on the mount of the player page.
OpenQuest(f) ==
  /\ pc[f] = "idle" /\ open[TabOf[f]] = None
  /\ Goto(f, "find")
  /\ UNCHANGED <<local, open, held, remote, granted, faults>>

\* restartAttempt, behind the gate: the page of this tab is not mounted.  It
\* reads the active attempt first.
Restart(f) ==
  /\ pc[f] = "idle"
  /\ open' = [open EXCEPT ![TabOf[f]] = None]
  /\ \E k \in ActiveOf(Device(f)) :
       held' = [held EXCEPT ![f] = [NoWork EXCEPT !.key = k, !.row = attempts[k]]]
  /\ Goto(f, "supersede")
  /\ UNCHANGED <<local, remote, granted, faults>>

RetiredAway(row) == None   \* faulty: the row goes, and its facts are stranded

\* The row stays, so the facts of the run it held still find their way out.
Retired(row) == [row EXCEPT !.status = "superseded"]

\* ... and writes the copy it read back as superseded.
Supersede(f) ==
  /\ pc[f] = "supersede"
  /\ attempts' = [attempts EXCEPT ![held[f].key] = Retired(held[f].row)]
  /\ Goto(f, "find")
  /\ held' = [held EXCEPT ![f] = NoWork]
  /\ UNCHANGED <<queue, open, remote, granted, faults>>

\* The fact sink files a fact of the page under the attempt that is active by
\* the time the write is made.  Two flows of a tab may be filing at once, which
\* the sink's ordered chain forbids: no property reads the order.
Record(f, x) ==
  /\ pc[f] = "idle" /\ open[TabOf[f]] # None
  /\ Goto(f, "find")
  /\ held' = [held EXCEPT ![f] = [NoWork EXCEPT !.fact = x, !.then = "append"]]
  /\ UNCHANGED <<local, open, remote, granted, faults>>

\* ensureActiveAttempt hands `k` to its caller.
Ensured(f, k) ==
  IF held[f].then = "append"
  THEN /\ Goto(f, "append") /\ held' = [held EXCEPT ![f].key = k] /\ UNCHANGED open
  ELSE /\ Done(f) /\ open' = [open EXCEPT ![TabOf[f]] = k]

\* getActiveAttempt: one of the active rows, in the order of random keys.
FindActive(f) ==
  /\ pc[f] = "find"
  /\ \/ \E k \in ActiveOf(Device(f)) : Ensured(f, k)
     \/ ActiveOf(Device(f)) = {} /\ Goto(f, "mint") /\ UNCHANGED <<held, open>>
  /\ UNCHANGED <<local, remote, granted, faults>>

\* No active row was there when it was looked for: a fresh one is put.
MintAttempt(f) ==
  /\ pc[f] = "mint"
  /\ \E k \in AttemptKeys :
       /\ attempts[k] = None
       /\ attempts' = [attempts EXCEPT ![k] =
                         [device |-> Device(f), status |-> "active", sid |-> None]]
       /\ Ensured(f, k)
  /\ UNCHANGED <<queue, remote, granted, faults>>

\* Storage refuses the put (here: once the keys of the model are used up): the
\* page plays on in memory.
MintFails(f) ==
  /\ pc[f] = "mint"
  /\ \A k \in AttemptKeys : attempts[k] # None
  /\ Done(f)
  /\ UNCHANGED <<local, open, remote, granted, faults>>

AppendAnew(status) == "pending"   \* faulty: a known natural key is put again

\* appendFact, one readwrite transaction: a known natural key keeps its row.
Append(status) == IF status = "none" THEN "pending" ELSE status

AppendFact(f) ==
  /\ pc[f] = "append"
  /\ queue' = [queue EXCEPT ![held[f].key][held[f].fact] = Append(@)]
  /\ Done(f)
  /\ UNCHANGED <<attempts, open, remote, granted, faults>>

\* setLastStepIdx reads the row of the open attempt ...
Advance(f) ==
  /\ pc[f] = "idle" /\ open[TabOf[f]] # None
  /\ LET k == open[TabOf[f]] IN
     held' = [held EXCEPT ![f] = [NoWork EXCEPT !.key = k, !.row = attempts[k]]]
  /\ Goto(f, "advance")
  /\ UNCHANGED <<local, open, remote, granted, faults>>

\* ... and puts that copy back with the new position, which no property reads.
AdvancePut(f) ==
  /\ pc[f] = "advance"
  /\ attempts' = [attempts EXCEPT ![held[f].key] = held[f].row]
  /\ Done(f)
  /\ UNCHANGED <<queue, open, remote, granted, faults>>

-----------------------------------------------------------------------------
(* Flushing: lib/sync.ts.                                                   *)

FlushLabels == {"bound", "create", "checkout", "again", "bindget", "bindput", "post", "mark"}

\* flushAll lists every attempt of the device, superseded ones too; flushPending
\* takes the active one, which is among them.
FlushTargetsActive(d) == ActiveOf(d)   \* faulty: what was superseded is left behind

FlushTargets(d) == RowsOf(d)

\* One flush per attempt and tab; the batch is what is pending when it starts.
StartFlush(f, k) ==
  /\ pc[f] = "idle"
  /\ k \in FlushTargets(Device(f))
  /\ \A g \in Flows : TabOf[g] = TabOf[f] /\ held[g].key = k => pc[g] \notin FlushLabels
  /\ Pending(k) # {}
  /\ held' = [held EXCEPT ![f] = [NoWork EXCEPT !.key = k, !.batch = Pending(k)]]
  /\ Goto(f, "bound")
  /\ UNCHANGED <<local, open, remote, granted, faults>>

\* server_attempt_id is read inside the flight.
ReadBound(f) ==
  /\ pc[f] = "bound"
  /\ LET sid == attempts[held[f].key].sid IN
     /\ held' = [held EXCEPT ![f].sid = sid]
     /\ Goto(f, IF sid = None THEN "create" ELSE "post")
  /\ UNCHANGED <<local, open, remote, granted, faults>>

\* POST /api/attempts: a grant holder gets a new attempt, every time.
NewAttempt(f, s) ==
  /\ Me(f) \in granted
  /\ server[s] = None
  /\ server' = [server EXCEPT ![s] = [user |-> Me(f), key |-> held[f].key]]
  /\ UNCHANGED <<logs, ledger>>

CreateAttempt(f) ==
  /\ pc[f] \in {"create", "again"}
  /\ \E s \in ServerIds : NewAttempt(f, s) /\ held' = [held EXCEPT ![f].sid = s]
  /\ Goto(f, "bindget")
  /\ UNCHANGED <<local, open, granted, faults>>

\* Refused (403), unreachable, or created with the reply lost: the first time
\* any of these sends the flow to checkout, the second ends it.
CreateFails(f) ==
  /\ pc[f] \in {"create", "again"}
  /\ \/ Me(f) \notin granted /\ UNCHANGED <<remote, faults>>
     \/ (\A s \in ServerIds : server[s] # None) /\ UNCHANGED <<remote, faults>>
     \/ Fault /\ UNCHANGED remote
     \/ Fault /\ \E s \in ServerIds : NewAttempt(f, s)
  /\ IF pc[f] = "create" THEN Goto(f, "checkout") /\ UNCHANGED held ELSE Done(f)
  /\ UNCHANGED <<local, open, granted>>

\* The checkout of a free or already bought quest; it may also fail.
Checkout(f) ==
  /\ pc[f] = "checkout"
  /\ granted' = granted \cup {Me(f)}
  /\ Goto(f, "again")
  /\ UNCHANGED <<local, open, held, remote, faults>>

CheckoutFails(f) ==
  /\ pc[f] = "checkout"
  /\ Fault /\ Done(f)
  /\ UNCHANGED <<local, open, remote, granted>>

\* setServerAttemptId: a read of the row ...
BindGet(f) ==
  /\ pc[f] = "bindget"
  /\ held' = [held EXCEPT ![f].row = attempts[held[f].key]]
  /\ Goto(f, "bindput")
  /\ UNCHANGED <<local, open, remote, granted, faults>>

\* ... and a write of the copy with the id.
BindPut(f) ==
  /\ pc[f] = "bindput"
  /\ attempts' = [attempts EXCEPT ![held[f].key] = [held[f].row EXCEPT !.sid = held[f].sid]]
  /\ Goto(f, "post")
  /\ UNCHANGED <<queue, open, held, remote, granted, faults>>

-----------------------------------------------------------------------------
(* POST /api/attempts/{id}/facts: append_idempotent, one transaction.        *)

\* faulty: bonuses are looked up in this attempt's log only
AwardedHere(s) == {x.kind : x \in {y \in logs[s] : y.kind \in Once}}

\* The once-ever kinds the attempt's player already holds, on any attempt.
Awarded(s) == {kind \in Once : <<server[s].user, kind>> \in ledger}

\* What a batch adds to the log: every new natural key, but of a once-ever kind
\* only its first fact, and none if the kind is already held.
Accepts(s, batch, new) ==
  LET bonuses == {x \in batch : x.kind \in Once}
      plain   == batch \ bonuses
      kinds   == {x.kind : x \in bonuses} \ Awarded(s)
  IN \E pick \in [kinds -> bonuses] :
       /\ \A kind \in kinds : pick[kind].kind = kind
       /\ new = (plain \cup {pick[kind] : kind \in kinds}) \ logs[s]

\* faulty: the marks commit even when the facts are lost
ApplyMarksFirst(s, batch, new) ==
  /\ ledger' = ledger \cup {<<server[s].user, x.kind>> : x \in {y \in new : y.kind \in Once}}
  /\ \/ logs' = [logs EXCEPT ![s] = @ \cup new]
     \/ logs' = [logs EXCEPT ![s] = @ \cup {x \in new : x.kind \notin Once}]

\* The facts and the bonus_awards rows commit together.
Apply(s, batch, new) ==
  /\ logs' = [logs EXCEPT ![s] = @ \cup new]
  /\ ledger' = ledger \cup {<<server[s].user, x.kind>> : x \in {y \in new : y.kind \in Once}}

Post(f) ==
  LET s == held[f].sid IN
  /\ \E new \in SUBSET held[f].batch : Accepts(s, held[f].batch, new) /\ Apply(s, held[f].batch, new)
  /\ UNCHANGED server

PostFacts(f) ==
  /\ pc[f] = "post"
  /\ Post(f)
  /\ Goto(f, "mark")
  /\ UNCHANGED <<local, open, held, granted, faults>>

\* The request or its reply is lost: the flow ends with everything pending.
PostFails(f) ==
  /\ pc[f] = "post"
  /\ Fault
  /\ Post(f) \/ UNCHANGED remote
  /\ Done(f)
  /\ UNCHANGED <<local, open, granted>>

\* faulty: whatever is pending by now is taken for sent
MarkPending(f) == Pending(held[f].key)

\* markSent flips exactly the batch that was posted.
Marked(f) == held[f].batch

MarkSent(f) ==
  /\ pc[f] = "mark"
  /\ queue' = [queue EXCEPT ![held[f].key] =
       [x \in Facts |-> IF x \in Marked(f) /\ @[x] = "pending" THEN "sent" ELSE @[x]]]
  /\ Done(f)
  /\ UNCHANGED <<attempts, open, remote, granted, faults>>

\* The tab is closed or reloaded: its flows end where they are.
CloseTab(t) ==
  /\ Fault
  /\ open' = [open EXCEPT ![t] = None]
  /\ pc' = [f \in Flows |-> IF TabOf[f] = t THEN "idle" ELSE pc[f]]
  /\ held' = [f \in Flows |-> IF TabOf[f] = t THEN NoWork ELSE held[f]]
  /\ UNCHANGED <<local, remote, granted>>

-----------------------------------------------------------------------------
\* What a flow does once its await resolves.
Resume(f) ==
  \/ Supersede(f) \/ FindActive(f) \/ MintAttempt(f) \/ MintFails(f) \/ AppendFact(f)
  \/ AdvancePut(f) \/ ReadBound(f) \/ CreateAttempt(f) \/ CreateFails(f) \/ Checkout(f) \/ CheckoutFails(f)
  \/ BindGet(f) \/ BindPut(f) \/ PostFacts(f) \/ PostFails(f) \/ MarkSent(f)

Begin(f) ==
  \/ OpenQuest(f) \/ Restart(f) \/ Advance(f)
  \/ \E x \in Facts : Record(f, x)
  \/ \E k \in AttemptKeys : StartFlush(f, k)

Next == (\E f \in Flows : Begin(f) \/ Resume(f)) \/ (\E t \in Tabs : CloseTab(t))

Spec == Init /\ [][Next]_vars

\* Promises resolve; and whole-device sweeps recur (app load, profile load, back
\* online, 1.2 s after a new fact), so a pending attempt is flushed again and again.
Fairness ==
  /\ \A f \in Flows : WF_vars(Resume(f))
  /\ \A k \in AttemptKeys : SF_vars(\E f \in Flows : StartFlush(f, k))

LiveSpec == Spec /\ Fairness

-----------------------------------------------------------------------------
WorkType == [key : AttemptKeys \cup {None}, row : RowType \cup {None}, fact : Facts \cup {None},
             batch : SUBSET Facts, sid : ServerIds \cup {None}, then : {"open", "append"}]

Labels == {"idle", "supersede", "find", "mint", "append", "advance"} \cup FlushLabels

\* Every variable has its type; facts and copies of rows are held only for rows
\* that exist.
TypeOK ==
  /\ attempts \in [AttemptKeys -> RowType \cup {None}]
  /\ queue \in [AttemptKeys -> [Facts -> {"none", "pending", "sent"}]]
  /\ open \in [Tabs -> AttemptKeys \cup {None}]
  /\ pc \in [Flows -> Labels]
  /\ held \in [Flows -> WorkType]
  /\ server \in [ServerIds -> AttemptType \cup {None}]
  /\ logs \in [ServerIds -> SUBSET Facts]
  /\ ledger \subseteq Users \X Once
  /\ granted \subseteq Users
  /\ faults \in Nat
  /\ \A k \in AttemptKeys : attempts[k] = None => \A x \in Facts : queue[k][x] = "none"

Registered(k) == {s \in ServerIds : server[s] # None /\ server[s].key = k}
PlayerOf(k)   == UserOf[attempts[k].device]
Played(u)     == {s \in ServerIds : server[s] # None /\ server[s].user = u}

\* README, invariant 3: whatever tabs, devices, retries and restarts do, a
\* player's logs for the quest hold at most one fact of a once-ever kind.
BonusOnce ==
  \A u \in Users, kind \in Once :
    Cardinality({sx \in Played(u) \X Facts : sx[2] \in logs[sx[1]] /\ sx[2].kind = kind}) <= 1

\* awarded_bonuses: the ledger of the Postgres store and the logs the in-memory
\* store reads give the same answer to what a player was already awarded.
BackendsAgree ==
  ledger = {mark \in Users \X Once :
              \E s \in Played(mark[1]) : \E x \in logs[s] : x.kind = mark[2]}

\* markSent: a fact is marked only when it is on the server, or was absorbed
\* there as a bonus the player already holds: nothing else may stop its retries.
SentIsDurable ==
  \A k \in AttemptKeys, x \in Facts :
    queue[k][x] = "sent" =>
      \/ \E s \in Registered(k) : x \in logs[s]
      \/ x.kind \in Once /\ <<PlayerOf(k), x.kind>> \in ledger

\* What the play looks like from outside: whose each attempt is, what its device has
\* recorded in it, and what the logs of the attempts that the server made for it keep.
OwnerOf(k) == IF attempts[k] = None THEN None ELSE PlayerOf(k)
FiledOf(k) == UNION {logs[s] : s \in Registered(k)}

Ledger == INSTANCE FactLedger WITH
            Attempts <- AttemptKeys, record <- queue, awards <- ledger,
            owner <- [k \in AttemptKeys |-> OwnerOf(k)],
            filed <- [k \in AttemptKeys |-> FiledOf(k)]

\* Whatever tabs, restarts, lost replies and repeats interleave, every step is a step of
\* FactLedger or none: nothing recorded is lost, nothing else is filed, nothing filed is
\* taken back, and what is confirmed stays so.
KeepsLedger == Ledger!Spec

\* flushAll: whatever was queued reaches the server in the end, facts stranded on
\* a superseded attempt included.
EverythingSyncs ==
  \A k \in AttemptKeys, x \in Facts : queue[k][x] = "pending" ~> queue[k][x] = "sent"
=============================================================================
