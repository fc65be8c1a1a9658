------------------------------ MODULE Identity ------------------------------
(***************************************************************************)
(* Who is playing on a device, and under whom what was played is filed:    *)
(* the anonymous id and the session of the browser (frontend/lib/          *)
(* identity.ts), signing in (app/auth), the full logout (lib/session-      *)
(* actions.ts, clearLocalPlay), the flush that goes on meanwhile in this   *)
(* and in other tabs (lib/sync.ts), and the server's rule on who may act   *)
(* as whom (backend/src/authz.rs).                                         *)
(*                                                                         *)
(* Module PlaySync has one player for good, and all of the queue.  Here    *)
(* players come and go: one free quest, facts of ordinary kinds, rows      *)
(* without a status, and one step per await.  A lost call, a session the   *)
(* server ended and a browser offline all end a flow the same way.         *)
(***************************************************************************)
EXTENDS Naturals, FiniteSets

CONSTANTS
  None,
  Tabs, Flows, TabOf,   \* async calls under way, each in a tab of the device
  Accounts,             \* accounts made elsewhere
  MaxIds,               \* bound: anonymous ids the device mints, one per logout
  AttemptKeys, ServerIds,
  Facts,
  MaxFaults             \* bound: calls and writes that are lost, tabs that close

Ids   == 1 .. MaxIds    \* the anonymous ids of this device, in order
Users == Ids \cup Accounts

RowType  == [sid : ServerIds \cup {None}]
FactType == [by : Users, late : BOOLEAN, sent : BOOLEAN]
OwnType  == [user : Users, left : BOOLEAN]
LogType  == [by : Users, left : BOOLEAN]

ASSUME TabsAssumption == TabOf \in [Flows -> Tabs] /\ IsFiniteSet(Flows)
ASSUME IdsAssumption  == MaxIds \in Nat \ {0} /\ Ids \cap Accounts = {}
ASSUME FaultsAssumption == MaxFaults \in Nat
ASSUME NoneAssumption ==
  None \notin Users \cup AttemptKeys \cup ServerIds \cup Facts
              \cup RowType \cup FactType \cup OwnType \cup LogType

VARIABLES
  session,      \* whom the stored session is of, or None
  device,       \* the anonymous id the device has now
  registered,   \* ids that are accounts of the server
  rows,         \* attempt key -> its row in IndexedDB, or None
  queue,        \* attempt key -> fact -> its row, or None
  minted,       \* attempt key -> the id the device had when it was first put, or None
  pc, held,     \* flow -> where it awaits, and what it carries
  server,       \* server attempt -> whose it is, or None
  logs,         \* server attempt -> fact -> whose play it is, or None
  players,      \* history: anonymous id -> who played before it was given up
  kept,         \* history: rows a logout did not wipe, or a late put brought back
  lost,         \* history: ids that became accounts without the device knowing
  faults

browser == <<session, device>>
local   == <<rows, queue, minted>>
remote  == <<registered, server, logs>>
history == <<players, kept, lost, faults>>
seen    == <<players, kept, lost>>
vars    == <<browser, local, pc, held, remote, history>>

-----------------------------------------------------------------------------
\* faulty: the session only
MeSignedIn == session

\* currentUserId: the account when logged in, the anonymous id otherwise.
Me == IF session # None THEN session ELSE device

\* `auth` is the session whose token a call carries, `born` the id the device had
\* when the flow began; `left` marks a flush that found a row of an earlier player
\* or read its batch under another id; `quit` marks the flow of a logout, and
\* `joined` are the flushes of its tab that it waits for.
NoWork == [key |-> None, row |-> None, fact |-> None, user |-> None, auth |-> None, sid |-> None,
           batch |-> {}, born |-> 1, left |-> FALSE, quit |-> FALSE, joined |-> {}]

Goto(f, label) == pc' = [pc EXCEPT ![f] = label]
Hold(f, work)  == held' = [held EXCEPT ![f] = work]
Done(f)        == Goto(f, "idle") /\ Hold(f, NoWork)
Fault          == faults < MaxFaults /\ faults' = faults + 1

FlushLabels == {"pending", "bound", "create", "again", "bindget", "bindput", "post", "mark"}

\* A flush of tab t is under way for attempt k.
InFlight(t, k) == \E g \in Flows : TabOf[g] = t /\ pc[g] \in FlushLabels /\ held[g].key = k

\* A flush ends, well or not; a logout goes on.
End(f) ==
  IF held[f].quit
  THEN Goto(f, "rotate") /\ Hold(f, [NoWork EXCEPT !.quit = TRUE, !.joined = held[f].joined])
  ELSE Done(f)

Stored == {k \in AttemptKeys : rows[k] # None}

Init ==
  /\ session = None /\ device = 1
  /\ registered = Accounts
  /\ rows = [k \in AttemptKeys |-> None]
  /\ queue = [k \in AttemptKeys |-> [x \in Facts |-> None]]
  /\ minted = [k \in AttemptKeys |-> None]
  /\ pc = [f \in Flows |-> "idle"]
  /\ held = [f \in Flows |-> NoWork]
  /\ server = [s \in ServerIds |-> None]
  /\ logs = [s \in ServerIds |-> [x \in Facts |-> None]]
  /\ players = [i \in Ids |-> {i}]
  /\ kept = {} /\ lost = {} /\ faults = 0

-----------------------------------------------------------------------------
(* Playing.                                                                 *)

\* The fact sink asks for the active attempt before it writes.
Record(f, x) ==
  /\ pc[f] = "idle"
  /\ Hold(f, [NoWork EXCEPT !.fact = x, !.user = Me, !.born = device])
  /\ Goto(f, "find")
  /\ UNCHANGED <<browser, local, remote, history>>

\* ensureActiveAttempt: the attempt that is there ...
FindActive(f) ==
  /\ pc[f] = "find"
  /\ \/ \E k \in Stored : Goto(f, "append") /\ Hold(f, [held[f] EXCEPT !.key = k])
     \/ Stored = {} /\ Goto(f, "mint") /\ UNCHANGED held
  /\ UNCHANGED <<browser, local, remote, history>>

\* ... or a new one: keys are random, so nobody has had this one before.
MintAttempt(f) ==
  /\ pc[f] = "mint"
  /\ \E k \in AttemptKeys :
       /\ minted[k] = None
       /\ rows' = [rows EXCEPT ![k] = [sid |-> None]]
       /\ minted' = [minted EXCEPT ![k] = device]
       /\ Hold(f, [held[f] EXCEPT !.key = k])
  /\ Goto(f, "append")
  /\ UNCHANGED <<browser, queue, remote, history>>

MintFails(f) ==
  /\ pc[f] = "mint"
  /\ \A k \in AttemptKeys : minted[k] # None
  /\ Done(f)
  /\ UNCHANGED <<browser, local, remote, history>>

\* appendFact: a known natural key keeps its row.
AppendFact(f) ==
  /\ pc[f] = "append"
  /\ LET h == held[f] IN
     queue' = [queue EXCEPT ![h.key][h.fact] =
       IF @ # None THEN @ ELSE [by |-> h.user, late |-> h.born # device, sent |-> FALSE]]
  /\ Done(f)
  /\ UNCHANGED <<browser, rows, minted, remote, history>>

\* A copy of a row is put, whether or not the row is still there.
PutBack(k, row) ==
  /\ rows' = [rows EXCEPT ![k] = row]
  /\ kept' = IF rows[k] = None THEN kept \cup {k} ELSE kept
  /\ UNCHANGED <<queue, minted, players, lost, faults>>

\* setLastStepIdx reads the row of a page's attempt, and puts it back.
Advance(f, k) ==
  /\ pc[f] = "idle" /\ rows[k] # None
  /\ Hold(f, [NoWork EXCEPT !.key = k, !.row = rows[k]])
  /\ Goto(f, "advance")
  /\ UNCHANGED <<browser, local, remote, history>>

AdvancePut(f) ==
  /\ pc[f] = "advance"
  /\ PutBack(held[f].key, held[f].row)
  /\ Done(f)
  /\ UNCHANGED <<browser, remote>>

-----------------------------------------------------------------------------
(* Flushing.                                                                *)

\* flushPending and flushAll take the user of now, and the attempts of now.
FlushOf(f, k) ==
  [NoWork EXCEPT !.key = k, !.user = Me, !.born = device, !.left = minted[k] # device]

StartFlush(f, k) ==
  /\ pc[f] = "idle" /\ rows[k] # None /\ ~InFlight(TabOf[f], k)
  /\ Hold(f, FlushOf(f, k))
  /\ Goto(f, "pending")
  /\ UNCHANGED <<browser, local, remote, history>>

Waiting(k) ==
  {[fact |-> x, by |-> queue[k][x].by, late |-> queue[k][x].late] :
     x \in {y \in Facts : queue[k][y] # None /\ ~queue[k][y].sent}}

ReadPending(f) ==
  /\ pc[f] = "pending"
  /\ LET k == held[f].key IN
     IF Waiting(k) = {} THEN End(f)
     ELSE /\ Goto(f, "bound")
          /\ Hold(f, [held[f] EXCEPT !.batch = Waiting(k), !.born = 1,
                                      !.left = @ \/ held[f].born # device])
  /\ UNCHANGED <<browser, local, remote, history>>

\* The row may be gone by now.  A call carries the token of the moment it is
\* made, and the user its flush began with.
ReadBound(f) ==
  /\ pc[f] = "bound"
  /\ LET row == rows[held[f].key] IN
     IF row # None /\ row.sid # None
     THEN Goto(f, "post") /\ Hold(f, [held[f] EXCEPT !.sid = row.sid, !.user = None])
     ELSE Goto(f, "create") /\ Hold(f, [held[f] EXCEPT !.auth = session])
  /\ UNCHANGED <<browser, local, remote, history>>

\* faulty: a token speaks for its account, whatever the body claims
ActsUnchecked(auth, claimed) == auth # None \/ claimed \notin registered

\* resolve_user: a token must be of the user the body claims, and without one
\* the claim must not be an account.
MayAct(auth, claimed) ==
  IF auth # None THEN auth = claimed ELSE claimed \notin registered

\* The user an attempt is made for.
Resolved(auth, claimed) == IF auth # None THEN auth ELSE claimed

NewAttempt(f, s) ==
  /\ MayAct(held[f].auth, held[f].user)
  /\ server[s] = None
  /\ server' = [server EXCEPT ![s] =
       [user |-> Resolved(held[f].auth, held[f].user), left |-> held[f].left]]
  /\ UNCHANGED <<registered, logs>>

CreateAttempt(f) ==
  /\ pc[f] \in {"create", "again"}
  /\ \E s \in ServerIds : NewAttempt(f, s) /\ Hold(f, [held[f] EXCEPT !.sid = s, !.user = None, !.auth = None])
  /\ Goto(f, "bindget")
  /\ UNCHANGED <<browser, local, history>>

\* Refused, or lost on the way there or back.  The first failure leads to the
\* checkout and to another call, with the token of that moment.
CreateFails(f) ==
  /\ pc[f] \in {"create", "again"}
  /\ \/ ~MayAct(held[f].auth, held[f].user) /\ UNCHANGED <<remote, faults>>
     \/ (\A s \in ServerIds : server[s] # None) /\ UNCHANGED <<remote, faults>>
     \/ Fault /\ (UNCHANGED remote \/ \E s \in ServerIds : NewAttempt(f, s))
  /\ \/ pc[f] = "create" /\ Goto(f, "again") /\ Hold(f, [held[f] EXCEPT !.auth = session])
     \/ pc[f] = "again" /\ End(f)
  /\ UNCHANGED <<browser, local, seen>>

\* setServerAttemptId: no row, nothing to bind.
BindGet(f) ==
  /\ pc[f] = "bindget"
  /\ LET row == rows[held[f].key] IN
     IF row = None THEN Goto(f, "post") /\ UNCHANGED held
     ELSE Goto(f, "bindput") /\ Hold(f, [held[f] EXCEPT !.row = row])
  /\ UNCHANGED <<browser, local, remote, history>>

BindPut(f) ==
  /\ pc[f] = "bindput"
  /\ PutBack(held[f].key, [held[f].row EXCEPT !.sid = held[f].sid])
  /\ Goto(f, "post") /\ Hold(f, [held[f] EXCEPT !.row = None])
  /\ UNCHANGED <<browser, remote>>

\* append_facts asks nobody who he is: the id of the attempt is enough.
Post(f) ==
  LET h == held[f]
      new(x) == CHOOSE m \in h.batch : m.fact = x
      sent   == {m.fact : m \in h.batch}
  IN /\ logs' = [logs EXCEPT ![h.sid] = [x \in Facts |->
          IF @[x] = None /\ x \in sent
          THEN [by |-> new(x).by, left |-> new(x).late \/ h.left \/ server[h.sid].left]
          ELSE @[x]]]
     /\ UNCHANGED <<registered, server>>

PostFacts(f) ==
  /\ pc[f] = "post"
  /\ Post(f)
  /\ Goto(f, "mark")
  /\ UNCHANGED <<browser, local, held, history>>

PostFails(f) ==
  /\ pc[f] = "post"
  /\ Fault /\ (Post(f) \/ UNCHANGED remote)
  /\ End(f)
  /\ UNCHANGED <<browser, local, seen>>

\* markSent: the rows of the batch that are still there.
MarkSent(f) ==
  /\ pc[f] = "mark"
  /\ LET k == held[f].key
         posted == {m.fact : m \in held[f].batch}
     IN queue' = [queue EXCEPT ![k] = [x \in Facts |->
          IF x \in posted /\ @[x] # None THEN [@[x] EXCEPT !.sent = TRUE] ELSE @[x]]]
  /\ End(f)
  /\ UNCHANGED <<browser, rows, minted, remote, history>>

-----------------------------------------------------------------------------
(* Signing in and out.                                                      *)

\* Registration claims the anonymous id of now; the form is shown signed out.
Register(f) ==
  /\ pc[f] = "idle" /\ session = None
  /\ Hold(f, [NoWork EXCEPT !.user = device])
  /\ Goto(f, "register")
  /\ UNCHANGED <<browser, local, remote, history>>

RegisterUser(f) ==
  /\ pc[f] = "register"
  /\ IF held[f].user \in registered
     THEN Done(f) /\ UNCHANGED registered
     ELSE /\ registered' = registered \cup {held[f].user}
          /\ Goto(f, "signin")
          /\ UNCHANGED held
  /\ UNCHANGED <<browser, local, server, logs, history>>

\* Login, from the same form; a reset link signs in whoever is signed in.
SignIn(f, a) ==
  /\ pc[f] = "idle" /\ a \in registered
  /\ Hold(f, [NoWork EXCEPT !.user = a])
  /\ Goto(f, "signin")
  /\ UNCHANGED <<browser, local, remote, history>>

\* setSession, when the reply is there.  What was played before stays as it is.
SetSession(f) ==
  /\ pc[f] = "signin"
  /\ session' = held[f].user
  /\ players' = [players EXCEPT ![device] = @ \cup {held[f].user}]
  /\ Done(f)
  /\ UNCHANGED <<device, local, remote, kept, lost, faults>>

SignInFails(f) ==
  /\ pc[f] = "signin"
  /\ Fault
  /\ lost' = lost \cup {held[f].user}
  /\ Done(f)
  /\ UNCHANGED <<browser, local, remote, players, kept>>

Quitting == {g \in Flows : held[g].quit}

\* logoutAndReset flushes first, joining what its tab already flushes.  It is
\* one attempt's flush here: another one's fails, or is a flow of its own.
Logout(f) ==
  /\ pc[f] = "idle" /\ session # None
  /\ device + Cardinality(Quitting) < MaxIds
  /\ LET joined == {g \in Flows : TabOf[g] = TabOf[f] /\ pc[g] \in FlushLabels} IN
     \/ \E k \in Stored :
          /\ ~InFlight(TabOf[f], k)
          /\ Hold(f, [FlushOf(f, k) EXCEPT !.quit = TRUE, !.joined = joined])
          /\ Goto(f, "pending")
     \/ /\ Hold(f, [NoWork EXCEPT !.quit = TRUE, !.joined = joined])
        /\ Goto(f, "rotate")
  /\ UNCHANGED <<browser, local, remote, history>>

\* faulty: only an account that grew out of this id gives it up
NextIdIfOwn == IF session = device THEN device + 1 ELSE device

NextId == device + 1

\* clearSession: the session goes and the device becomes somebody new.
Rotate(f) ==
  /\ pc[f] = "rotate"
  /\ \A g \in held[f].joined : pc[g] \notin FlushLabels
  /\ session' = None
  /\ device' = NextId
  /\ Goto(f, "wipe") /\ Hold(f, NoWork)
  /\ UNCHANGED <<local, remote, history>>

\* faulty: attempts that have a place on the server stay
WipedUnbound(row) == IF row # None /\ row.sid # None THEN row ELSE None

Wiped(row) == None

\* clearLocalPlay, one transaction.
Wipe(f) ==
  /\ pc[f] = "wipe"
  /\ rows' = [k \in AttemptKeys |-> Wiped(rows[k])]
  /\ queue' = [k \in AttemptKeys |-> [x \in Facts |-> None]]
  /\ Done(f)
  /\ UNCHANGED <<browser, minted, remote, history>>

WipeFails(f) ==
  /\ pc[f] = "wipe"
  /\ Fault
  /\ kept' = kept \cup Stored
  /\ Done(f)
  /\ UNCHANGED <<browser, local, remote, players, lost>>

\* A tab is closed or reloaded: its flows end where they are.
CloseTab(t) ==
  LET gone == {f \in Flows : TabOf[f] = t} IN
  /\ Fault /\ \E f \in gone : pc[f] # "idle"
  /\ pc' = [f \in Flows |-> IF f \in gone THEN "idle" ELSE pc[f]]
  /\ held' = [f \in Flows |-> IF f \in gone THEN NoWork ELSE held[f]]
  /\ kept' = IF \E f \in gone : pc[f] = "wipe" THEN kept \cup Stored ELSE kept
  /\ lost' = lost \cup {held[f].user : f \in {g \in gone : pc[g] = "signin"}}
  /\ UNCHANGED <<browser, local, remote, players>>

-----------------------------------------------------------------------------
Play(f) ==
  \/ \E x \in Facts : Record(f, x)
  \/ FindActive(f) \/ MintAttempt(f) \/ MintFails(f) \/ AppendFact(f)
  \/ (\E k \in AttemptKeys : Advance(f, k)) \/ AdvancePut(f)

Flush(f) ==
  \/ \E k \in AttemptKeys : StartFlush(f, k)
  \/ ReadPending(f) \/ ReadBound(f) \/ CreateAttempt(f) \/ CreateFails(f)
  \/ BindGet(f) \/ BindPut(f) \/ PostFacts(f) \/ PostFails(f) \/ MarkSent(f)

Session(f) ==
  \/ Register(f) \/ RegisterUser(f) \/ (\E a \in Users : SignIn(f, a))
  \/ SetSession(f) \/ SignInFails(f)
  \/ Logout(f) \/ Rotate(f) \/ Wipe(f) \/ WipeFails(f)

Next == (\E f \in Flows : Play(f) \/ Flush(f) \/ Session(f)) \/ (\E t \in Tabs : CloseTab(t))

Spec == Init /\ [][Next]_vars

-----------------------------------------------------------------------------
WorkType ==
  [key : AttemptKeys \cup {None}, row : RowType \cup {None}, fact : Facts \cup {None},
   user : Users \cup {None}, auth : Users \cup {None}, sid : ServerIds \cup {None},
   batch : SUBSET [fact : Facts, by : Users, late : BOOLEAN], born : Ids, left : BOOLEAN,
   quit : BOOLEAN, joined : SUBSET Flows]

Labels == {"idle", "find", "mint", "append", "advance", "register", "signin", "rotate", "wipe"}
          \cup FlushLabels

\* Every variable, and what a flow carries over its awaits, has its type.
TypeOK ==
  /\ session \in Users \cup {None} /\ device \in Ids
  /\ registered \subseteq Users
  /\ rows \in [AttemptKeys -> RowType \cup {None}]
  /\ queue \in [AttemptKeys -> [Facts -> FactType \cup {None}]]
  /\ minted \in [AttemptKeys -> Ids \cup {None}]
  /\ pc \in [Flows -> Labels] /\ held \in [Flows -> WorkType]
  /\ server \in [ServerIds -> OwnType \cup {None}]
  /\ logs \in [ServerIds -> [Facts -> LogType \cup {None}]]
  /\ players \in [Ids -> SUBSET Users]
  /\ kept \subseteq AttemptKeys /\ lost \subseteq Users /\ faults \in Nat

\* Two users played on the device between the same two logouts.
Together(u, v) == u = v \/ \E i \in Ids : u \in players[i] /\ v \in players[i]

\* "no lingering attempts/facts to mis-attribute to the rotated id"
\* (session-actions.ts:24): what one player played is never filed under somebody who
\* came after a logout, whatever flushes and tabs the logout overlaps with, but for a
\* write or a read that straddled it and a row that outlived it.
StaysWithPlayer ==
  \A s \in ServerIds, x \in Facts :
    logs[s][x] # None /\ ~logs[s][x].left => Together(logs[s][x].by, server[s].user)

\* A row outlives its logout only while the wipe is due, or when the wipe failed, or
\* when a get-then-put that began before the wipe puts its copy back after it
\* (clearLocalPlay against setServerAttemptId and setLastStepIdx).
LogoutForgets ==
  \A k \in Stored :
    minted[k] # device => k \in kept \/ \E f \in Flows : pc[f] = "wipe"

\* clearSession: "the device would be permanently bricked for anonymous use" if the
\* id it has without a session could be an account.  It never is, once the reply to
\* the registration has arrived.
NeverBricked ==
  session = None /\ device \in registered
    => device \in lost \/ \E f \in Flows : pc[f] = "signin" /\ held[f].user = device
=============================================================================
