---------------------------- MODULE PlaySyncProofs ----------------------------
(***************************************************************************)
(* Proofs about module PlaySync, for any number of tabs, devices, players, *)
(* facts, attempts and calls under way.                                    *)
(*                                                                         *)
(* A flow awaits between any two of its steps, and what it read may be     *)
(* over when it goes on.  Fit says what it still relies on: the row it     *)
(* copied is of the same device and bound, if at all, to an attempt of the *)
(* server that was created for it; what it posted is on the server.        *)
(*                                                                         *)
(* The last section maps each step to a step of FactLedger, or to none.    *)
(* It adds Recorded: a flush carries what was queued for its attempt.      *)
(***************************************************************************)
EXTENDS PlaySync, FiniteSetTheorems, TLAPS

\* Server attempt s was created for the local attempt k of player u.
Serves(s, k, u) ==
  s \in ServerIds /\ server[s] # None /\ server[s].key = k /\ server[s].user = u

\* What a row, or a copy of one, says of attempt k.
RowOK(k, row) ==
  /\ row # None /\ row.device = attempts[k].device
  /\ row.sid # None => Serves(row.sid, k, UserOf[row.device])

\* Fact x needs no more posting for attempt s of player u.
Filed(x, s, u) == x \in logs[s] \/ (x.kind \in Once /\ <<u, x.kind>> \in ledger)

\* The calls at which a flow holds the key of a row that exists.
Keyed == FlushLabels \cup {"append", "supersede", "advance"}

\* What the flow f may still rely on.
Fit(f) ==
  LET h == held[f]
  IN /\ pc[f] \in Keyed => h.key \in AttemptKeys /\ attempts[h.key] # None
     /\ pc[f] \in FlushLabels => attempts[h.key].device = Device(f)
     /\ pc[f] \in {"supersede", "advance", "bindput"} => RowOK(h.key, h.row)
     /\ pc[f] \in {"bindget", "bindput", "post", "mark"} => Serves(h.sid, h.key, Me(f))
     /\ pc[f] = "mark" => \A x \in h.batch : Filed(x, h.sid, Me(f))
     /\ pc[f] \in {"find", "mint"} /\ h.then = "append" => h.fact \in Facts
     /\ pc[f] = "append" => h.fact \in Facts
     /\ pc[f] = "idle" => h.then = "open"

Rows  == \A k \in AttemptKeys : attempts[k] # None => RowOK(k, attempts[k])
Opens == \A t \in Tabs : open[t] # None => attempts[open[t]] # None

\* A log is of an attempt that exists.
LogsServed == \A s \in ServerIds : server[s] = None => logs[s] = {}

\* One fact per player and once-ever kind.
OneAward ==
  \A s1, s2 \in ServerIds, x1, x2 \in Facts :
    (/\ server[s1] # None /\ server[s2] # None /\ server[s1].user = server[s2].user
     /\ x1 \in logs[s1] /\ x2 \in logs[s2] /\ x1.kind = x2.kind /\ x1.kind \in Once)
      => s1 = s2 /\ x1 = x2

Awards == LogsServed /\ OneAward /\ BackendsAgree

IInv ==
  /\ TypeOK /\ Rows /\ Opens /\ Awards /\ SentIsDurable
  /\ \A f \in Flows : Fit(f)

-----------------------------------------------------------------------------
(* Frames.                                                                  *)

\* Nothing that was relied on is taken back.
Grows ==
  /\ \A k \in AttemptKeys : attempts[k] # None
       => attempts'[k] # None /\ attempts'[k].device = attempts[k].device
  /\ \A s \in ServerIds : server[s] # None => server'[s] = server[s]
  /\ \A s \in ServerIds : logs[s] \subseteq logs'[s]
  /\ ledger \subseteq ledger'

LEMMA Places ==
  \A f \in Flows : Device(f) \in Devices /\ Me(f) \in Users
BY PlacesAssumption DEF Device, Me

LEMMA ServesFrame ==
  ASSUME Grows, NEW s, NEW k, NEW u, Serves(s, k, u)
  PROVE  Serves(s, k, u)'
BY DEF Grows, Serves

LEMMA RowFrame ==
  ASSUME Grows, NEW k \in AttemptKeys, attempts[k] # None, NEW row, RowOK(k, row)
  PROVE  RowOK(k, row)'
BY ServesFrame DEF Grows, RowOK

LEMMA FitFrame ==
  ASSUME Grows, NEW f \in Flows, Fit(f), pc'[f] = pc[f], held'[f] = held[f]
  PROVE  Fit(f)'
<1> DEFINE h == held[f]
<1>1. PICK k, row, s, u : k = h.key /\ row = h.row /\ s = h.sid /\ u = Me(f)
  OBVIOUS
<1>2. pc[f] \in Keyed => attempts'[k] # None /\ attempts'[k].device = attempts[k].device
  BY <1>1 DEF Fit, Grows
<1>3. pc[f] \in {"supersede", "advance", "bindput"} => RowOK(k, row)'
  BY <1>1, RowFrame DEF Fit, Keyed, FlushLabels
<1>4. pc[f] \in {"bindget", "bindput", "post", "mark"} => Serves(s, k, u)'
  BY <1>1, ServesFrame DEF Fit
<1>5. pc[f] = "mark" => \A x \in h.batch : Filed(x, s, u)'
  <2> SUFFICES ASSUME pc[f] = "mark", NEW x \in h.batch PROVE Filed(x, s, u)'
    OBVIOUS
  <2>1. Filed(x, s, u) /\ s \in ServerIds
    BY <1>1 DEF Fit, Serves
  <2> QED BY <2>1 DEF Filed, Grows
<1>6. Device(f)' = Device(f) /\ Me(f)' = Me(f)
  BY DEF Device, Me
<1> QED BY <1>1, <1>2, <1>3, <1>4, <1>5, <1>6 DEF Fit, Keyed, FlushLabels

\* Flow f goes to its next await, or ends.
At(f, label, h) == pc' = [pc EXCEPT ![f] = label] /\ held' = [held EXCEPT ![f] = h]

LEMMA Moves ==
  ASSUME TypeOK, NEW f \in Flows, NEW label, NEW h, At(f, label, h)
  PROVE  /\ pc'[f] = label /\ held'[f] = h
         /\ \A g \in Flows \ {f} : pc'[g] = pc[g] /\ held'[g] = held[g]
BY DEF TypeOK, At

\* What a step of f has to show.
LEMMA StepKeeps ==
  ASSUME IInv, NEW f \in Flows, NEW label, NEW h, At(f, label, h), Grows,
         TypeOK', Rows', Opens', Awards', SentIsDurable', Fit(f)'
  PROVE  IInv'
<1>1. ASSUME NEW g \in Flows \ {f} PROVE Fit(g)'
  BY Moves, FitFrame DEF IInv
<1> QED BY <1>1 DEF IInv

\* Nothing a fact relies on is taken back.
LEMMA SentStands ==
  ASSUME IInv, Grows, \A k \in AttemptKeys, x \in Facts : queue'[k][x] = "sent" => queue[k][x] = "sent"
  PROVE  SentIsDurable'
<1> SUFFICES ASSUME NEW k \in AttemptKeys, NEW x \in Facts, queue'[k][x] = "sent"
             PROVE  \/ \E s \in Registered(k)' : x \in logs'[s]
                    \/ x.kind \in Once /\ <<PlayerOf(k)', x.kind>> \in ledger'
  BY DEF SentIsDurable
<1>1. queue[k][x] = "sent" /\ attempts[k] # None
  BY DEF IInv, TypeOK
<1>2. CASE \E s \in Registered(k) : x \in logs[s]
  <2>1. PICK s \in Registered(k) : x \in logs[s]
    BY <1>2
  <2>2. s \in Registered(k)' /\ x \in logs'[s]
    BY <2>1 DEF Registered, Grows
  <2> QED BY <2>2
<1>3. CASE x.kind \in Once /\ <<PlayerOf(k), x.kind>> \in ledger
  BY <1>1, <1>3 DEF PlayerOf, Grows
<1> QED BY <1>1, <1>2, <1>3 DEF IInv, SentIsDurable

LEMMA AwardsStand ==
  ASSUME IInv, UNCHANGED remote
  PROVE  Awards'
BY DEF IInv, Awards, LogsServed, OneAward, BackendsAgree, Played, remote

-----------------------------------------------------------------------------
(* What the steps of a kind have to show.                                   *)

\* A step that touches no row, no fact and nothing of the server's.
LEMMA QuietStep ==
  ASSUME IInv, NEW f \in Flows, NEW label \in Labels, NEW h \in WorkType, At(f, label, h),
         UNCHANGED <<local, remote>>, open' \in [Tabs -> AttemptKeys \cup {None}], Opens',
         granted' \subseteq Users, faults' \in Nat, Fit(f)'
  PROVE  IInv'
<1>1. UNCHANGED <<attempts, queue, server, logs, ledger>>
  BY DEF local, remote
<1>2. Grows
  BY <1>1 DEF Grows
<1>3. TypeOK'
  BY <1>1 DEF IInv, TypeOK, At
<1>4. Rows'
  BY <1>1 DEF IInv, Rows, RowOK, Serves
<1>5. Awards' /\ SentIsDurable'
  BY <1>1, <1>2, AwardsStand, SentStands
<1> QED BY <1>2, <1>3, <1>4, <1>5, StepKeeps

\* One that leaves the pages open too.
LEMMA WaitStep ==
  ASSUME IInv, NEW f \in Flows, NEW label \in Labels, NEW h \in WorkType, At(f, label, h),
         UNCHANGED <<local, remote, open, granted>>, faults' \in Nat, Fit(f)'
  PROVE  IInv'
<1>1. Opens'
  BY DEF IInv, Opens, local
<1> QED BY <1>1, QuietStep DEF IInv, TypeOK

\* One that writes the row of attempt k.
LEMMA RowStep ==
  ASSUME IInv, NEW f \in Flows, NEW label \in Labels, NEW h \in WorkType, At(f, label, h),
         NEW k \in AttemptKeys, NEW row \in RowType, attempts' = [attempts EXCEPT ![k] = row],
         attempts[k] # None => row.device = attempts[k].device,
         row.sid # None => Serves(row.sid, k, UserOf[row.device]),
         UNCHANGED <<queue, remote, granted, faults>>,
         open' \in [Tabs -> AttemptKeys \cup {None}],
         \A t \in Tabs : open'[t] \in {open[t], k},
         Fit(f)'
  PROVE  IInv' /\ Grows
<1>1. UNCHANGED <<queue, server, logs, ledger>>
  BY DEF remote
<1>2. row # None
  BY NoneAssumption
<1>3. attempts'[k] = row /\ \A x \in AttemptKeys \ {k} : attempts'[x] = attempts[x]
  BY DEF IInv, TypeOK
<1>4. Grows
  BY <1>1, <1>2, <1>3 DEF Grows
<1>5. TypeOK'
  <2>1. attempts' \in [AttemptKeys -> RowType \cup {None}]
    BY DEF IInv, TypeOK
  <2>2. \A x \in AttemptKeys : attempts'[x] = None => \A y \in Facts : queue'[x][y] = "none"
    BY <1>1, <1>2, <1>3 DEF IInv, TypeOK
  <2> QED BY <1>1, <2>1, <2>2 DEF IInv, TypeOK, At
<1>6. Rows'
  <2> SUFFICES ASSUME NEW x \in AttemptKeys, attempts'[x] # None
               PROVE  RowOK(x, attempts[x])'
    BY DEF Rows
  <2>1. CASE x = k
    BY <1>1, <1>2, <1>3, <2>1 DEF RowOK, Serves
  <2>2. CASE x # k
    BY <1>1, <1>3, <2>2 DEF RowOK, Serves, IInv, Rows
  <2> QED BY <2>1, <2>2
<1>7. Opens'
  BY <1>2, <1>3 DEF IInv, Opens, TypeOK
<1>8. Awards' /\ SentIsDurable'
  BY <1>1, <1>4, AwardsStand, SentStands
<1> QED BY <1>4, <1>5, <1>6, <1>7, <1>8, StepKeeps

LEMMA Nothing == NoWork \in WorkType /\ NoWork.then = "open" /\ "idle" \in Labels
BY DEF NoWork, WorkType, Labels

LEMMA EndFit ==
  ASSUME IInv, NEW f \in Flows, Done(f)
  PROVE  Fit(f)' /\ At(f, "idle", NoWork)
<1>1. At(f, "idle", NoWork)
  BY DEF Done, Goto, At
<1>2. pc'[f] = "idle" /\ held'[f] = NoWork
  BY <1>1, Moves DEF IInv
<1> QED BY <1>1, <1>2, Nothing DEF Fit, Keyed, FlushLabels

\* A flow that ends.
LEMMA EndStep ==
  ASSUME IInv, NEW f \in Flows, Done(f), UNCHANGED <<local, remote, open, granted>>, faults' \in Nat
  PROVE  IInv'
BY EndFit, Nothing, WaitStep

-----------------------------------------------------------------------------
(* Opening, restarting and playing.                                         *)

\* A flow that stands at `find` or `mint` needs nothing but the fact it is to file.
LEMMA SeekFit ==
  ASSUME IInv, NEW f \in Flows, NEW label \in {"find", "mint"}, NEW h, At(f, label, h),
         h.then = "append" => h.fact \in Facts
  PROVE  Fit(f)' /\ label \in Labels
<1>1. pc'[f] = label /\ held'[f] = h
  BY Moves DEF IInv
<1> QED BY <1>1 DEF Fit, Keyed, FlushLabels, Labels

LEMMA OpenQuestKeeps ==
  ASSUME IInv, NEW f \in Flows, OpenQuest(f)
  PROVE  IInv'
<1>1. held[f] \in WorkType /\ faults \in Nat /\ held[f].then = "open"
  BY DEF IInv, TypeOK, OpenQuest, Fit
<1>2. At(f, "find", held[f])
  BY DEF OpenQuest, Goto, At, IInv, TypeOK
<1>3. Fit(f)' /\ "find" \in Labels
  BY <1>1, <1>2, SeekFit
<1> QED BY <1>1, <1>2, <1>3, WaitStep DEF OpenQuest

LEMMA RecordKeeps ==
  ASSUME IInv, NEW f \in Flows, NEW x \in Facts, Record(f, x)
  PROVE  IInv'
<1> DEFINE h == [NoWork EXCEPT !.fact = x, !.then = "append"]
<1>1. h \in WorkType /\ h.fact = x
  BY DEF NoWork, WorkType
<1>2. At(f, "find", h)
  BY DEF Record, Goto, At
<1> HIDE DEF h
<1>3. Fit(f)' /\ "find" \in Labels
  BY <1>1, <1>2, SeekFit
<1> QED BY <1>1, <1>2, <1>3, WaitStep DEF Record, IInv, TypeOK

\* A copy of a row that was just read.
LEMMA CopyFit ==
  ASSUME IInv, NEW f \in Flows, NEW label \in {"supersede", "advance"},
         NEW k \in AttemptKeys, attempts[k] # None,
         At(f, label, [NoWork EXCEPT !.key = k, !.row = attempts[k]]), UNCHANGED <<attempts, server>>
  PROVE  /\ Fit(f)' /\ label \in Labels
         /\ [NoWork EXCEPT !.key = k, !.row = attempts[k]] \in WorkType
<1> DEFINE h == [NoWork EXCEPT !.key = k, !.row = attempts[k]]
<1>1. h \in WorkType /\ h.key = k /\ h.row = attempts[k]
  BY DEF NoWork, WorkType, IInv, TypeOK
<1>2. pc'[f] = label /\ held'[f] = h
  BY Moves DEF IInv
<1> HIDE DEF h
<1>3. RowOK(k, attempts[k])
  BY DEF IInv, Rows
<1>4. Fit(f)'
  BY <1>1, <1>2, <1>3 DEF Fit, Keyed, FlushLabels, RowOK, Serves
<1> QED BY <1>1, <1>4 DEF Labels, h

LEMMA RestartKeeps ==
  ASSUME IInv, NEW f \in Flows, Restart(f)
  PROVE  IInv'
<1>1. PICK k \in ActiveOf(Device(f)) :
        held' = [held EXCEPT ![f] = [NoWork EXCEPT !.key = k, !.row = attempts[k]]]
  BY DEF Restart
<1>2. k \in AttemptKeys /\ attempts[k] # None
  BY DEF ActiveOf, RowsOf
<1> DEFINE h == [NoWork EXCEPT !.key = k, !.row = attempts[k]]
<1>3. At(f, "supersede", h)
  BY <1>1 DEF Restart, Goto, At
<1>4. Fit(f)' /\ "supersede" \in Labels /\ h \in WorkType
  BY <1>2, <1>3, CopyFit DEF Restart, local, remote
<1> HIDE DEF h
<1>5. open' \in [Tabs -> AttemptKeys \cup {None}] /\ Opens'
  BY DEF Restart, local, IInv, TypeOK, Opens
<1> QED BY <1>3, <1>4, <1>5, QuietStep DEF Restart, IInv, TypeOK

LEMMA AdvanceKeeps ==
  ASSUME IInv, NEW f \in Flows, Advance(f)
  PROVE  IInv'
<1>1. PICK k : k = open[TabOf[f]]
  OBVIOUS
<1>2. k \in AttemptKeys /\ attempts[k] # None
  BY <1>1, PlacesAssumption DEF Advance, IInv, TypeOK, Opens
<1> DEFINE h == [NoWork EXCEPT !.key = k, !.row = attempts[k]]
<1>3. At(f, "advance", h)
  BY <1>1 DEF Advance, Goto, At
<1>4. Fit(f)' /\ "advance" \in Labels /\ h \in WorkType
  BY <1>2, <1>3, CopyFit DEF Advance, local, remote
<1> HIDE DEF h
<1> QED BY <1>3, <1>4, WaitStep DEF Advance, IInv, TypeOK

LEMMA SupersedeKeeps ==
  ASSUME IInv, NEW f \in Flows, Supersede(f)
  PROVE  IInv'
<1>1. pc[f] = "supersede" /\ held[f] \in WorkType
  BY DEF Supersede, IInv, TypeOK
<1>2. PICK k, row : k = held[f].key /\ row = held[f].row
  OBVIOUS
<1>3. k \in AttemptKeys /\ attempts[k] # None /\ RowOK(k, row) /\ row \in RowType
  BY <1>1, <1>2 DEF IInv, Fit, Keyed, RowOK, WorkType
<1> DEFINE old == Retired(row)
<1>4. old \in RowType /\ old.device = row.device /\ old.sid = row.sid
  BY <1>3 DEF Retired, RowType
<1>5. attempts' = [attempts EXCEPT ![k] = old]
  BY <1>2 DEF Supersede
<1> HIDE DEF old
<1>6. At(f, "find", NoWork)
  BY DEF Supersede, Goto, At
<1>7. Fit(f)' /\ "find" \in Labels
  BY <1>6, SeekFit, Nothing
<1>8. /\ old.device = attempts[k].device
      /\ old.sid # None => Serves(old.sid, k, UserOf[old.device])
  BY <1>3, <1>4 DEF RowOK
<1>9. /\ UNCHANGED <<queue, open, remote, granted, faults>>
      /\ open' \in [Tabs -> AttemptKeys \cup {None}] /\ \A t \in Tabs : open'[t] \in {open[t], k}
  BY DEF Supersede, IInv, TypeOK
<1> QED BY <1>3, <1>4, <1>5, <1>6, <1>7, <1>8, <1>9, Nothing, RowStep

LEMMA AdvancePutKeeps ==
  ASSUME IInv, NEW f \in Flows, AdvancePut(f)
  PROVE  IInv'
<1>1. pc[f] = "advance" /\ held[f] \in WorkType
  BY DEF AdvancePut, IInv, TypeOK
<1>2. PICK k, row : k = held[f].key /\ row = held[f].row
  OBVIOUS
<1>3. k \in AttemptKeys /\ attempts[k] # None /\ RowOK(k, row) /\ row \in RowType
  BY <1>1, <1>2 DEF IInv, Fit, Keyed, RowOK, WorkType
<1>4. attempts' = [attempts EXCEPT ![k] = row]
  BY <1>2 DEF AdvancePut
<1>5. Fit(f)' /\ At(f, "idle", NoWork)
  BY EndFit DEF AdvancePut
<1>6. /\ row.device = attempts[k].device
      /\ row.sid # None => Serves(row.sid, k, UserOf[row.device])
  BY <1>3 DEF RowOK
<1>7. /\ UNCHANGED <<queue, open, remote, granted, faults>>
      /\ open' \in [Tabs -> AttemptKeys \cup {None}] /\ \A t \in Tabs : open'[t] \in {open[t], k}
  BY DEF AdvancePut, IInv, TypeOK
<1> QED BY <1>3, <1>4, <1>5, <1>6, <1>7, Nothing, RowStep

LEMMA FindActiveKeeps ==
  ASSUME IInv, NEW f \in Flows, FindActive(f)
  PROVE  IInv'
<1>1. /\ pc[f] = "find" /\ held[f] \in WorkType /\ Fit(f)
      /\ UNCHANGED <<local, remote, granted, faults>> /\ faults \in Nat /\ granted \subseteq Users
      /\ open \in [Tabs -> AttemptKeys \cup {None}]
  BY DEF FindActive, IInv, TypeOK
<1>2. UNCHANGED <<attempts, queue, server, logs, ledger>>
  BY <1>1 DEF local, remote
<1>3. ASSUME NEW k \in ActiveOf(Device(f)), held[f].then = "append",
             Goto(f, "append"), held' = [held EXCEPT ![f].key = k], UNCHANGED open
      PROVE  IInv'
  <2> DEFINE h == [held[f] EXCEPT !.key = k]
  <2>1. k \in AttemptKeys /\ attempts[k] # None
    BY DEF ActiveOf, RowsOf
  <2>2. h \in WorkType /\ h.key = k /\ h.fact = held[f].fact
    BY <1>1, <2>1 DEF WorkType
  <2>3. At(f, "append", h)
    BY <1>3 DEF Goto, At
  <2> HIDE DEF h
  <2>4. pc'[f] = "append" /\ held'[f] = h
    BY <2>3, Moves DEF IInv
  <2>5. Fit(f)' /\ "append" \in Labels
    BY <1>1, <1>2, <1>3, <2>1, <2>2, <2>4 DEF Fit, Keyed, FlushLabels, Labels
  <2> QED BY <1>1, <1>3, <2>2, <2>3, <2>5, WaitStep
<1>4. ASSUME NEW k \in ActiveOf(Device(f)), Done(f), open' = [open EXCEPT ![TabOf[f]] = k]
      PROVE  IInv'
  <2>1. k \in AttemptKeys /\ attempts[k] # None
    BY DEF ActiveOf, RowsOf
  <2>2. open' \in [Tabs -> AttemptKeys \cup {None}] /\ Opens'
    BY <1>1, <1>2, <1>4, <2>1 DEF IInv, Opens
  <2> QED BY <1>1, <1>4, <2>2, EndFit, Nothing, QuietStep
<1>5. CASE Goto(f, "mint") /\ UNCHANGED <<held, open>>
  <2>1. At(f, "mint", held[f])
    BY <1>5 DEF Goto, At, IInv, TypeOK
  <2>2. Fit(f)' /\ "mint" \in Labels
    BY <1>1, <2>1, SeekFit DEF Fit
  <2> QED BY <1>1, <1>5, <2>1, <2>2, WaitStep
<1> QED BY <1>3, <1>4, <1>5 DEF FindActive, Ensured

LEMMA MintAttemptKeeps ==
  ASSUME IInv, NEW f \in Flows, MintAttempt(f)
  PROVE  IInv'
<1>1. /\ pc[f] = "mint" /\ held[f] \in WorkType /\ Fit(f)
      /\ UNCHANGED <<queue, remote, granted, faults>>
      /\ open \in [Tabs -> AttemptKeys \cup {None}]
  BY DEF MintAttempt, IInv, TypeOK
<1> DEFINE row == [device |-> Device(f), status |-> "active", sid |-> None]
<1>2. PICK k \in AttemptKeys :
        attempts[k] = None /\ attempts' = [attempts EXCEPT ![k] = row] /\ Ensured(f, k)
  BY DEF MintAttempt
<1>3. row \in RowType /\ row.sid = None
  BY Places DEF RowType
<1> HIDE DEF row
<1>4. attempts'[k] # None
  BY <1>2, <1>3, NoneAssumption DEF IInv, TypeOK
<1>5. ASSUME held[f].then = "append", Goto(f, "append"), held' = [held EXCEPT ![f].key = k],
             UNCHANGED open
      PROVE  IInv'
  <2> DEFINE h == [held[f] EXCEPT !.key = k]
  <2>1. h \in WorkType /\ h.key = k /\ h.fact = held[f].fact
    BY <1>1 DEF WorkType
  <2>2. At(f, "append", h)
    BY <1>5 DEF Goto, At
  <2> HIDE DEF h
  <2>3. pc'[f] = "append" /\ held'[f] = h
    BY <2>2, Moves DEF IInv
  <2>4. Fit(f)' /\ "append" \in Labels
    BY <1>1, <1>4, <1>5, <2>1, <2>3 DEF Fit, Keyed, FlushLabels, Labels
  <2>5. open' \in [Tabs -> AttemptKeys \cup {None}] /\ \A t \in Tabs : open'[t] \in {open[t], k}
    BY <1>1, <1>5
  <2> QED BY <1>1, <1>2, <1>3, <2>1, <2>2, <2>4, <2>5, RowStep
<1>6. ASSUME Done(f), open' = [open EXCEPT ![TabOf[f]] = k]
      PROVE  IInv'
  <2>1. open' \in [Tabs -> AttemptKeys \cup {None}] /\ \A t \in Tabs : open'[t] \in {open[t], k}
    BY <1>1, <1>6
  <2> QED BY <1>1, <1>2, <1>3, <1>6, <2>1, EndFit, Nothing, RowStep
<1> QED BY <1>2, <1>5, <1>6 DEF Ensured

LEMMA MintFailsKeeps ==
  ASSUME IInv, NEW f \in Flows, MintFails(f)
  PROVE  IInv'
BY EndStep DEF MintFails, local, IInv, TypeOK

\* A step that writes facts of attempt k in the queue of the device.
LEMMA QueueStep ==
  ASSUME IInv, NEW f \in Flows, Done(f), UNCHANGED <<attempts, open, remote, granted, faults>>,
         queue' \in [AttemptKeys -> [Facts -> {"none", "pending", "sent"}]],
         \A k \in AttemptKeys : attempts[k] = None => queue'[k] = queue[k],
         SentIsDurable'
  PROVE  IInv'
<1>1. UNCHANGED <<server, logs, ledger>>
  BY DEF remote
<1>2. Grows
  BY <1>1 DEF Grows
<1>3. Fit(f)' /\ At(f, "idle", NoWork)
  BY EndFit
<1>4. TypeOK'
  BY <1>1, <1>3, Nothing DEF IInv, TypeOK, At
<1>5. Rows' /\ Opens'
  BY <1>1 DEF IInv, Rows, Opens, RowOK, Serves
<1> QED BY <1>2, <1>3, <1>4, <1>5, AwardsStand, StepKeeps

LEMMA AppendFactKeeps ==
  ASSUME IInv, NEW f \in Flows, AppendFact(f)
  PROVE  IInv'
<1>1. PICK k, x : k = held[f].key /\ x = held[f].fact
  OBVIOUS
<1>2. k \in AttemptKeys /\ x \in Facts /\ attempts[k] # None
  BY <1>1 DEF AppendFact, IInv, Fit, Keyed
<1>3. queue' = [queue EXCEPT ![k][x] = Append(@)]
  BY <1>1 DEF AppendFact
<1>4. queue' \in [AttemptKeys -> [Facts -> {"none", "pending", "sent"}]]
  BY <1>2, <1>3 DEF IInv, TypeOK, Append
<1>5. \A l \in AttemptKeys : attempts[l] = None => queue'[l] = queue[l]
  BY <1>2, <1>3 DEF IInv, TypeOK
<1>6. SentIsDurable'
  <2>1. \A l \in AttemptKeys, y \in Facts : queue'[l][y] = "sent" => queue[l][y] = "sent"
    BY <1>2, <1>3 DEF IInv, TypeOK, Append
  <2>2. Grows
    BY DEF AppendFact, remote, Grows
  <2> QED BY <2>1, <2>2, SentStands
<1> QED BY <1>4, <1>5, <1>6, QueueStep DEF AppendFact

LEMMA MarkSentKeeps ==
  ASSUME IInv, NEW f \in Flows, MarkSent(f)
  PROVE  IInv'
<1>1. PICK k, s, u : k = held[f].key /\ s = held[f].sid /\ u = Me(f)
  OBVIOUS
<1>2. /\ k \in AttemptKeys /\ attempts[k] # None /\ attempts[k].device = Device(f)
      /\ Serves(s, k, u) /\ \A x \in held[f].batch : Filed(x, s, u)
  BY <1>1 DEF MarkSent, IInv, Fit, Keyed, FlushLabels
<1> DEFINE marked == [x \in Facts |-> IF x \in Marked(f) /\ queue[k][x] = "pending" THEN "sent"
                                      ELSE queue[k][x]]
<1>3. queue' = [queue EXCEPT ![k] = marked]
  BY <1>1, <1>2 DEF MarkSent, IInv, TypeOK
<1>4. marked \in [Facts -> {"none", "pending", "sent"}]
  BY <1>2 DEF IInv, TypeOK
<1>5. \A x \in Facts : marked[x] = "sent" => queue[k][x] = "sent" \/ x \in held[f].batch
  BY DEF Marked
<1> HIDE DEF marked
<1>6. queue'[k] = marked /\ \A l \in AttemptKeys \ {k} : queue'[l] = queue[l]
  BY <1>2, <1>3 DEF IInv, TypeOK
<1>7. queue' \in [AttemptKeys -> [Facts -> {"none", "pending", "sent"}]]
  BY <1>3, <1>4 DEF IInv, TypeOK
<1>8. UNCHANGED <<attempts, server, logs, ledger>>
  BY DEF MarkSent, remote
<1>9. SentIsDurable'
  <2> SUFFICES ASSUME NEW l \in AttemptKeys, NEW x \in Facts, queue'[l][x] = "sent"
               PROVE  \/ \E t \in Registered(l)' : x \in logs'[t]
                      \/ x.kind \in Once /\ <<PlayerOf(l)', x.kind>> \in ledger'
    BY DEF SentIsDurable
  <2>1. Registered(l)' = Registered(l) /\ PlayerOf(l)' = PlayerOf(l)
    BY <1>8 DEF Registered, PlayerOf
  <2>2. CASE queue[l][x] = "sent"
    BY <1>8, <2>1, <2>2 DEF IInv, SentIsDurable
  <2>3. CASE l = k /\ x \in held[f].batch
    <3>1. Filed(x, s, u) /\ s \in Registered(k) /\ u = PlayerOf(k)
      BY <1>1, <1>2, <2>3 DEF Registered, Serves, PlayerOf, Me
    <3> QED BY <1>8, <2>1, <2>3, <3>1 DEF Filed
  <2> QED BY <1>5, <1>6, <2>2, <2>3
<1>10. \A l \in AttemptKeys : attempts[l] = None => queue'[l] = queue[l]
  BY <1>2, <1>6
<1> QED BY <1>7, <1>9, <1>10, QueueStep DEF MarkSent

-----------------------------------------------------------------------------
(* Flushing.                                                                *)

\* A flow that stands at a call of a flush that knows no attempt of the server yet.
LEMMA FlushFit ==
  ASSUME IInv, NEW f \in Flows, NEW label \in {"bound", "create", "checkout", "again"}, NEW h,
         At(f, label, h), UNCHANGED attempts, h.key \in AttemptKeys,
         attempts[h.key] # None, attempts[h.key].device = Device(f)
  PROVE  Fit(f)' /\ label \in Labels
<1>1. pc'[f] = label /\ held'[f] = h
  BY Moves DEF IInv
<1>2. Device(f)' = Device(f)
  BY DEF Device
<1> QED BY <1>1, <1>2 DEF Fit, Keyed, FlushLabels, Labels

\* What a flow in a flush holds.
LEMMA Flushing ==
  ASSUME IInv, NEW f \in Flows, pc[f] \in FlushLabels
  PROVE  /\ held[f] \in WorkType /\ held[f].key \in AttemptKeys /\ attempts[held[f].key] # None
         /\ attempts[held[f].key].device = Device(f)
BY DEF IInv, TypeOK, Fit, Keyed

LEMMA StartFlushKeeps ==
  ASSUME IInv, NEW f \in Flows, NEW k \in AttemptKeys, StartFlush(f, k)
  PROVE  IInv'
<1>1. attempts[k] # None /\ attempts[k].device = Device(f)
  BY DEF StartFlush, FlushTargets, RowsOf
<1> DEFINE h == [NoWork EXCEPT !.key = k, !.batch = Pending(k)]
<1>2. h \in WorkType /\ h.key = k
  BY DEF NoWork, WorkType, Pending
<1>3. At(f, "bound", h)
  BY DEF StartFlush, Goto, At
<1> HIDE DEF h
<1>4. Fit(f)' /\ "bound" \in Labels
  BY <1>1, <1>2, <1>3, FlushFit DEF StartFlush, local
<1> QED BY <1>2, <1>3, <1>4, WaitStep DEF StartFlush, IInv, TypeOK

LEMMA ReadBoundKeeps ==
  ASSUME IInv, NEW f \in Flows, ReadBound(f)
  PROVE  IInv'
<1>1. pc[f] = "bound" /\ UNCHANGED <<local, open, remote, granted, faults>> /\ faults \in Nat
  BY DEF ReadBound, IInv, TypeOK
<1>2. /\ held[f] \in WorkType /\ held[f].key \in AttemptKeys /\ attempts[held[f].key] # None
      /\ attempts[held[f].key].device = Device(f)
  BY <1>1, Flushing DEF FlushLabels
<1>3. PICK k, sid : k = held[f].key /\ sid = attempts[k].sid
  OBVIOUS
<1>4. attempts[k] \in RowType /\ RowOK(k, attempts[k])
  BY <1>2, <1>3 DEF IInv, TypeOK, Rows
<1> DEFINE h == [held[f] EXCEPT !.sid = sid]
<1>5. h \in WorkType /\ h.key = k /\ h.sid = sid
  BY <1>2, <1>3, <1>4 DEF WorkType, RowType
<1>6. At(f, IF sid = None THEN "create" ELSE "post", h)
  BY <1>3 DEF ReadBound, Goto, At
<1> HIDE DEF h
<1>7. CASE sid = None
  <2>1. Fit(f)' /\ "create" \in Labels
    BY <1>1, <1>2, <1>3, <1>5, <1>6, <1>7, FlushFit DEF local
  <2> QED BY <1>1, <1>5, <1>6, <1>7, <2>1, WaitStep
<1>8. CASE sid # None
  <2>1. Serves(sid, k, Me(f))
    BY <1>2, <1>3, <1>4, <1>8 DEF RowOK, Me
  <2>2. At(f, "post", h)
    BY <1>6, <1>8
  <2>3. pc'[f] = "post" /\ held'[f] = h
    BY <2>2, Moves DEF IInv
  <2>4. Fit(f)' /\ "post" \in Labels
    BY <1>1, <1>2, <1>3, <1>5, <2>1, <2>3
       DEF Fit, Keyed, FlushLabels, Labels, Serves, Me, Device, local, remote
  <2> QED BY <1>1, <1>5, <2>2, <2>4, WaitStep
<1> QED BY <1>7, <1>8

\* A new attempt of the server takes nothing from the others.
LEMMA NewAttemptKeeps ==
  ASSUME IInv, NEW f \in Flows, pc[f] \in FlushLabels, NEW s \in ServerIds, NewAttempt(f, s),
         UNCHANGED <<local, open, granted>>
  PROVE  /\ Grows /\ Awards' /\ Rows' /\ Opens' /\ SentIsDurable'
         /\ server' \in [ServerIds -> AttemptType \cup {None}]
         /\ \A k, u : k = held[f].key /\ u = Me(f) => Serves(s, k, u)'
<1>1. PICK k \in AttemptKeys, u \in Users : k = held[f].key /\ u = Me(f)
  BY Flushing, Places
<1> DEFINE new == [user |-> u, key |-> k]
<1>2. new \in AttemptType /\ new.user = u /\ new.key = k
  BY DEF AttemptType
<1>3. server[s] = None /\ server' = [server EXCEPT ![s] = new]
  BY <1>1 DEF NewAttempt
<1> HIDE DEF new
<1>4. new # None
  BY <1>2, NoneAssumption
<1>5. /\ server'[s] = new /\ \A t \in ServerIds \ {s} : server'[t] = server[t]
      /\ UNCHANGED <<attempts, queue, logs, ledger>>
  BY <1>3 DEF NewAttempt, local, IInv, TypeOK
<1>6. Grows
  BY <1>3, <1>5 DEF Grows
<1>7. logs[s] = {}
  BY <1>3 DEF IInv, Awards, LogsServed
<1>8. Awards'
  <2>1. LogsServed'
    BY <1>4, <1>5 DEF IInv, Awards, LogsServed
  <2>2. OneAward'
    BY <1>5, <1>7 DEF IInv, Awards, OneAward
  <2>3. BackendsAgree'
    <3>1. \A v \in Users, t \in ServerIds \ {s} : t \in Played(v)' <=> t \in Played(v)
      BY <1>5 DEF Played
    <3>2. \A v \in Users, kind \in Once :
             (\E t \in Played(v)' : \E x \in logs'[t] : x.kind = kind)
               <=> (\E t \in Played(v) : \E x \in logs[t] : x.kind = kind)
      BY <1>5, <1>7, <3>1 DEF Played
    <3> QED BY <1>5, <3>2 DEF BackendsAgree, IInv, Awards
  <2> QED BY <2>1, <2>2, <2>3 DEF Awards
<1>9. Rows'
  <2> SUFFICES ASSUME NEW x \in AttemptKeys, attempts'[x] # None
               PROVE  RowOK(x, attempts[x])'
    BY DEF Rows
  <2>1. PICK row : row = attempts[x]
    OBVIOUS
  <2>2. attempts[x] # None /\ RowOK(x, row)
    BY <1>5, <2>1 DEF IInv, Rows
  <2>3. RowOK(x, row)'
    BY <1>6, <2>2, RowFrame
  <2> QED BY <1>5, <2>1, <2>3 DEF RowOK, Serves
<1>10. Opens'
  BY <1>5 DEF IInv, Opens
<1>11. SentIsDurable'
  BY <1>5, <1>6, SentStands
<1>12. server' \in [ServerIds -> AttemptType \cup {None}]
  BY <1>2, <1>3 DEF IInv, TypeOK
<1>13. Serves(s, k, u)'
  BY <1>2, <1>4, <1>5 DEF Serves
<1> QED BY <1>1, <1>6, <1>8, <1>9, <1>10, <1>11, <1>12, <1>13

LEMMA CreateAttemptKeeps ==
  ASSUME IInv, NEW f \in Flows, CreateAttempt(f)
  PROVE  IInv'
<1>1. /\ pc[f] \in FlushLabels /\ UNCHANGED <<local, open, granted>>
      /\ UNCHANGED <<attempts, queue, logs, ledger, faults>>
  BY DEF CreateAttempt, NewAttempt, FlushLabels, local
<1>2. PICK s \in ServerIds : NewAttempt(f, s) /\ held' = [held EXCEPT ![f].sid = s]
  BY DEF CreateAttempt
<1>3. PICK k, u : k = held[f].key /\ u = Me(f)
  OBVIOUS
<1>4. /\ held[f] \in WorkType /\ k \in AttemptKeys /\ attempts[k] # None
      /\ attempts[k].device = Device(f)
  BY <1>1, <1>3, Flushing
<1>5. /\ Grows /\ Awards' /\ Rows' /\ Opens' /\ SentIsDurable'
      /\ server' \in [ServerIds -> AttemptType \cup {None}] /\ Serves(s, k, u)'
  BY <1>1, <1>2, <1>3, NewAttemptKeeps
<1> DEFINE h == [held[f] EXCEPT !.sid = s]
<1>6. h \in WorkType /\ h.key = k /\ h.sid = s
  BY <1>3, <1>4 DEF WorkType
<1>7. At(f, "bindget", h)
  BY <1>2 DEF CreateAttempt, Goto, At
<1> HIDE DEF h
<1>8. pc'[f] = "bindget" /\ held'[f] = h /\ Device(f)' = Device(f) /\ Me(f)' = u
  BY <1>3, <1>7, Moves DEF IInv, Device, Me
<1>9. Fit(f)'
  BY <1>1, <1>4, <1>5, <1>6, <1>8 DEF Fit, Keyed, FlushLabels
<1>10. TypeOK'
  BY <1>1, <1>5, <1>6, <1>7 DEF IInv, TypeOK, At, Labels, FlushLabels
<1> QED BY <1>5, <1>7, <1>9, <1>10, StepKeeps

LEMMA CreateFailsKeeps ==
  ASSUME IInv, NEW f \in Flows, CreateFails(f)
  PROVE  IInv'
<1>1. /\ pc[f] \in FlushLabels /\ UNCHANGED <<local, open, granted>>
      /\ UNCHANGED <<attempts, queue>> /\ faults' \in Nat
  BY DEF CreateFails, FlushLabels, local, Fault, IInv, TypeOK
<1>2. PICK label, h : /\ At(f, label, h) /\ Fit(f)' /\ label \in Labels /\ h \in WorkType
  <2>1. CASE pc[f] = "create"
    <3>1. At(f, "checkout", held[f])
      BY <2>1 DEF CreateFails, Goto, At, IInv, TypeOK
    <3>2. /\ held[f] \in WorkType /\ held[f].key \in AttemptKeys /\ attempts[held[f].key] # None
          /\ attempts[held[f].key].device = Device(f)
      BY <1>1, Flushing
    <3>3. Fit(f)' /\ "checkout" \in Labels
      BY <1>1, <3>1, <3>2, FlushFit
    <3> QED BY <3>1, <3>2, <3>3
  <2>2. CASE pc[f] # "create"
    <3>1. Done(f)
      BY <2>2 DEF CreateFails
    <3> QED BY <3>1, EndFit, Nothing
  <2> QED BY <2>1, <2>2
<1>3. CASE UNCHANGED remote
  BY <1>1, <1>2, <1>3, WaitStep
<1>4. ASSUME NEW s \in ServerIds, NewAttempt(f, s)
      PROVE  IInv'
  <2>1. /\ Grows /\ Awards' /\ Rows' /\ Opens' /\ SentIsDurable'
        /\ server' \in [ServerIds -> AttemptType \cup {None}]
    BY <1>1, <1>4, NewAttemptKeeps
  <2>2. TypeOK'
    BY <1>1, <1>2, <1>4, <2>1 DEF IInv, TypeOK, At, NewAttempt
  <2> QED BY <1>2, <2>1, <2>2, StepKeeps
<1> QED BY <1>3, <1>4 DEF CreateFails

LEMMA CheckoutKeeps ==
  ASSUME IInv, NEW f \in Flows, Checkout(f) \/ CheckoutFails(f)
  PROVE  IInv'
<1>1. CASE Checkout(f)
  <2>1. /\ pc[f] \in FlushLabels /\ UNCHANGED <<local, remote, open, faults>>
        /\ granted' = granted \cup {Me(f)} /\ UNCHANGED attempts
    BY <1>1 DEF Checkout, FlushLabels, local
  <2>2. /\ held[f] \in WorkType /\ held[f].key \in AttemptKeys /\ attempts[held[f].key] # None
        /\ attempts[held[f].key].device = Device(f)
    BY <2>1, Flushing
  <2>3. At(f, "again", held[f])
    BY <1>1 DEF Checkout, Goto, At, IInv, TypeOK
  <2>4. Fit(f)' /\ "again" \in Labels
    BY <2>1, <2>2, <2>3, FlushFit
  <2>5. granted' \subseteq Users /\ Opens'
    BY <2>1, Places DEF IInv, TypeOK, Opens
  <2> QED BY <2>1, <2>2, <2>3, <2>4, <2>5, QuietStep DEF IInv, TypeOK
<1>2. CASE CheckoutFails(f)
  BY <1>2, EndStep DEF CheckoutFails, Fault, IInv, TypeOK
<1> QED BY <1>1, <1>2

LEMMA BindGetKeeps ==
  ASSUME IInv, NEW f \in Flows, BindGet(f)
  PROVE  IInv'
<1>1. pc[f] = "bindget" /\ UNCHANGED <<local, remote, open, granted, faults>>
  BY DEF BindGet
<1>2. PICK k, s, u, row : k = held[f].key /\ s = held[f].sid /\ u = Me(f) /\ row = attempts[k]
  OBVIOUS
<1>3. /\ held[f] \in WorkType /\ k \in AttemptKeys /\ row # None /\ row.device = Device(f)
      /\ row \in RowType /\ RowOK(k, row) /\ Serves(s, k, u)
  BY <1>1, <1>2, Flushing DEF FlushLabels, IInv, TypeOK, Fit, Rows
<1> DEFINE h == [held[f] EXCEPT !.row = row]
<1>4. h \in WorkType /\ h.key = k /\ h.sid = s /\ h.row = row
  BY <1>2, <1>3 DEF WorkType
<1>5. At(f, "bindput", h)
  BY <1>2 DEF BindGet, Goto, At
<1> HIDE DEF h
<1>6. pc'[f] = "bindput" /\ held'[f] = h /\ Device(f)' = Device(f) /\ Me(f)' = u
  BY <1>2, <1>5, Moves DEF IInv, Device, Me
<1>7. UNCHANGED <<attempts, server>> /\ RowOK(k, row)' /\ Serves(s, k, u)'
  BY <1>1, <1>3 DEF local, remote, RowOK, Serves
<1>8. Fit(f)' /\ "bindput" \in Labels
  BY <1>2, <1>3, <1>4, <1>6, <1>7 DEF Fit, Keyed, FlushLabels, Labels
<1> QED BY <1>1, <1>4, <1>5, <1>8, WaitStep DEF IInv, TypeOK

LEMMA BindPutKeeps ==
  ASSUME IInv, NEW f \in Flows, BindPut(f)
  PROVE  IInv'
<1>1. /\ pc[f] = "bindput" /\ UNCHANGED <<queue, open, held, remote, granted, faults>>
      /\ open \in [Tabs -> AttemptKeys \cup {None}]
  BY DEF BindPut, IInv, TypeOK
<1>2. PICK k, s, u, row : k = held[f].key /\ s = held[f].sid /\ u = Me(f) /\ row = held[f].row
  OBVIOUS
<1>3. /\ held[f] \in WorkType /\ k \in AttemptKeys /\ attempts[k] # None
      /\ attempts[k].device = Device(f) /\ RowOK(k, row) /\ Serves(s, k, u)
  BY <1>1, <1>2, Flushing DEF FlushLabels, IInv, Fit
<1> DEFINE bound == [row EXCEPT !.sid = s]
<1>4. row \in RowType /\ s \in ServerIds
  BY <1>2, <1>3 DEF WorkType, RowOK, Serves
<1>5. bound \in RowType /\ bound.device = Device(f) /\ bound.sid = s
  BY <1>3, <1>4 DEF RowOK, RowType
<1>6. attempts' = [attempts EXCEPT ![k] = bound]
  BY <1>2 DEF BindPut
<1> HIDE DEF bound
<1>7. At(f, "post", held[f])
  BY DEF BindPut, Goto, At, IInv, TypeOK
<1>8. pc'[f] = "post" /\ held'[f] = held[f] /\ Device(f)' = Device(f) /\ Me(f)' = u
  BY <1>2, <1>7, Moves DEF IInv, Device, Me
<1>9. attempts'[k] # None /\ attempts'[k].device = Device(f)
  BY <1>3, <1>5, <1>6, NoneAssumption DEF IInv, TypeOK
<1>10. Serves(s, k, u)'
  BY <1>1, <1>3 DEF Serves, remote
<1>11. Fit(f)' /\ "post" \in Labels
  BY <1>2, <1>3, <1>8, <1>9, <1>10 DEF Fit, Keyed, FlushLabels, Labels
<1>12. /\ bound.device = attempts[k].device
       /\ bound.sid # None => Serves(bound.sid, k, UserOf[bound.device])
  BY <1>2, <1>3, <1>5 DEF Me
<1>13. \A t \in Tabs : open'[t] \in {open[t], k}
  BY <1>1
<1> QED BY <1>1, <1>3, <1>5, <1>6, <1>7, <1>11, <1>12, <1>13, RowStep

-----------------------------------------------------------------------------
(* Posting facts.                                                           *)

\* A batch that is applied awards every once-ever kind at most once, and leaves none of
\* its facts to post again.
LEMMA PostKeeps ==
  ASSUME IInv, NEW f \in Flows, pc[f] = "post", Post(f),
         UNCHANGED <<local, open, granted>>
  PROVE  /\ Grows /\ Awards' /\ Rows' /\ Opens' /\ SentIsDurable'
         /\ UNCHANGED server
         /\ logs' \in [ServerIds -> SUBSET Facts] /\ ledger' \subseteq Users \X Once
         /\ \A s, u : s = held[f].sid /\ u = Me(f)
                        => \A x \in held[f].batch : Filed(x, s, u)'
<1>1. PICK s, u, batch : s = held[f].sid /\ u = Me(f) /\ batch = held[f].batch
  OBVIOUS
<1>2. /\ s \in ServerIds /\ server[s] # None /\ server[s].user = u /\ u \in Users
      /\ batch \subseteq Facts
  BY <1>1, Places DEF IInv, TypeOK, Fit, Serves, WorkType
<1>3. PICK new \in SUBSET batch : Accepts(s, batch, new) /\ Apply(s, batch, new)
  BY <1>1 DEF Post
<1>4. UNCHANGED <<attempts, queue, server>>
  BY DEF Post, local
<1> DEFINE bonuses == {x \in batch : x.kind \in Once}
           kinds   == {x.kind : x \in bonuses} \ Awarded(s)
<1>5. PICK pick \in [kinds -> bonuses] :
        /\ \A kind \in kinds : pick[kind].kind = kind
        /\ new = ((batch \ bonuses) \cup {pick[kind] : kind \in kinds}) \ logs[s]
  BY <1>3 DEF Accepts
<1>6. /\ logs' [s] = logs[s] \cup new /\ \A t \in ServerIds \ {s} : logs'[t] = logs[t]
      /\ logs' = [logs EXCEPT ![s] = logs[s] \cup new]
  BY <1>2, <1>3 DEF Apply, IInv, TypeOK
<1>7. ledger' = ledger \cup {<<u, x.kind>> : x \in {y \in new : y.kind \in Once}}
  BY <1>2, <1>3 DEF Apply
<1>8. Grows
  BY <1>4, <1>6, <1>7 DEF Grows
\* What is new of a once-ever kind is the one that was picked, and was not awarded.
<1>9. ASSUME NEW x \in new, x.kind \in Once
      PROVE  /\ x \notin logs[s] /\ x.kind \in kinds /\ x = pick[x.kind]
             /\ <<u, x.kind>> \notin ledger
  <2>1. x \in bonuses
    BY <1>9
  <2>2. PICK kind \in kinds : x = pick[kind]
    BY <1>5, <1>9, <2>1
  <2>3. x.kind = kind
    BY <1>5, <2>2
  <2>4. <<u, x.kind>> \notin ledger
    BY <1>2, <1>9, <2>2, <2>3 DEF Awarded
  <2> QED BY <1>5, <2>2, <2>3, <2>4
<1>10. ASSUME NEW t \in ServerIds, server[t] # None, server[t].user = u, NEW x \in logs[t],
              x.kind \in Once
       PROVE  <<u, x.kind>> \in ledger
  BY <1>2, <1>10 DEF IInv, Awards, BackendsAgree, Played
<1>11. LogsServed'
  BY <1>2, <1>4, <1>6 DEF IInv, Awards, LogsServed
<1>12. OneAward'
  <2> SUFFICES ASSUME NEW a \in ServerIds, NEW b \in ServerIds, NEW x \in Facts, NEW y \in Facts,
                      server[a] # None, server[b] # None, server[a].user = server[b].user,
                      x \in logs'[a], y \in logs'[b], x.kind = y.kind, x.kind \in Once
               PROVE  a = b /\ x = y
    BY <1>4 DEF OneAward
  <2>1. CASE x \in logs[a] /\ y \in logs[b]
    BY <2>1 DEF IInv, Awards, OneAward
  <2>2. CASE a = s /\ x \in new /\ y \in logs[b]
    BY <1>2, <1>9, <1>10, <2>2
  <2>3. CASE b = s /\ y \in new /\ x \in logs[a]
    BY <1>2, <1>9, <1>10, <2>3
  <2>4. CASE a = s /\ b = s /\ x \in new /\ y \in new
    BY <1>9, <2>4
  <2> QED BY <1>6, <2>1, <2>2, <2>3, <2>4
<1>13. ledger' \subseteq Users \X Once
  BY <1>2, <1>7 DEF IInv, TypeOK
<1>14. BackendsAgree'
  <2>1. ASSUME NEW v \in Users, NEW kind \in Once
        PROVE  <<v, kind>> \in ledger' <=>
                 \E t \in Played(v)' : \E x \in logs'[t] : x.kind = kind
    <3>1. Played(v)' = Played(v)
      BY <1>4 DEF Played
    <3>2. <<v, kind>> \in ledger <=> \E t \in Played(v) : \E x \in logs[t] : x.kind = kind
      BY DEF IInv, Awards, BackendsAgree
    <3>3. s \in Played(u)
      BY <1>2 DEF Played
    <3>4. ASSUME <<v, kind>> \in ledger' PROVE \E t \in Played(v) : \E x \in logs'[t] : x.kind = kind
      <4>1. CASE <<v, kind>> \in ledger
        <5>1. PICK t \in Played(v) : \E x \in logs[t] : x.kind = kind
          BY <3>2, <4>1
        <5> QED BY <1>8, <5>1 DEF Grows, Played
      <4>2. CASE <<v, kind>> \notin ledger
        <5>1. PICK x \in new : x.kind \in Once /\ <<v, kind>> = <<u, x.kind>>
          BY <1>7, <3>4, <4>2
        <5> QED BY <1>6, <3>3, <5>1
      <4> QED BY <4>1, <4>2
    <3>5. ASSUME NEW t \in Played(v), NEW x \in logs'[t], x.kind = kind PROVE <<v, kind>> \in ledger'
      <4>1. t \in ServerIds /\ server[t].user = v
        BY DEF Played
      <4>2. CASE x \in logs[t]
        BY <1>7, <3>2, <3>5, <4>2
      <4>3. CASE x \notin logs[t]
        <5>1. t = s /\ x \in new
          BY <1>6, <3>5, <4>1, <4>3
        <5> QED BY <1>2, <1>7, <3>5, <4>1, <5>1
      <4> QED BY <4>2, <4>3
    <3> QED BY <3>1, <3>4, <3>5
  <2> QED BY <1>13, <2>1 DEF BackendsAgree
<1>15. Rows' /\ Opens'
  BY <1>4 DEF IInv, Rows, Opens, RowOK, Serves
<1>16. SentIsDurable'
  BY <1>4, <1>8, SentStands
<1>17. logs' \in [ServerIds -> SUBSET Facts]
  BY <1>2, <1>6 DEF IInv, TypeOK
<1>18. \A x \in batch : Filed(x, s, u)'
  <2> SUFFICES ASSUME NEW x \in batch PROVE Filed(x, s, u)'
    OBVIOUS
  <2>1. CASE x.kind \notin Once
    <3>1. x \in new \/ x \in logs[s]
      BY <1>5, <2>1
    <3> QED BY <1>6, <3>1 DEF Filed
  <2>2. CASE x.kind \in Once /\ x.kind \in Awarded(s)
    BY <1>2, <1>7, <2>2 DEF Awarded, Filed
  <2>3. CASE x.kind \in Once /\ x.kind \notin Awarded(s)
    <3>1. x.kind \in kinds
      BY <2>3
    <3>2. PICK y \in bonuses : y = pick[x.kind] /\ y.kind = x.kind
      BY <1>5, <3>1
    <3>3. y \in new \/ y \in logs[s]
      BY <1>5, <3>1, <3>2
    <3>4. <<u, x.kind>> \in ledger'
      BY <1>2, <1>7, <1>10, <2>3, <3>2, <3>3
    <3> QED BY <2>3, <3>4 DEF Filed
  <2> QED BY <2>1, <2>2, <2>3
<1> QED BY <1>1, <1>4, <1>8, <1>11, <1>12, <1>13, <1>14, <1>15, <1>16, <1>17, <1>18 DEF Awards

LEMMA PostFactsKeeps ==
  ASSUME IInv, NEW f \in Flows, PostFacts(f)
  PROVE  IInv'
<1>1. /\ pc[f] = "post" /\ Post(f)
      /\ UNCHANGED <<local, open, held, granted, faults>> /\ UNCHANGED <<attempts, queue>>
  BY DEF PostFacts, local
<1>2. PICK k, s, u : k = held[f].key /\ s = held[f].sid /\ u = Me(f)
  OBVIOUS
<1>3. /\ held[f] \in WorkType /\ k \in AttemptKeys /\ attempts[k] # None
      /\ attempts[k].device = Device(f) /\ Serves(s, k, u)
  BY <1>1, <1>2, Flushing DEF FlushLabels, IInv, Fit
<1>4. /\ Grows /\ Awards' /\ Rows' /\ Opens' /\ SentIsDurable' /\ UNCHANGED server
      /\ logs' \in [ServerIds -> SUBSET Facts] /\ ledger' \subseteq Users \X Once
      /\ \A x \in held[f].batch : Filed(x, s, u)'
  BY <1>1, <1>2, PostKeeps
<1>5. At(f, "mark", held[f])
  BY <1>1 DEF PostFacts, Goto, At, IInv, TypeOK
<1>6. pc'[f] = "mark" /\ held'[f] = held[f] /\ Device(f)' = Device(f) /\ Me(f)' = u
  BY <1>2, <1>5, Moves DEF IInv, Device, Me
<1>7. Serves(s, k, u)'
  BY <1>3, <1>4 DEF Serves
<1>8. Fit(f)'
  BY <1>1, <1>2, <1>3, <1>4, <1>6, <1>7 DEF Fit, Keyed, FlushLabels
<1>9. TypeOK'
  BY <1>1, <1>3, <1>4, <1>5 DEF IInv, TypeOK, At, Labels, FlushLabels
<1> QED BY <1>4, <1>5, <1>8, <1>9, StepKeeps

LEMMA PostFailsKeeps ==
  ASSUME IInv, NEW f \in Flows, PostFails(f)
  PROVE  IInv'
<1>1. /\ pc[f] = "post" /\ Done(f) /\ faults' \in Nat
      /\ UNCHANGED <<local, open, granted>> /\ UNCHANGED <<attempts, queue>>
  BY DEF PostFails, local, Fault, IInv, TypeOK
<1>2. Fit(f)' /\ At(f, "idle", NoWork)
  BY <1>1, EndFit
<1>3. CASE UNCHANGED remote
  BY <1>1, <1>3, EndStep
<1>4. CASE Post(f)
  <2>1. /\ Grows /\ Awards' /\ Rows' /\ Opens' /\ SentIsDurable' /\ UNCHANGED server
        /\ logs' \in [ServerIds -> SUBSET Facts] /\ ledger' \subseteq Users \X Once
    BY <1>1, <1>4, PostKeeps
  <2>2. TypeOK'
    BY <1>1, <1>2, <2>1, Nothing DEF IInv, TypeOK, At
  <2> QED BY <1>2, <2>1, <2>2, StepKeeps
<1> QED BY <1>3, <1>4 DEF PostFails

\* A tab that is closed takes its flows with it and nothing else.
LEMMA CloseTabKeeps ==
  ASSUME IInv, NEW t \in Tabs, CloseTab(t)
  PROVE  IInv'
<1>1. UNCHANGED <<attempts, queue, server, logs, ledger, granted>> /\ UNCHANGED remote
  BY DEF CloseTab, local, remote
<1>2. Grows
  BY <1>1 DEF Grows
<1>3. TypeOK'
  BY <1>1, Nothing DEF CloseTab, Fault, IInv, TypeOK
<1>4. Rows' /\ Opens'
  BY <1>1 DEF CloseTab, IInv, TypeOK, Rows, Opens, RowOK, Serves
<1>5. Awards' /\ SentIsDurable'
  BY <1>1, <1>2, AwardsStand, SentStands
<1>6. ASSUME NEW f \in Flows PROVE Fit(f)'
  <2>1. CASE TabOf[f] = t
    <3>1. pc'[f] = "idle" /\ held'[f] = NoWork
      BY <2>1 DEF CloseTab
    <3> QED BY <3>1, Nothing DEF Fit, Keyed, FlushLabels
  <2>2. CASE TabOf[f] # t
    <3>1. pc'[f] = pc[f] /\ held'[f] = held[f]
      BY <2>2 DEF CloseTab
    <3> QED BY <1>2, <3>1, FitFrame DEF IInv
  <2> QED BY <2>1, <2>2
<1> QED BY <1>3, <1>4, <1>5, <1>6 DEF IInv

-----------------------------------------------------------------------------
(* The invariant.                                                           *)

LEMMA InitIInv == Init => IInv
<1> SUFFICES ASSUME Init PROVE IInv
  OBVIOUS
<1>1. TypeOK
  BY Nothing DEF Init, TypeOK
<1>2. Rows /\ Opens
  BY DEF Init, Rows, Opens
<1>3. Awards
  <2>1. \A u \in Users : Played(u) = {}
    BY DEF Init, Played
  <2>2. BackendsAgree
    BY <2>1 DEF Init, BackendsAgree
  <2> QED BY <2>2 DEF Init, Awards, LogsServed, OneAward
<1>4. SentIsDurable
  BY DEF Init, SentIsDurable
<1>5. \A f \in Flows : Fit(f)
  BY Nothing DEF Init, Fit, Keyed, FlushLabels
<1> QED BY <1>1, <1>2, <1>3, <1>4, <1>5 DEF IInv

LEMMA FlowKeeps ==
  ASSUME IInv, NEW f \in Flows, Begin(f) \/ Resume(f)
  PROVE  IInv'
<1>1. CASE Begin(f)
  BY <1>1, OpenQuestKeeps, RestartKeeps, AdvanceKeeps, RecordKeeps, StartFlushKeeps DEF Begin
<1>2. CASE Supersede(f) \/ FindActive(f) \/ MintAttempt(f) \/ MintFails(f) \/ AppendFact(f)
           \/ AdvancePut(f)
  BY <1>2, SupersedeKeeps, FindActiveKeeps, MintAttemptKeeps, MintFailsKeeps, AppendFactKeeps,
     AdvancePutKeeps
<1>3. CASE ReadBound(f) \/ CreateAttempt(f) \/ CreateFails(f) \/ Checkout(f) \/ CheckoutFails(f)
  BY <1>3, ReadBoundKeeps, CreateAttemptKeeps, CreateFailsKeeps, CheckoutKeeps
<1>4. CASE BindGet(f) \/ BindPut(f) \/ PostFacts(f) \/ PostFails(f) \/ MarkSent(f)
  BY <1>4, BindGetKeeps, BindPutKeeps, PostFactsKeeps, PostFailsKeeps, MarkSentKeeps
<1> QED BY <1>1, <1>2, <1>3, <1>4 DEF Resume

LEMMA StutterKeeps ==
  ASSUME IInv, UNCHANGED vars
  PROVE  IInv'
<1>1. /\ UNCHANGED <<attempts, queue, open, pc, held, server, logs, ledger, granted, faults>>
      /\ UNCHANGED remote
  BY DEF vars, remote
<1>2. Grows
  BY <1>1 DEF Grows
<1>3. TypeOK'
  BY <1>1 DEF IInv, TypeOK
<1>4. Rows' /\ Opens'
  BY <1>1 DEF IInv, Rows, Opens, RowOK, Serves
<1>5. Awards' /\ SentIsDurable'
  BY <1>1, <1>2, AwardsStand, SentStands
<1>6. \A f \in Flows : Fit(f)'
  BY <1>1, <1>2, FitFrame DEF IInv
<1> QED BY <1>3, <1>4, <1>5, <1>6 DEF IInv

LEMMA Inductive == Spec => []IInv
<1>1. IInv /\ [Next]_vars => IInv'
  BY FlowKeeps, CloseTabKeeps, StutterKeeps DEF Next
<1> QED BY InitIInv, <1>1, PTL DEF Spec

-----------------------------------------------------------------------------
(* The theorems.                                                            *)

\* Every variable of the queue, of the sync controller and of the server keeps its
\* type, and facts are queued only for attempts whose row exists (queue.ts, sync.ts).
THEOREM TypeCorrect == Spec => []TypeOK
<1>1. IInv => TypeOK
  BY DEF IInv
<1> QED BY Inductive, <1>1, PTL

\* Whatever tabs, devices, retries, lost replies and restarts do, a player's logs hold
\* at most one fact of a once-ever kind (append_idempotent, README invariant 3).
THEOREM BonusAlwaysOnce == Spec => []BonusOnce
<1>1. IInv => BonusOnce
  <2> SUFFICES ASSUME IInv, NEW u \in Users, NEW kind \in Once
               PROVE  Cardinality({sx \in Played(u) \X Facts :
                                     sx[2] \in logs[sx[1]] /\ sx[2].kind = kind}) <= 1
    BY DEF BonusOnce
  <2> DEFINE S == {sx \in Played(u) \X Facts : sx[2] \in logs[sx[1]] /\ sx[2].kind = kind}
  <2>1. \A a, b \in S : a = b
    <3> SUFFICES ASSUME NEW a \in S, NEW b \in S PROVE a = b
      OBVIOUS
    <3>1. /\ a = <<a[1], a[2]>> /\ b = <<b[1], b[2]>>
          /\ a[1] \in Played(u) /\ b[1] \in Played(u) /\ a[2] \in Facts /\ b[2] \in Facts
      OBVIOUS
    <3>2. a[1] = b[1] /\ a[2] = b[2]
      BY <3>1 DEF IInv, Awards, OneAward, Played
    <3> QED BY <3>1, <3>2
  <2> SUFFICES Cardinality(S) <= 1
    OBVIOUS
  <2> HIDE DEF S
  <2>2. CASE S = {}
    BY <2>2, FS_EmptySet
  <2>3. CASE S # {}
    <3>1. PICK a : S = {a}
      BY <2>1, <2>3
    <3> QED BY <3>1, FS_Singleton
  <2> QED BY <2>2, <2>3
<1> QED BY Inductive, <1>1, PTL

\* The bonus ledger of the Postgres store and the logs the in-memory store reads always
\* say the same of what a player was awarded (awarded_bonuses of both stores).
THEOREM BackendsAlwaysAgree == Spec => []BackendsAgree
<1>1. IInv => BackendsAgree
  BY DEF IInv, Awards
<1> QED BY Inductive, <1>1, PTL

\* A fact stops being retried only once it is on the server, or was absorbed there as a
\* bonus already held, although rows are copied back over a binding (markSent, flush).
THEOREM SentAlwaysDurable == Spec => []SentIsDurable
<1>1. IInv => SentIsDurable
  BY DEF IInv
<1> QED BY Inductive, <1>1, PTL

-----------------------------------------------------------------------------
(* The abstract ledger.                                                     *)

\* What a flush carries was recorded in the queue of its attempt.
Recorded ==
  \A f \in Flows : pc[f] \in FlushLabels =>
    \A x \in held[f].batch : queue[held[f].key][x] # "none"

\* The queue forgets no fact.
QueueGrows == \A k \in AttemptKeys, x \in Facts : queue[k][x] # "none" => queue'[k][x] # "none"

LEMMA QueueOnlyGrows ==
  ASSUME IInv, [Next]_vars
  PROVE  QueueGrows
<1>1. CASE UNCHANGED queue
  BY <1>1 DEF QueueGrows
<1>2. ASSUME NEW f \in Flows, AppendFact(f)
      PROVE  QueueGrows
  BY <1>2 DEF AppendFact, Append, QueueGrows, IInv, TypeOK
<1>3. ASSUME NEW f \in Flows, MarkSent(f)
      PROVE  QueueGrows
  BY <1>3 DEF MarkSent, QueueGrows, IInv, TypeOK
<1>4. ASSUME NEW f \in Flows, Begin(f)
      PROVE  UNCHANGED queue
  <2>1. CASE OpenQuest(f) \/ Restart(f) \/ Advance(f)
    <3>1. OpenQuest(f) => UNCHANGED local
      BY DEF OpenQuest
    <3>2. Restart(f) => UNCHANGED local
      BY DEF Restart
    <3>3. Advance(f) => UNCHANGED local
      BY DEF Advance
    <3> QED BY <2>1, <3>1, <3>2, <3>3 DEF local
  <2>2. ASSUME NEW x \in Facts, Record(f, x)
        PROVE  UNCHANGED queue
    BY <2>2 DEF Record, local
  <2>3. ASSUME NEW k \in AttemptKeys, StartFlush(f, k)
        PROVE  UNCHANGED queue
    BY <2>3 DEF StartFlush, local
  <2> QED BY <1>4, <2>1, <2>2, <2>3 DEF Begin
<1>5. ASSUME NEW f \in Flows, Resume(f), ~AppendFact(f), ~MarkSent(f)
      PROVE  UNCHANGED queue
  <2>1. CASE Supersede(f) \/ FindActive(f) \/ MintAttempt(f) \/ MintFails(f) \/ AdvancePut(f)
    BY <2>1 DEF Supersede, FindActive, MintAttempt, MintFails, AdvancePut, local
  <2>2. CASE ReadBound(f) \/ CreateAttempt(f) \/ CreateFails(f) \/ Checkout(f) \/ CheckoutFails(f)
    BY <2>2 DEF ReadBound, CreateAttempt, CreateFails, Checkout, CheckoutFails, local
  <2>3. CASE BindGet(f) \/ BindPut(f) \/ PostFacts(f) \/ PostFails(f)
    BY <2>3 DEF BindGet, BindPut, PostFacts, PostFails, local
  <2> QED BY <1>5, <2>1, <2>2, <2>3 DEF Resume
<1>6. ASSUME NEW t \in Tabs, CloseTab(t)
      PROVE  UNCHANGED queue
  BY <1>6 DEF CloseTab, local
<1>7. UNCHANGED vars => UNCHANGED queue
  BY DEF vars
<1> QED BY <1>1, <1>2, <1>3, <1>4, <1>5, <1>6, <1>7 DEF Next

\* A flow that goes on with the batch it had, or leaves the flush.
SameWork(f) ==
  pc'[f] \in FlushLabels =>
    pc[f] \in FlushLabels /\ held'[f].key = held[f].key /\ held'[f].batch = held[f].batch

\* A step of f that leaves the other flows where they are.
Alone(f) == \A g \in Flows \ {f} : pc'[g] = pc[g] /\ held'[g] = held[g]

LEMMA SameWorkKeeps ==
  ASSUME IInv, Recorded, QueueGrows, NEW f \in Flows, SameWork(f)
  PROVE  pc'[f] \in FlushLabels => \A x \in held'[f].batch : queue'[held'[f].key][x] # "none"
<1> SUFFICES ASSUME pc'[f] \in FlushLabels, NEW x \in held'[f].batch
             PROVE  queue'[held'[f].key][x] # "none"
  OBVIOUS
<1>1. pc[f] \in FlushLabels /\ held'[f].key = held[f].key /\ held'[f].batch = held[f].batch
  BY DEF SameWork
<1>2. held[f].key \in AttemptKeys /\ x \in Facts
  BY <1>1, Flushing DEF WorkType
<1> QED BY <1>1, <1>2 DEF Recorded, QueueGrows

LEMMA FlowWork ==
  ASSUME IInv, NEW f \in Flows, Begin(f) \/ Resume(f)
  PROVE  Alone(f) /\ (SameWork(f) \/ \E k \in AttemptKeys : StartFlush(f, k))
<1>1. pc \in [Flows -> Labels] /\ held \in [Flows -> WorkType]
  BY DEF IInv, TypeOK
<1>2. CASE OpenQuest(f) \/ Restart(f) \/ Advance(f) \/ \E x \in Facts : Record(f, x)
  <2>1. CASE OpenQuest(f)
    BY <1>1, <2>1 DEF OpenQuest, Goto, Alone, SameWork, FlushLabels
  <2>2. ASSUME NEW label \in Labels \ FlushLabels, NEW h, At(f, label, h)
        PROVE  Alone(f) /\ SameWork(f)
    BY <2>2, Moves DEF IInv, Alone, SameWork
  <2>3. CASE Restart(f) \/ Advance(f) \/ \E x \in Facts : Record(f, x)
    <3>1. \E label \in {"supersede", "advance", "find"} : \E h : At(f, label, h)
      <4>1. CASE Restart(f)
        BY <4>1 DEF Restart, Goto, At
      <4>2. CASE Advance(f)
        BY <4>2 DEF Advance, Goto, At
      <4>3. ASSUME NEW x \in Facts, Record(f, x)
            PROVE  \E h : At(f, "find", h)
        BY <4>3 DEF Record, Goto, At
      <4> QED BY <2>3, <4>1, <4>2, <4>3
    <3> QED BY <2>2, <3>1 DEF Labels, FlushLabels
  <2> QED BY <1>2, <2>1, <2>3
<1>3. ASSUME NEW k \in AttemptKeys, StartFlush(f, k)
      PROVE  Alone(f)
  BY <1>1, <1>3 DEF StartFlush, Goto, Alone
<1>4. CASE Done(f)
  BY <1>1, <1>4 DEF Done, Goto, Alone, SameWork, FlushLabels
<1>5. CASE Supersede(f) \/ FindActive(f) \/ MintAttempt(f)
  <2>1. CASE Supersede(f)
    BY <1>1, <2>1 DEF Supersede, Goto, Alone, SameWork, FlushLabels
  <2>2. ASSUME NEW k, Ensured(f, k), ~Done(f)
        PROVE  Alone(f) /\ SameWork(f)
    <3>1. CASE Goto(f, "append") /\ held' = [held EXCEPT ![f].key = k]
      BY <1>1, <3>1 DEF Goto, Alone, SameWork, FlushLabels
    <3> QED BY <2>2, <3>1 DEF Ensured
  <2>3. CASE Goto(f, "mint") /\ UNCHANGED held
    BY <1>1, <2>3 DEF Goto, Alone, SameWork, FlushLabels
  <2> QED BY <1>4, <1>5, <2>1, <2>2, <2>3 DEF FindActive, MintAttempt
<1>6. CASE ReadBound(f) \/ CreateAttempt(f) \/ BindGet(f)
  <2>1. /\ pc[f] \in FlushLabels
        /\ \E label : Goto(f, label)
        /\ \/ \E sid : held' = [held EXCEPT ![f].sid = sid]
           \/ \E row : held' = [held EXCEPT ![f].row = row]
    <3>1. CASE ReadBound(f)
      BY <3>1 DEF ReadBound, FlushLabels
    <3>2. CASE CreateAttempt(f)
      BY <3>2 DEF CreateAttempt, FlushLabels
    <3>3. CASE BindGet(f)
      BY <3>3 DEF BindGet, FlushLabels
    <3> QED BY <1>6, <3>1, <3>2, <3>3
  <2>2. /\ held'[f].key = held[f].key /\ held'[f].batch = held[f].batch
        /\ \A g \in Flows \ {f} : held'[g] = held[g]
    BY <1>1, <2>1 DEF WorkType
  <2> QED BY <1>1, <2>1, <2>2 DEF Goto, Alone, SameWork
<1>7. CASE /\ pc[f] \in FlushLabels /\ UNCHANGED held /\ \E label : Goto(f, label)
  BY <1>1, <1>7 DEF Goto, Alone, SameWork
<1>8. CASE Checkout(f) \/ BindPut(f) \/ PostFacts(f)
  BY <1>7, <1>8 DEF Checkout, BindPut, PostFacts, FlushLabels
<1>9. CASE CreateFails(f)
  BY <1>4, <1>7, <1>9 DEF CreateFails, FlushLabels
<1>10. CASE MintFails(f) \/ AppendFact(f) \/ AdvancePut(f) \/ CheckoutFails(f) \/ PostFails(f)
            \/ MarkSent(f)
  BY <1>4, <1>10 DEF MintFails, AppendFact, AdvancePut, CheckoutFails, PostFails, MarkSent
<1> QED BY <1>2, <1>3, <1>5, <1>6, <1>8, <1>9, <1>10 DEF Begin, Resume

LEMMA RecordedKept ==
  ASSUME IInv, Recorded, [Next]_vars
  PROVE  Recorded'
<1>1. QueueGrows
  BY QueueOnlyGrows
<1> SUFFICES ASSUME NEW g \in Flows
             PROVE  pc'[g] \in FlushLabels
                      => \A x \in held'[g].batch : queue'[held'[g].key][x] # "none"
  BY DEF Recorded
<1>2. SameWork(g) \/ \E k \in AttemptKeys : StartFlush(g, k)
  <2>1. CASE pc'[g] = pc[g] /\ held'[g] = held[g]
    BY <2>1 DEF SameWork
  <2>2. ASSUME NEW f \in Flows, Begin(f) \/ Resume(f)
        PROVE  SameWork(g) \/ \E k \in AttemptKeys : StartFlush(g, k)
    BY <2>1, <2>2, FlowWork DEF Alone
  <2>3. ASSUME NEW t \in Tabs, CloseTab(t)
        PROVE  SameWork(g)
    BY <2>1, <2>3 DEF CloseTab, SameWork, FlushLabels
  <2>4. CASE UNCHANGED vars
    BY <2>1, <2>4 DEF vars
  <2> QED BY <2>2, <2>3, <2>4 DEF Next
<1>3. ASSUME NEW k \in AttemptKeys, StartFlush(g, k)
      PROVE  \A x \in held'[g].batch : queue'[held'[g].key][x] # "none"
  <2>1. /\ held'[g].key = k /\ held'[g].batch = Pending(k) /\ UNCHANGED queue
    BY <1>3 DEF StartFlush, IInv, TypeOK, NoWork, local
  <2> QED BY <2>1 DEF Pending
<1> QED BY <1>1, <1>2, <1>3, SameWorkKeeps

LEMMA AlwaysRecorded == Spec => []Recorded
<1>1. Init => Recorded
  BY DEF Init, Recorded, FlushLabels
<1> QED BY <1>1, RecordedKept, Inductive, PTL DEF Spec

\* The rows of attempts, what is queued and what is filed tell the ledger.
LEMMA Untold ==
  ASSUME UNCHANGED <<queue, ledger>>,
         \A k \in AttemptKeys : OwnerOf(k)' = OwnerOf(k) /\ FiledOf(k)' = FiledOf(k)
  PROVE  UNCHANGED Ledger!vars
<1>1. [k \in AttemptKeys |-> OwnerOf(k)]' = [k \in AttemptKeys |-> OwnerOf(k)]
  OBVIOUS
<1>2. [k \in AttemptKeys |-> FiledOf(k)]' = [k \in AttemptKeys |-> FiledOf(k)]
  OBVIOUS
<1> QED BY <1>1, <1>2 DEF Ledger!vars

LEMMA SameOwner == UNCHANGED attempts => \A k \in AttemptKeys : OwnerOf(k)' = OwnerOf(k)
BY DEF OwnerOf, PlayerOf

LEMMA SameFiled == UNCHANGED <<server, logs>> => \A k \in AttemptKeys : FiledOf(k)' = FiledOf(k)
BY DEF FiledOf, Registered

LEMMA UntoldStep ==
  ASSUME UNCHANGED <<local, remote>>
  PROVE  UNCHANGED Ledger!vars
BY SameOwner, SameFiled, Untold DEF local, remote

\* A row that is written again keeps its player.
LEMMA RowUntold ==
  ASSUME IInv, NEW k \in AttemptKeys, attempts[k] # None, NEW row, row # None,
         attempts' = [attempts EXCEPT ![k] = row], row.device = attempts[k].device,
         UNCHANGED <<queue, remote>>
  PROVE  UNCHANGED Ledger!vars
<1>1. attempts'[k] = row /\ \A x \in AttemptKeys \ {k} : attempts'[x] = attempts[x]
  BY DEF IInv, TypeOK
<1>2. \A x \in AttemptKeys : OwnerOf(x)' = OwnerOf(x)
  BY <1>1 DEF OwnerOf, PlayerOf
<1> QED BY <1>2, SameFiled, Untold DEF remote

LEMMA CopyUntold ==
  ASSUME IInv, NEW f \in Flows, Supersede(f) \/ AdvancePut(f) \/ BindPut(f)
  PROVE  UNCHANGED Ledger!vars
<1>1. PICK k, row : k = held[f].key /\ row = held[f].row
  OBVIOUS
<1>2. /\ k \in AttemptKeys /\ attempts[k] # None
      /\ row # None /\ row.device = attempts[k].device /\ row \in RowType
      /\ held[f] \in WorkType /\ UNCHANGED <<queue, remote>>
  <2>1. pc[f] \in {"supersede", "advance", "bindput"} /\ UNCHANGED <<queue, remote>>
    BY DEF Supersede, AdvancePut, BindPut
  <2> QED BY <1>1, <2>1 DEF IInv, TypeOK, Fit, Keyed, FlushLabels, RowOK, WorkType
<1>3. CASE Supersede(f)
  <2>1. Retired(row) # None /\ Retired(row).device = row.device
    BY <1>2, NoneAssumption DEF Retired, RowType
  <2>2. attempts' = [attempts EXCEPT ![k] = Retired(row)]
    BY <1>1, <1>3 DEF Supersede
  <2> QED BY <1>2, <2>1, <2>2, RowUntold
<1>4. CASE AdvancePut(f)
  <2>1. attempts' = [attempts EXCEPT ![k] = row]
    BY <1>1, <1>4 DEF AdvancePut
  <2> QED BY <1>2, <2>1, RowUntold
<1>5. CASE BindPut(f)
  <2> DEFINE bound == [row EXCEPT !.sid = held[f].sid]
  <2>1. attempts' = [attempts EXCEPT ![k] = bound]
    BY <1>1, <1>5 DEF BindPut
  <2>2. held[f].sid \in ServerIds \cup {None}
    BY <1>2 DEF WorkType
  <2>3. bound \in RowType /\ bound.device = row.device
    BY <1>2, <2>2 DEF RowType
  <2>4. bound # None
    BY <2>3, NoneAssumption
  <2> HIDE DEF bound
  <2> QED BY <1>2, <2>1, <2>3, <2>4, RowUntold
<1> QED BY <1>3, <1>4, <1>5

\* An attempt of the server begins with nothing filed.
LEMMA NewAttemptUntold ==
  ASSUME IInv, NEW f \in Flows, NEW s \in ServerIds, NewAttempt(f, s), UNCHANGED local
  PROVE  UNCHANGED Ledger!vars
<1>1. /\ logs[s] = {} /\ server[s] = None /\ UNCHANGED <<attempts, queue, logs, ledger>>
      /\ \A t \in ServerIds \ {s} : server'[t] = server[t]
  BY DEF NewAttempt, local, IInv, TypeOK, Awards, LogsServed
<1>2. ASSUME NEW k \in AttemptKeys
      PROVE  FiledOf(k)' = FiledOf(k)
  <2>1. \A t \in ServerIds \ {s} : t \in Registered(k)' <=> t \in Registered(k)
    BY <1>1 DEF Registered
  <2>2. Registered(k)' \subseteq ServerIds /\ Registered(k) \subseteq ServerIds
    BY DEF Registered
  <2>3. UNION {logs[t] : t \in Registered(k)'} = UNION {logs[t] : t \in Registered(k)}
    BY <1>1, <2>1, <2>2
  <2> QED BY <1>1, <2>3 DEF FiledOf
<1> QED BY <1>1, <1>2, SameOwner, Untold

\* The put of a fresh row begins its attempt.
LEMMA MintBegins ==
  ASSUME IInv, NEW f \in Flows, MintAttempt(f)
  PROVE  Ledger!Next
<1> DEFINE row == [device |-> Device(f), status |-> "active", sid |-> None]
<1>1. PICK k \in AttemptKeys : attempts[k] = None /\ attempts' = [attempts EXCEPT ![k] = row]
  BY DEF MintAttempt
<1>2. row \in RowType /\ row.device = Device(f)
  BY Places DEF RowType
<1> HIDE DEF row
<1>3. /\ attempts'[k] = row /\ row # None
      /\ \A x \in AttemptKeys \ {k} : attempts'[x] = attempts[x]
  BY <1>1, <1>2, NoneAssumption DEF IInv, TypeOK
<1>4. OwnerOf(k) = None /\ OwnerOf(k)' = Me(f) /\ Me(f) \in Users
  BY <1>1, <1>2, <1>3, Places DEF OwnerOf, PlayerOf, Me
<1>5. \A x \in AttemptKeys \ {k} : OwnerOf(x)' = OwnerOf(x)
  BY <1>3 DEF OwnerOf, PlayerOf
<1>6. [x \in AttemptKeys |-> OwnerOf(x)]'
        = [[x \in AttemptKeys |-> OwnerOf(x)] EXCEPT ![k] = Me(f)]
  BY <1>4, <1>5
<1>7. /\ UNCHANGED <<queue, ledger>>
      /\ [x \in AttemptKeys |-> FiledOf(x)]' = [x \in AttemptKeys |-> FiledOf(x)]
  BY SameFiled DEF MintAttempt, remote
<1>8. Ledger!Begin(k, Me(f))
  BY <1>4, <1>6, <1>7 DEF Ledger!Begin
<1> QED BY <1>4, <1>8 DEF Ledger!Next

\* appendFact notes a fact, once.
LEMMA AppendNotes ==
  ASSUME IInv, NEW f \in Flows, AppendFact(f)
  PROVE  Ledger!Next \/ UNCHANGED Ledger!vars
<1>1. PICK k, x : k = held[f].key /\ x = held[f].fact
  OBVIOUS
<1>2. k \in AttemptKeys /\ x \in Facts /\ attempts[k] # None
  BY <1>1 DEF AppendFact, IInv, Fit, Keyed
<1>3. queue' = [queue EXCEPT ![k][x] = Append(queue[k][x])]
  BY <1>1, <1>2 DEF AppendFact, IInv, TypeOK
<1>4. UNCHANGED <<attempts, server, logs, ledger>>
  BY DEF AppendFact, remote
<1>5. CASE queue[k][x] = "none"
  <2>1. queue' = [queue EXCEPT ![k][x] = "pending"]
    BY <1>3, <1>5 DEF Append
  <2>2. OwnerOf(k) # None
    BY <1>2, PlacesAssumption, NoneAssumption DEF OwnerOf, PlayerOf, IInv, TypeOK, RowType
  <2>3. /\ [y \in AttemptKeys |-> OwnerOf(y)]' = [y \in AttemptKeys |-> OwnerOf(y)]
        /\ [y \in AttemptKeys |-> FiledOf(y)]' = [y \in AttemptKeys |-> FiledOf(y)]
    BY <1>4, SameOwner, SameFiled
  <2>4. Ledger!Note(k, x)
    BY <1>2, <1>4, <1>5, <2>1, <2>2, <2>3 DEF Ledger!Note
  <2> QED BY <1>2, <2>4 DEF Ledger!Next
<1>6. CASE queue[k][x] # "none"
  <2>1. queue' = [queue EXCEPT ![k][x] = queue[k][x]]
    BY <1>3, <1>6 DEF Append
  <2>2. queue' = queue
    BY <1>2, <2>1 DEF IInv, TypeOK
  <2> QED BY <1>4, <2>2, SameOwner, SameFiled, Untold
<1> QED BY <1>5, <1>6

\* Of a once-ever kind, a batch adds one fact, and none that its player was awarded.
LEMMA AcceptsOne ==
  ASSUME NEW s, NEW batch, NEW new, Accepts(s, batch, new)
  PROVE  /\ \A x \in new : x.kind \in Once => <<server[s].user, x.kind>> \notin ledger
         /\ \A x, y \in new : x.kind = y.kind /\ x.kind \in Once => x = y
<1> DEFINE bonuses == {x \in batch : x.kind \in Once}
           kinds   == {x.kind : x \in bonuses} \ Awarded(s)
<1>1. PICK pick \in [kinds -> bonuses] :
        /\ \A kind \in kinds : pick[kind].kind = kind
        /\ new = ((batch \ bonuses) \cup {pick[kind] : kind \in kinds}) \ logs[s]
  BY DEF Accepts
<1>2. ASSUME NEW x \in new, x.kind \in Once
      PROVE  x.kind \in kinds /\ x = pick[x.kind]
  BY <1>1, <1>2
<1>3. \A kind \in kinds : kind \in Once /\ <<server[s].user, kind>> \notin ledger
  BY DEF Awarded
<1> HIDE DEF kinds, bonuses
<1> QED BY <1>2, <1>3

\* What the server files of a batch was recorded, awards a bonus once, and is kept.
LEMMA PostFiles ==
  ASSUME IInv, Recorded, NEW f \in Flows, pc[f] = "post", Post(f), UNCHANGED local
  PROVE  Ledger!Next
<1>1. PICK k, s, u, batch : k = held[f].key /\ s = held[f].sid /\ u = Me(f) /\ batch = held[f].batch
  OBVIOUS
<1>2. /\ k \in AttemptKeys /\ attempts[k] # None /\ attempts[k].device = Device(f)
      /\ Serves(s, k, u) /\ u \in Users /\ batch \subseteq Facts
      /\ \A x \in batch : queue[k][x] # "none"
  BY <1>1, Places DEF IInv, TypeOK, Fit, Keyed, FlushLabels, WorkType, Recorded
<1>3. PICK new \in SUBSET batch : Accepts(s, batch, new) /\ Apply(s, batch, new)
  BY <1>1 DEF Post
<1>4. UNCHANGED <<attempts, queue, server>>
  BY DEF Post, local
<1>5. OwnerOf(k) = u /\ u # None /\ server[s].user = u /\ s \in Registered(k)
  BY <1>1, <1>2, NoneAssumption DEF OwnerOf, PlayerOf, Me, Serves, Registered
<1>6. /\ \A x \in new : x.kind \in Once => <<u, x.kind>> \notin ledger
      /\ \A x, y \in new : x.kind = y.kind /\ x.kind \in Once => x = y
  BY <1>3, <1>5, AcceptsOne
<1>7. /\ logs'[s] = logs[s] \cup new /\ \A t \in ServerIds \ {s} : logs'[t] = logs[t]
      /\ ledger' = ledger \cup {<<u, x.kind>> : x \in {y \in new : y.kind \in Once}}
  BY <1>2, <1>3, <1>5 DEF Apply, IInv, TypeOK, Serves
<1>8. \A l \in AttemptKeys : Registered(l)' = Registered(l) /\ Registered(l) \subseteq ServerIds
  BY <1>4 DEF Registered
<1>9. FiledOf(k)' = FiledOf(k) \cup new
  <2>1. FiledOf(k)' = UNION {logs'[t] : t \in Registered(k)}
    BY <1>2, <1>8 DEF FiledOf
  <2>2. ASSUME NEW x
        PROVE  (\E t \in Registered(k) : x \in logs'[t])
                 <=> (\E t \in Registered(k) : x \in logs[t]) \/ x \in new
    BY <1>2, <1>5, <1>7, <1>8
  <2> QED BY <2>1, <2>2 DEF FiledOf
<1>10. ASSUME NEW l \in AttemptKeys \ {k}
       PROVE  FiledOf(l)' = FiledOf(l)
  <2>1. s \notin Registered(l)
    BY <1>2, <1>10 DEF Serves, Registered
  <2>2. \A t \in Registered(l) : logs'[t] = logs[t]
    BY <1>7, <1>8, <2>1
  <2>3. {logs'[t] : t \in Registered(l)} = {logs[t] : t \in Registered(l)}
    BY <2>2
  <2> QED BY <1>8, <2>3 DEF FiledOf
<1>11. [x \in AttemptKeys |-> FiledOf(x)]'
         = [[x \in AttemptKeys |-> FiledOf(x)] EXCEPT ![k] = FiledOf(k) \cup new]
  BY <1>9, <1>10
<1>12. [x \in AttemptKeys |-> OwnerOf(x)]' = [x \in AttemptKeys |-> OwnerOf(x)]
  BY <1>4, SameOwner
<1>13. Ledger!File(k, new)
  <2> DEFINE owners == [x \in AttemptKeys |-> OwnerOf(x)]
             files  == [x \in AttemptKeys |-> FiledOf(x)]
  <2>1. owners[k] = u /\ files[k] = FiledOf(k)
    BY <1>2, <1>5
  <2>2. \A x \in new : queue[k][x] # "none" /\ ~(x.kind \in Once /\ <<owners[k], x.kind>> \in ledger)
    BY <1>2, <1>6, <2>1
  <2>3. files' = [files EXCEPT ![k] = files[k] \cup new]
    BY <1>11, <2>1
  <2>4. ledger' = ledger \cup {<<owners[k], x.kind>> : x \in {y \in new : y.kind \in Once}}
    BY <1>7, <2>1
  <2>5. owners' = owners /\ queue' = queue /\ owners[k] # None
    BY <1>4, <1>5, <1>12, <2>1
  <2>6. files' = [files EXCEPT ![k] = @ \cup new]
    BY <2>3
  <2> QED BY <1>6, <2>2, <2>4, <2>5, <2>6 DEF Ledger!File, Ledger!Awarded
<1>14. new \in SUBSET Facts
  BY <1>2
<1> QED BY <1>2, <1>13, <1>14 DEF Ledger!Next

\* markSent confirms what was pending of the batch, and by then it is filed.
LEMMA MarkConfirms ==
  ASSUME IInv, NEW f \in Flows, MarkSent(f)
  PROVE  Ledger!Next
<1>1. PICK k, s, u, batch : k = held[f].key /\ s = held[f].sid /\ u = Me(f) /\ batch = held[f].batch
  OBVIOUS
<1>2. /\ k \in AttemptKeys /\ attempts[k] # None /\ attempts[k].device = Device(f)
      /\ Serves(s, k, u) /\ batch \subseteq Facts /\ \A x \in batch : Filed(x, s, u)
  BY <1>1 DEF MarkSent, IInv, TypeOK, Fit, Keyed, FlushLabels, WorkType
<1> DEFINE done == {x \in batch : queue[k][x] = "pending"}
<1>3. queue' = [queue EXCEPT ![k] = [x \in Facts |-> IF x \in done THEN "sent" ELSE queue[k][x]]]
  BY <1>1, <1>2 DEF MarkSent, Marked, IInv, TypeOK
<1>4. UNCHANGED <<attempts, server, logs, ledger>>
  BY DEF MarkSent, remote
<1>5. OwnerOf(k) = u /\ s \in Registered(k)
  BY <1>1, <1>2 DEF OwnerOf, PlayerOf, Me, Serves, Registered
<1>6. ASSUME NEW x \in done
      PROVE  /\ queue[k][x] = "pending"
             /\ x \in FiledOf(k) \/ (x.kind \in Once /\ <<u, x.kind>> \in ledger)
  BY <1>2, <1>5, <1>6 DEF Filed, FiledOf
<1>7. /\ [x \in AttemptKeys |-> OwnerOf(x)]' = [x \in AttemptKeys |-> OwnerOf(x)]
      /\ [x \in AttemptKeys |-> FiledOf(x)]' = [x \in AttemptKeys |-> FiledOf(x)]
  BY <1>4, SameOwner, SameFiled
<1>8. done \in SUBSET Facts
  BY <1>2
<1> HIDE DEF done
<1>9. Ledger!Confirm(k, done)
  <2> DEFINE owners == [x \in AttemptKeys |-> OwnerOf(x)]
             files  == [x \in AttemptKeys |-> FiledOf(x)]
  <2>1. owners[k] = u /\ files[k] = FiledOf(k)
    BY <1>2, <1>5
  <2>2. \A x \in done : /\ queue[k][x] = "pending"
                        /\ x \in files[k] \/ (x.kind \in Once /\ <<owners[k], x.kind>> \in ledger)
    BY <1>6, <2>1
  <2>3. queue' = [queue EXCEPT ![k] = [x \in Facts |-> IF x \in done THEN "sent" ELSE @[x]]]
    BY <1>2, <1>3 DEF IInv, TypeOK
  <2> QED BY <1>4, <1>7, <2>2, <2>3 DEF Ledger!Confirm, Ledger!Awarded
<1> QED BY <1>2, <1>8, <1>9 DEF Ledger!Next

\* Every step of a flow, of a tab or of the server is a step of FactLedger or none.
LEMMA StepKeepsLedger == IInv /\ Recorded /\ [Next]_vars => [Ledger!Next]_(Ledger!vars)
<1> SUFFICES ASSUME IInv, Recorded, [Next]_vars PROVE [Ledger!Next]_(Ledger!vars)
  OBVIOUS
<1>1. ASSUME NEW f \in Flows, Begin(f)
      PROVE  UNCHANGED Ledger!vars
  <2>1. OpenQuest(f) => UNCHANGED <<local, remote>>
    BY DEF OpenQuest
  <2>2. Restart(f) => UNCHANGED <<local, remote>>
    BY DEF Restart
  <2>3. Advance(f) => UNCHANGED <<local, remote>>
    BY DEF Advance
  <2>4. \A x \in Facts : Record(f, x) => UNCHANGED <<local, remote>>
    BY DEF Record
  <2>5. \A k \in AttemptKeys : StartFlush(f, k) => UNCHANGED <<local, remote>>
    BY DEF StartFlush
  <2> QED BY <1>1, <2>1, <2>2, <2>3, <2>4, <2>5, UntoldStep DEF Begin
<1>2. ASSUME NEW f \in Flows, Resume(f)
      PROVE  [Ledger!Next]_(Ledger!vars)
  <2>1. CASE Supersede(f) \/ AdvancePut(f) \/ BindPut(f)
    BY <2>1, CopyUntold
  <2>2. CASE MintAttempt(f)
    BY <2>2, MintBegins
  <2>3. CASE AppendFact(f)
    BY <2>3, AppendNotes
  <2>4. CASE MarkSent(f)
    BY <2>4, MarkConfirms
  <2>5. CASE CreateAttempt(f) \/ CreateFails(f)
    <3>1. \/ \E s \in ServerIds : NewAttempt(f, s) /\ UNCHANGED local
          \/ UNCHANGED <<local, remote>>
      BY <2>5 DEF CreateAttempt, CreateFails
    <3> QED BY <3>1, NewAttemptUntold, UntoldStep
  <2>6. CASE PostFacts(f) \/ PostFails(f)
    <3>1. pc[f] = "post" /\ UNCHANGED local /\ (Post(f) \/ UNCHANGED remote)
      BY <2>6 DEF PostFacts, PostFails
    <3> QED BY <3>1, PostFiles, UntoldStep
  <2>7. CASE FindActive(f) \/ MintFails(f) \/ ReadBound(f) \/ Checkout(f) \/ CheckoutFails(f) \/ BindGet(f)
    <3>1. UNCHANGED <<local, remote>>
      BY <2>7 DEF FindActive, MintFails, ReadBound, Checkout, CheckoutFails, BindGet
    <3> QED BY <3>1, UntoldStep
  <2> QED BY <1>2, <2>1, <2>2, <2>3, <2>4, <2>5, <2>6, <2>7 DEF Resume
<1>3. ASSUME NEW t \in Tabs, CloseTab(t)
      PROVE  UNCHANGED Ledger!vars
  BY <1>3, UntoldStep DEF CloseTab
<1>4. UNCHANGED vars => UNCHANGED Ledger!vars
  BY UntoldStep DEF vars, local, remote
<1> QED BY <1>1, <1>2, <1>3, <1>4 DEF Next

\* Whatever tabs, devices, restarts, lost replies and repeats interleave, the queue and
\* the server implement FactLedger: nothing recorded is lost, nothing else is filed, a
\* player's bonus is awarded with one fact, and what is marked as sent is kept and stays
\* marked (queue.ts, sync.ts, append_idempotent).
THEOREM LedgerAlwaysKept == Spec => KeepsLedger
<1>1. Init => Ledger!Init
  <2> SUFFICES ASSUME Init PROVE Ledger!Init
    OBVIOUS
  <2>1. \A k \in AttemptKeys : OwnerOf(k) = None /\ FiledOf(k) = {}
    BY DEF Init, OwnerOf, FiledOf, Registered
  <2> QED BY <2>1 DEF Init, Ledger!Init
<1> QED BY <1>1, StepKeepsLedger, Inductive, AlwaysRecorded, PTL DEF Spec, KeepsLedger, Ledger!Spec
=============================================================================
